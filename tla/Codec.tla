------------------------------- MODULE Codec --------------------------------
(***************************************************************************)
(* The key codec of codec.c, as the hash tree uses it.  A key is parsed    *)
(* into a format and up to MAX_FMT_ARGS numbers; the format is looked up   *)
(* in, or added to, a dictionary; the index and the numbers are the code   *)
(* under which the tree stores the item.  Codes are compared to find a     *)
(* key, and decoded to list, split and compact.                            *)
(*                                                                         *)
(* ht_add encodes with the lock of the tree.  ht_get_withbuf, on behalf of *)
(* bc_get, encodes before it takes the lock, and may add a format too.     *)
(*                                                                         *)
(* A character is a number: 0 .. 15 are the hexadecimal digits, others are *)
(* above.  A byte that is negative as a C char is a negative number.       *)
(***************************************************************************)
EXTENDS Integers, Sequences, FiniteSets, SequencesExt

CONSTANTS Getter, Setter,            \* threads
          Workload,                  \* sets of keys that clients may be using
          Unsupported,               \* the characters % @ :
          MIN_DEC, MAX_DEC,          \* 3 and 9 in the code: digits of a %d,
          MIN_HEX, MAX_HEX,          \* 4 and 8: of a %x
          MIN_LEN, MAX_LEN,          \* 6 and 100: keys between them are encoded
          MAX_FMT_ARGS,              \* 2
          VARINT,                    \* 64: indices below it take one byte
          DEFAULT_DICT_SIZE, MAX_DICT_SIZE,
          fnv1a(_),                  \* a number for each format
          AfterRace,                 \* Bound: are behaviours followed after a race?
          None

VARIABLES
  dict, dict_used, dict_size, rdict, \* rdict: index of the format, 0: free, -1: none
  pc, key, slot, rh, code,           \* of each thread
  lock,                              \* tree->lock
  asked,                             \* the keys that clients are using
  stored,                            \* the items of the tree: [key, code]
  raced                              \* history: two threads were adding formats at once

codec == <<dict, dict_used, dict_size, rdict>>
vars == <<codec, pc, key, slot, rh, code, lock, asked, stored, raced>>

Thread == Getter \cup Setter

-----------------------------------------------------------------------------
PctD == 100                          \* what stands for %d and %x in a format
PctX == 101

digit(c) == c \in 0 .. 15
letter(c) == c \in 10 .. 15

\* Mutant: the letter after MAX_DEC - 1 decimals is kept.
scan_number_keep(src, p) ==
  LET hex(n) == \E i \in p .. p + n - 1 : letter(src[i])
      ends(n) == \/ p + n > Len(src) \/ ~digit(src[p + n])
                 \/ n >= IF hex(n) THEN MAX_HEX ELSE MAX_DEC
      taken == CHOOSE n \in 1 .. MAX_DEC : ends(n) /\ \A j \in 1 .. n - 1 : ~ends(j)
  IN [len |-> taken, hex |-> hex(taken)]

\* The number that starts at p: how many characters it takes, and is it a %x?
\* A letter after MAX_DEC - 1 decimals is given back.
scan_number(src, p) ==
  LET hex(n) == \E i \in p .. p + n - 1 : letter(src[i])
      ends(n) == \/ p + n > Len(src) \/ ~digit(src[p + n])
                 \/ n >= IF hex(n) THEN MAX_HEX ELSE MAX_DEC
      taken == CHOOSE n \in 1 .. MAX_DEC : ends(n) /\ \A j \in 1 .. n - 1 : ~ends(j)
  IN IF hex(taken) /\ taken = MAX_DEC THEN [len |-> taken - 1, hex |-> FALSE]
     ELSE [len |-> taken, hex |-> hex(taken)]

\* strtol and atoi, kept in an int32_t: as many bits as MAX_HEX digits have.
number(s, base) == FoldLeft(LAMBDA n, d : n * base + d, 0, s) % 16 ^ MAX_HEX

RECURSIVE parse(_, _, _, _)
parse(src, p, fmt, args) ==
  IF p > Len(src) THEN [fmt |-> fmt, args |-> args]
  ELSE IF digit(src[p]) /\ src[p] # 0 /\ Len(args) < MAX_FMT_ARGS + 1
  THEN LET n == scan_number(src, p)
           text == SubSeq(src, p, p + n.len - 1)
       IN IF n.hex /\ n.len >= MIN_HEX
          THEN parse(src, p + n.len, Append(fmt, PctX), Append(args, number(text, 16)))
          ELSE IF ~n.hex /\ n.len >= MIN_DEC
          THEN parse(src, p + n.len, Append(fmt, PctD), Append(args, number(text, 10)))
          ELSE parse(src, p + n.len, fmt \o text, args)
  ELSE parse(src, p + 1, Append(fmt, src[p]), args)

parse_fmt(src) ==
  IF \E i \in 1 .. Len(src) : src[i] \in Unsupported THEN [fmt |-> <<>>, args |-> <<>>]
  ELSE parse(src, 1, <<>>, <<>>)

\* The keys dc_encode uses the dictionary for.
encodable(src) ==
  /\ Len(src) > MIN_LEN /\ Len(src) < MAX_LEN
  /\ Len(parse_fmt(src).args) \in 1 .. MAX_FMT_ARGS

\* snprintf with %d and %x.
RECURSIVE digits(_, _)
digits(n, base) == IF n < base THEN <<n>> ELSE Append(digits(n \div base, base), n % base)

print(fmt, args) ==
  FoldLeft(LAMBDA r, c :
             IF c \in {PctD, PctX}
             THEN [out |-> r.out \o digits(r.args[1], IF c = PctX THEN 16 ELSE 10),
                   args |-> Tail(r.args)]
             ELSE [r EXCEPT !.out = Append(@, c)],
           [out |-> <<>>, args |-> args], fmt).out

encode_varint_old(n) ==
  IF n < VARINT THEN <<-n>> ELSE <<(-(n % VARINT)) - VARINT, n \div VARINT>>
decode_varint_old(c) ==
  IF -c[1] >= VARINT THEN [n |-> -c[1] - VARINT + c[2] * VARINT, len |-> 2]
  ELSE [n |-> -c[1], len |-> 1]

\* dc_decode: a code that starts with a negative byte has a format.
dc_decode(c) ==
  IF c[1] < 0
  THEN LET v == decode_varint_old(c) IN print(dict[v.n], SubSeq(c, v.len + 1, Len(c)))
  ELSE c

-----------------------------------------------------------------------------
rdict_size(size) == size * 7 + 1

\* The first slot, from the one fnv1a gives, that is free, given up, or has one
\* of the indices.
first(fmt, rd, indices) ==
  LET index(j) == ((fnv1a(fmt) + j) % Len(rd)) + 1
      stop(j) == rd[index(j)] <= 0 \/ rd[index(j)] \in indices
  IN index(CHOOSE j \in 0 .. Len(rd) - 1 : stop(j) /\ \A i \in 0 .. j - 1 : ~stop(i))

\* The slot of a format in dc_encode.
probe(fmt) == first(fmt, rdict, {i \in DOMAIN dict : dict[i] = fmt})

\* dc_rebuild.
rebuilt(used, size) ==
  FoldLeft(LAMBDA rd, i : [rd EXCEPT ![first(dict[i], rd, {})] = i],
           [h \in 1 .. rdict_size(size) |-> 0], [i \in 1 .. used - 1 |-> i])

\* dc_new.
Init ==
  /\ dict = [i \in 1 .. MAX_DICT_SIZE - 1 |-> None] /\ dict_used = 1
  /\ dict_size = DEFAULT_DICT_SIZE /\ rdict = [h \in 1 .. rdict_size(DEFAULT_DICT_SIZE) |-> 0]
  /\ pc = [t \in Thread |-> "idle"] /\ key = [t \in Thread |-> None]
  /\ slot = [t \in Thread |-> 0] /\ rh = [t \in Thread |-> 0] /\ code = [t \in Thread |-> None]
  /\ asked \in Workload
  /\ lock = None /\ stored = {} /\ raced = FALSE

\* An index that came to have no format is a null pointer to the next thread
\* that compares formats, and ends the process.
Alive ==
  /\ \A i \in 1 .. dict_used - 1 : i \in DOMAIN dict /\ dict[i] # None
  /\ raced => AfterRace

at(t, label) == pc[t] = label /\ Alive
goto(t, label) == pc' = [pc EXCEPT ![t] = label]
encoded(t, c) == code' = [code EXCEPT ![t] = c] /\ goto(t, "encoded")

\* ht_add takes the lock; ht_get_withbuf does not.  A key without a format is its own code.
Call(t, k) ==
  /\ at(t, "idle") /\ key' = [key EXCEPT ![t] = k]
  /\ IF t \in Setter THEN lock = None /\ lock' = t ELSE UNCHANGED lock
  /\ IF encodable(k) THEN goto(t, "probe") /\ UNCHANGED code ELSE encoded(t, k)
  /\ UNCHANGED <<codec, slot, rh, stored, raced, asked>>

\* dc_encode: the format is in the dictionary, or is not and cannot be, or is new.
Probe(t) ==
  /\ at(t, "probe")
  /\ LET f == parse_fmt(key[t])
         h == probe(f.fmt)
     IN CASE rdict[h] > 0 -> encoded(t, encode_varint_old(rdict[h]) \o f.args) /\ UNCHANGED slot
          [] rdict[h] < 0 -> encoded(t, key[t]) /\ UNCHANGED slot
          [] OTHER        -> slot' = [slot EXCEPT ![t] = h] /\ goto(t, "add") /\ UNCHANGED code
  /\ UNCHANGED <<codec, key, rh, lock, stored, raced, asked>>

adding(t) == \E u \in Thread \ {t} : pc[u] \in {"add", "index", "publish"}

\* A new format is written to the dictionary, if there is room, ...
Add(t) ==
  /\ at(t, "add")
  /\ IF dict_used < dict_size
     THEN /\ dict' = [dict EXCEPT ![dict_used] = parse_fmt(key[t]).fmt]
          /\ goto(t, "index") /\ UNCHANGED <<rdict, code>>
     ELSE /\ rdict' = [rdict EXCEPT ![slot[t]] = -1]
          /\ encoded(t, key[t]) /\ UNCHANGED dict
  /\ raced' = (raced \/ adding(t))
  /\ UNCHANGED <<dict_used, dict_size, key, slot, rh, lock, stored, asked>>

\* ... and gets the index dict_used++, a read ...
Index(t) ==
  /\ at(t, "index") /\ rh' = [rh EXCEPT ![t] = dict_used] /\ goto(t, "publish")
  /\ raced' = (raced \/ adding(t))
  /\ UNCHANGED <<codec, key, slot, code, lock, stored, asked>>

\* Mutant: the dictionary grows and its index is not built again.
PublishNotRebuilt(t) ==
  /\ at(t, "publish") /\ dict_used' = rh[t] + 1
  /\ IF dict_used' = dict_size /\ dict_size < MAX_DICT_SIZE
     THEN /\ dict_size' = Min({dict_size * 2, MAX_DICT_SIZE})
          /\ rdict' = [h \in 1 .. rdict_size(dict_size') |-> 0]
     ELSE rdict' = [rdict EXCEPT ![slot[t]] = rh[t]] /\ UNCHANGED dict_size
  /\ encoded(t, encode_varint_old(rh[t]) \o parse_fmt(key[t]).args)
  /\ raced' = (raced \/ adding(t))
  /\ UNCHANGED <<dict, key, slot, rh, lock, stored, asked>>

\* ... and a write, that other threads may come between; dc_enlarge makes room for more.
Publish(t) ==
  /\ at(t, "publish") /\ dict_used' = rh[t] + 1
  /\ IF dict_used' = dict_size /\ dict_size < MAX_DICT_SIZE
     THEN /\ dict_size' = Min({dict_size * 2, MAX_DICT_SIZE})
          /\ rdict' = rebuilt(dict_used', dict_size')
     ELSE rdict' = [rdict EXCEPT ![slot[t]] = rh[t]] /\ UNCHANGED dict_size
  /\ encoded(t, encode_varint_old(rh[t]) \o parse_fmt(key[t]).args)
  /\ raced' = (raced \/ adding(t))
  /\ UNCHANGED <<dict, key, slot, rh, lock, stored, asked>>

\* The item is added under its code, or looked for; the call returns.
Finish(t) ==
  /\ at(t, "encoded")
  /\ IF t \in Setter THEN lock' = None /\ stored' = stored \cup {[key |-> key[t], code |-> code[t]]}
     ELSE lock = None /\ UNCHANGED <<lock, stored, asked>>
  /\ key' = [key EXCEPT ![t] = None] /\ slot' = [slot EXCEPT ![t] = 0] /\ rh' = [rh EXCEPT ![t] = 0]
  /\ code' = [code EXCEPT ![t] = None] /\ goto(t, "idle")
  /\ UNCHANGED <<codec, raced, asked>>

\* ht_save and ht_open: dc_dump writes the dictionary, dc_load reads it.
Reload ==
  /\ \A t \in Thread : at(t, "idle")
  /\ dict_size' = Max({DEFAULT_DICT_SIZE, Min({dict_used * 2, MAX_DICT_SIZE})})
  /\ rdict' = rebuilt(dict_used, dict_size')
  /\ UNCHANGED <<dict, dict_used, pc, key, slot, rh, code, lock, stored, raced, asked>>

Next ==
  \/ \E t \in Thread : \/ \E k \in asked : Call(t, k)
                       \/ Probe(t) \/ Add(t) \/ Index(t) \/ Publish(t) \/ Finish(t)
  \/ Reload

Spec == Init /\ [][Next]_vars

-----------------------------------------------------------------------------
\* Every item of the tree can be named again: its code decodes to its key, while
\* formats are added, the dictionary grows, is full, or comes from a file.
Decodes == ~raced => \A i \in stored : dc_decode(i.code) = i.key

\* A key has one code for ever, and no two keys have the same: the tree, which
\* compares codes, finds the item of a key and no other.
Finds ==
  ~raced => \A i \in stored :
              /\ \A j \in stored : i.key = j.key <=> i.code = j.code
              /\ \A t \in Thread : pc[t] = "encoded" => (i.key = key[t] <=> i.code = code[t])

\* The same of all behaviours, a bc_get that adds a format beside another thread included.
KeysDistinct == \A i, j \in stored : i.key = j.key <=> i.code = j.code
=============================================================================
