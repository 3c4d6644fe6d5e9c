------------------------------- MODULE Bitcask -------------------------------
(***************************************************************************)
(* One bitcask of the store, from bc_open on an empty directory until the  *)
(* process ends: the in-memory index (tree), the write buffer, the flush   *)
(* buffer, the numbered data files, and the hint files that are built      *)
(* when a data file is full.  Client threads run bc_set and bc_get, the    *)
(* flush thread runs bc_flush every second, and each rotation starts a     *)
(* detached thread that writes a hint file.                                *)
(*                                                                         *)
(* buffer_lock and the lock inside an HTree are held for one step each and *)
(* are modelled by the atomicity of that step; write_lock and flush_lock   *)
(* are held across steps and are variables.  Offsets and sizes count       *)
(* blocks of PADDING (256) bytes.                                          *)
(***************************************************************************)
EXTENDS Versions, Sequences, FiniteSets

CONSTANTS
  Key, Value, VersionArg,   \* what set commands may carry
  Empty,                    \* the value a delete carries
  HashOf, SizeOf,           \* gen_hash of a value; blocks of its record
  Client, Flusher, None,    \* client threads, the flush thread, nobody
  MAX_BUCKET_COUNT, MaxBucketSize, InitBufferSize, WRITE_BUFFER_SIZE,
  PosRange                  \* number of positions a uint32_t can name

ASSUME ConstantsAssumption ==
  /\ Empty \in Value
  /\ VersionArg \subseteq CInt
  /\ HashOf \in [Value -> Nat] /\ HashOf[Empty] # 0
  /\ SizeOf \in [Value -> Nat \ {0}]
  /\ None \notin Client \cup {Flusher} /\ Flusher \notin Client
  /\ MAX_BUCKET_COUNT \in Nat \ {0}
  /\ MaxBucketSize \in Nat \ {0}
  /\ InitBufferSize \in Nat \ {0}
  /\ WRITE_BUFFER_SIZE \in Nat \ {0}
  /\ PosRange \in Nat \ {0}

VARIABLES
  status,           \* "up", or why the process called exit()
  tree, curr_tree,  \* HTree of the bitcask; HTree of the current bucket
  curr,             \* number of the current bucket
  write_buffer, wbuf_start_pos, wbuf_size,
  flush_buffer, fbuf_start_pos, flushing_bucket,
  buckets,          \* size of each data file as the process knows it, or -1
  data,             \* the data files on disk
  hint,             \* the hint files on disk
  building,         \* hint files that detached threads still have to write
  write_lock, flush_lock,
  flushed,          \* the holder of flush_lock has written its file
  entered,          \* threads inside bc_flush that wait for flush_lock
  pc, arg, it, item, ret  \* per client: program counter and locals

index   == <<tree, curr_tree>>
wbuf    == <<write_buffer, wbuf_start_pos, wbuf_size>>
fbuf    == <<flush_buffer, fbuf_start_pos, flushing_bucket, flush_lock, flushed, entered>>
disk    == <<buckets, data, hint, building>>
locals  == <<arg, it, item, ret>>
threads == <<write_lock, pc, arg, it, item, ret>>
vars    == <<status, index, curr, wbuf, fbuf, disk, threads>>

Bucket == 0 .. MAX_BUCKET_COUNT - 1
NoBucket == -1
NoFile == [b \in {} |-> <<>>]

\* A block of a buffer or file: the first block of a record carries its
\* version, the blocks after it carry 0.
Block == [key : Key, ver : Int, val : Value]

\* An Item of an HTree; version 0 stands for a key that is not in the tree.
Item == [bucket : Nat, off : Nat, hash : Nat, ver : Int]
NoItem == [bucket |-> 0, off |-> 0, hash |-> 0, ver |-> 0]
EmptyTree == [k \in Key |-> NoItem]

Nothing == [ver |-> 0, val |-> Empty]
NoArg == [key |-> None, val |-> Empty, version |-> 0, ver |-> 0]

encode_record(k, v, ver) ==
  [i \in 1 .. SizeOf[v] |-> [key |-> k, ver |-> IF i = 1 THEN ver ELSE 0, val |-> v]]

\* A whole record starts at offset o of s (size and checksum are right).
decodes(s, o) ==
  /\ o \in 0 .. Len(s) - 1
  /\ s[o + 1].ver # 0
  /\ o + SizeOf[s[o + 1].val] <= Len(s)

u32(x) == x % PosRange

\* gen_hash is only taken of live values.
hash_of(v, ver) == IF ver > 0 THEN HashOf[v] ELSE 0

\* (offset | bucket) as a 32-bit position: a bucket number that does not fit
\* the low 8 bits sets the lowest bit of the offset instead.
new_item(b, o, v, ver) ==
  [bucket |-> b % MAX_BUCKET_COUNT,
   off    |-> IF b < MAX_BUCKET_COUNT THEN o ELSE o + 1 - (o % 2),
   hash   |-> hash_of(v, ver),
   ver    |-> ver]

Init ==
  /\ status = "up"
  /\ tree = EmptyTree /\ curr_tree = EmptyTree
  /\ curr = 0
  /\ write_buffer = <<>> /\ wbuf_start_pos = 0 /\ wbuf_size = InitBufferSize
  /\ flush_buffer = <<>> /\ fbuf_start_pos = 0 /\ flushing_bucket = NoBucket
  /\ buckets = [b \in Bucket |-> -1]
  /\ data = NoFile /\ hint = NoFile /\ building = {}
  /\ write_lock = None /\ flush_lock = None /\ flushed = FALSE /\ entered = {}
  /\ pc = [t \in Client |-> "idle"]
  /\ arg = [t \in Client |-> NoArg]
  /\ it = [t \in Client |-> NoItem] /\ item = [t \in Client |-> NoItem]
  /\ ret = [t \in Client |-> Nothing]

goto(t, l) == pc' = [pc EXCEPT ![t] = l]

----------------------------------------------------------------------------
(***************************************************************************)
(* bc_rotate: hand curr_tree to a thread that builds the hint file, record *)
(* the size of the data file if it exists, and open the next bucket.       *)
(***************************************************************************)
bc_rotate ==
  /\ building' = building \cup {[bucket |-> curr, items |-> curr_tree]}
  /\ hint' = [b \in DOMAIN hint \ {curr} |-> hint[b]]
  /\ buckets' = [b \in Bucket |-> IF b = curr /\ b \in DOMAIN data
                                  THEN Len(data[b]) ELSE buckets[b]]
  /\ curr' = curr + 1
  /\ curr_tree' = EmptyTree
  /\ wbuf_start_pos' = 0

\* The detached build_thread: the hint file keeps offsets, not bucket numbers.
build_hint(h) ==
  /\ building' = building \ {h}
  /\ hint' = [b \in DOMAIN hint \cup {h.bucket} |->
                IF b = h.bucket THEN h.items ELSE hint[b]]
  /\ UNCHANGED <<status, index, curr, wbuf, fbuf, buckets, data, threads>>

----------------------------------------------------------------------------
(***************************************************************************)
(* bc_flush, called by the flush thread and by bc_set.  The write buffer   *)
(* is moved to the flush buffer under both locks, the file is appended to  *)
(* under flush_lock alone, and the flush buffer is dropped under both.     *)
(***************************************************************************)
\* Mutant: there is no flush thread, only the flushes of bc_set.
in_flush_by_set(f) == f # flush_lock /\ f \in Client /\ pc[f] = "flush"

in_flush(f) == f # flush_lock /\ (f \in Client => pc[f] = "flush")

resized == CASE wbuf_size < WRITE_BUFFER_SIZE     -> 2 * wbuf_size
             [] wbuf_size > 2 * WRITE_BUFFER_SIZE -> WRITE_BUFFER_SIZE
             [] OTHER                             -> wbuf_size

\* The bucket count is checked before any lock is taken: exit(1) with "reach
\* max bucket count", or go and wait for flush_lock.
FlushEnter(f) ==
  /\ in_flush(f) /\ f \notin entered
  /\ IF curr >= MAX_BUCKET_COUNT
     THEN status' = "full" /\ UNCHANGED entered
     ELSE entered' = entered \cup {f} /\ UNCHANGED status
  /\ UNCHANGED <<index, curr, wbuf, flush_buffer, fbuf_start_pos, flushing_bucket,
                 flush_lock, flushed, disk, threads>>

\* Nothing to flush for the bc_set that called.
FlushNothing(f) ==
  /\ in_flush(f) /\ f \in entered /\ f # Flusher
  /\ flush_lock = None
  /\ write_buffer = <<>>
  /\ entered' = entered \ {f}
  /\ goto(f, "grow")
  /\ UNCHANGED <<status, index, curr, wbuf, flush_buffer, fbuf_start_pos, flushing_bucket,
                 flush_lock, flushed, disk, write_lock, locals>>

\* Which of limit and period makes the flush thread's call due is left open:
\* a call that is not due returns, which is a longer wait of this model's.
FlushBegin(f) ==
  /\ in_flush(f) /\ f \in entered
  /\ flush_lock = None
  /\ write_buffer # <<>>
  /\ entered' = entered \ {f}
  /\ flush_lock' = f /\ flushed' = FALSE
  /\ flushing_bucket' = curr
  /\ flush_buffer' = write_buffer
  /\ fbuf_start_pos' = wbuf_start_pos
  /\ write_buffer' = <<>>
  /\ wbuf_size' = resized
  /\ IF u32(wbuf_start_pos + Len(write_buffer) + resized) > MaxBucketSize
     THEN bc_rotate
     ELSE /\ wbuf_start_pos' = u32(wbuf_start_pos + Len(write_buffer))
          /\ UNCHANGED <<curr, curr_tree, buckets, hint, building>>
  /\ UNCHANGED <<status, tree, data, threads>>

file(b) == IF b \in DOMAIN data THEN data[b] ELSE <<>>
file_size(b) == Len(file(b))

\* new_data finds a file it did not expect, or the file does not end where
\* the buffer starts: both exit.  A bucket number outside the array is
\* undefined behaviour, and the model stops there.
bad_file(b) ==
  \/ buckets[b] < 0 /\ b \in DOMAIN data
  \/ fbuf_start_pos > 0 /\ fbuf_start_pos # file_size(b)

FlushWrite(f) ==
  /\ flush_lock = f /\ ~flushed
  /\ LET b == flushing_bucket
     IN IF b \notin Bucket \/ bad_file(b)
        THEN /\ status' = IF b \in Bucket THEN "bad file" ELSE "overrun"
             /\ UNCHANGED <<buckets, data, flushed>>
        ELSE /\ data' = [x \in DOMAIN data \cup {b} |->
                           IF x = b THEN file(b) \o flush_buffer ELSE data[x]]
             /\ buckets' = [buckets EXCEPT ![b] = file_size(b) + Len(flush_buffer)]
             /\ flushed' = TRUE
             /\ UNCHANGED status
  /\ UNCHANGED <<index, curr, wbuf, flush_buffer, fbuf_start_pos, flushing_bucket,
                 flush_lock, entered, hint, building, threads>>

FlushEnd(f) ==
  /\ flush_lock = f /\ flushed
  /\ flush_buffer' = <<>> /\ flushing_bucket' = NoBucket
  /\ flush_lock' = None /\ flushed' = FALSE
  /\ pc' = [t \in Client |-> IF t = f THEN "grow" ELSE pc[t]]
  /\ UNCHANGED <<status, index, curr, wbuf, fbuf_start_pos, entered, disk, write_lock, locals>>

----------------------------------------------------------------------------
(***************************************************************************)
(* bc_get.  The item is looked up in one step; curr and flushing_bucket    *)
(* are then read without a lock, in this order, to decide whether the      *)
(* buffers are worth a look.  bc_set runs the same steps to compare the    *)
(* stored value, and is then the holder of write_lock.                     *)
(***************************************************************************)
\* Mutant: the version comes from the index as it is after the record was read.
get_returns_new_version(t, found, r) ==
  IF write_lock = t
  THEN /\ goto(t, IF ~found \/ r.val # arg[t].val THEN "append"
                  ELSE IF arg[t].version # 0 THEN "raise"
                  ELSE "unlock")
       /\ UNCHANGED ret
  ELSE /\ ret' = [ret EXCEPT ![t] = IF found THEN [ver |-> tree[arg[t].key].ver, val |-> r.val]
                                             ELSE Nothing]
       /\ goto(t, "return")

\* bc_get returns record r, or NULL: a client's get is answered, a bc_set
\* goes on to write a record, to raise the version, or to do nothing.
get_returns(t, found, r) ==
  IF write_lock = t
  THEN /\ goto(t, IF ~found \/ r.val # arg[t].val THEN "append"
                  ELSE IF arg[t].version # 0 THEN "raise"
                  ELSE "unlock")
       /\ UNCHANGED ret
  ELSE /\ ret' = [ret EXCEPT ![t] = IF found THEN [ver |-> item[t].ver, val |-> r.val]
                                             ELSE Nothing]
       /\ goto(t, "return")

\* ht_get_maybe_tmp; bc_set does not ask for tombstones.
ht_lookup(t, k, return_deleted) ==
  LET i == tree[k]
  IN IF i.ver = 0 \/ (i.ver < 0 /\ ~return_deleted)
     THEN /\ get_returns(t, FALSE, Nothing)
          /\ UNCHANGED item
     ELSE /\ item' = [item EXCEPT ![t] = i]
          /\ goto(t, "check_curr")
          /\ UNCHANGED ret

GetBegin(t, k) ==
  /\ pc[t] = "idle"
  /\ arg' = [arg EXCEPT ![t].key = k]
  /\ ht_lookup(t, k, TRUE)
  /\ UNCHANGED <<status, index, curr, wbuf, fbuf, disk, write_lock, it>>

SetLookup(t) ==
  /\ pc[t] = "lookup"
  /\ ht_lookup(t, arg[t].key, FALSE)
  /\ UNCHANGED <<status, index, curr, wbuf, fbuf, disk, write_lock, arg, it>>

\* Mutant: a bucket that is being flushed is read from its file.
CheckCurrOnly(t) ==
  /\ pc[t] = "check_curr"
  /\ goto(t, IF item[t].bucket > curr THEN "remove"
             ELSE IF item[t].bucket = curr THEN "buffers"
             ELSE "file")
  /\ UNCHANGED <<status, index, curr, wbuf, fbuf, disk, write_lock, locals>>

CheckCurr(t) ==
  /\ pc[t] = "check_curr"
  /\ goto(t, IF item[t].bucket > curr THEN "remove"
             ELSE IF item[t].bucket = curr THEN "buffers"
             ELSE "check_flushing")
  /\ UNCHANGED <<status, index, curr, wbuf, fbuf, disk, write_lock, locals>>

CheckFlushing(t) ==
  /\ pc[t] = "check_flushing"
  /\ goto(t, IF item[t].bucket = flushing_bucket THEN "buffers" ELSE "file")
  /\ UNCHANGED <<status, index, curr, wbuf, fbuf, disk, write_lock, locals>>

ReadBuffers(t) ==
  /\ pc[t] = "buffers"
  /\ LET i == item[t]
         in_wbuf == i.bucket = curr /\ i.off >= wbuf_start_pos
         in_fbuf == ~in_wbuf /\ i.bucket = flushing_bucket /\ i.off >= fbuf_start_pos
         buf == IF in_wbuf THEN write_buffer ELSE flush_buffer
         p == i.off - (IF in_wbuf THEN wbuf_start_pos ELSE fbuf_start_pos)
     IN IF (in_wbuf \/ in_fbuf) /\ decodes(buf, p)
        THEN get_returns(t, TRUE, buf[p + 1])
        ELSE goto(t, "file") /\ UNCHANGED ret
  /\ UNCHANGED <<status, index, curr, wbuf, fbuf, disk, write_lock, arg, it, item>>

ReadFile(t) ==
  /\ pc[t] = "file"
  /\ LET b == item[t].bucket
         o == item[t].off
     IN IF b \in DOMAIN data /\ decodes(data[b], o) /\ data[b][o + 1].key = arg[t].key
        THEN get_returns(t, TRUE, data[b][o + 1])
        ELSE goto(t, "look_again") /\ UNCHANGED ret
  /\ UNCHANGED <<status, index, curr, wbuf, fbuf, disk, write_lock, arg, it, item>>

\* The key may have moved: read the same file again at the new offset.
LookAgain(t) ==
  /\ pc[t] = "look_again"
  /\ LET i == tree[arg[t].key]
     IN IF i.ver # 0 /\ i.off # item[t].off
        THEN /\ item' = [item EXCEPT ![t] = [i EXCEPT !.bucket = item[t].bucket]]
             /\ goto(t, "file")
        ELSE goto(t, "remove") /\ UNCHANGED item
  /\ UNCHANGED <<status, index, curr, wbuf, fbuf, disk, write_lock, arg, it, ret>>

\* "Bug: get %s failed": the key is dropped from the index.
RemoveKey(t) ==
  /\ pc[t] = "remove"
  /\ tree' = [tree EXCEPT ![arg[t].key] = NoItem]
  /\ get_returns(t, FALSE, Nothing)
  /\ UNCHANGED <<status, curr_tree, curr, wbuf, fbuf, disk, write_lock, arg, it, item>>

finish(t) ==
  /\ goto(t, "idle")
  /\ arg' = [arg EXCEPT ![t] = NoArg]
  /\ it' = [it EXCEPT ![t] = NoItem]
  /\ item' = [item EXCEPT ![t] = NoItem]
  /\ ret' = [ret EXCEPT ![t] = Nothing]

Return(t) ==
  /\ pc[t] = "return"
  /\ finish(t)
  /\ UNCHANGED <<status, index, curr, wbuf, fbuf, disk, write_lock>>

----------------------------------------------------------------------------
(***************************************************************************)
(* bc_set (and bc_delete, which sets Empty with version -1).               *)
(***************************************************************************)
\* Mutant: does not wait for write_lock.
SetBeginUnlocked(t, k, v, n) ==
  /\ pc[t] = "idle"
  /\ n < 0 => v = Empty
  /\ LET ver == NewVersion(n, tree[k].ver)
     IN /\ ver # 0
        /\ arg' = [arg EXCEPT ![t] = [key |-> k, val |-> v, version |-> n, ver |-> ver]]
        /\ it' = [it EXCEPT ![t] = tree[k]]
        /\ goto(t, IF tree[k].ver # 0 /\ tree[k].hash = hash_of(v, ver)
                   THEN "lookup" ELSE "append")
  /\ write_lock' = t
  /\ UNCHANGED <<status, index, curr, wbuf, fbuf, disk, item, ret>>

\* Takes write_lock and decides; a refused command releases it at once.
SetBegin(t, k, v, n) ==
  /\ pc[t] = "idle"
  /\ n < 0 => v = Empty
  /\ write_lock = None
  /\ LET ver == NewVersion(n, tree[k].ver)
     IN /\ ver # 0
        /\ arg' = [arg EXCEPT ![t] = [key |-> k, val |-> v, version |-> n, ver |-> ver]]
        /\ it' = [it EXCEPT ![t] = tree[k]]
        /\ goto(t, IF tree[k].ver # 0 /\ tree[k].hash = hash_of(v, ver)
                   THEN "lookup" ELSE "append")
  /\ write_lock' = t
  /\ UNCHANGED <<status, index, curr, wbuf, fbuf, disk, item, ret>>

\* Mutant: the length of the record without its padding.
rlen_unpadded(t) == SizeOf[arg[t].val] - 1

rlen(t) == SizeOf[arg[t].val]

\* Mutant: the position is taken after wbuf_curr_pos was advanced.
append_record_advanced(t, b, start) ==
  /\ write_buffer' = write_buffer \o encode_record(arg[t].key, arg[t].val, arg[t].ver)
  /\ item' = [item EXCEPT ![t] = new_item(b, u32(start + Len(write_buffer) + rlen(t)),
                                            arg[t].val, arg[t].ver)]
  /\ goto(t, "index_curr")

\* Copies the record into the write buffer and notes where it went.
append_record(t, b, start) ==
  /\ write_buffer' = write_buffer \o encode_record(arg[t].key, arg[t].val, arg[t].ver)
  /\ item' = [item EXCEPT ![t] = new_item(b, u32(start + Len(write_buffer)),
                                            arg[t].val, arg[t].ver)]
  /\ goto(t, "index_curr")

SetAppend(t) ==
  /\ pc[t] = "append"
  /\ IF Len(write_buffer) + rlen(t) > wbuf_size
     THEN goto(t, "flush") /\ UNCHANGED <<write_buffer, item>>
     ELSE append_record(t, curr, wbuf_start_pos)
  /\ UNCHANGED <<status, index, curr, wbuf_start_pos, wbuf_size, fbuf, disk, write_lock, arg, it, ret>>

\* Mutant: a new buffer of the old size.
SetDoubleSameSize(t) ==
  /\ pc[t] = "grow"
  /\ rlen(t) > wbuf_size
  /\ write_buffer' = <<>>
  /\ UNCHANGED <<status, index, curr, wbuf_start_pos, wbuf_size, fbuf, disk, threads>>

\* One round of the loop that doubles the buffer.  Its content is dropped:
\* the loop relies on the flush before it to have emptied the buffer.
SetDouble(t) ==
  /\ pc[t] = "grow"
  /\ rlen(t) > wbuf_size
  /\ wbuf_size' = 2 * wbuf_size
  /\ write_buffer' = <<>>
  /\ UNCHANGED <<status, index, curr, wbuf_start_pos, fbuf, disk, threads>>

SetGrown(t) ==
  /\ pc[t] = "grow"
  /\ rlen(t) <= wbuf_size
  /\ IF u32(wbuf_start_pos + wbuf_size) > MaxBucketSize
     THEN /\ bc_rotate
          /\ append_record(t, curr + 1, 0)
     ELSE /\ append_record(t, curr, wbuf_start_pos)
          /\ UNCHANGED <<curr, curr_tree, wbuf_start_pos, buckets, hint, building>>
  /\ UNCHANGED <<status, tree, wbuf_size, fbuf, data, write_lock, arg, it, ret>>

\* The record goes to the tree of whatever bucket is current by now.
SetIndexCurr(t) ==
  /\ pc[t] = "index_curr"
  /\ curr_tree' = [curr_tree EXCEPT ![arg[t].key] = item[t]]
  /\ goto(t, "index_tree")
  /\ UNCHANGED <<status, tree, curr, wbuf, fbuf, disk, write_lock, locals>>

SetIndexTree(t) ==
  /\ pc[t] = "index_tree"
  /\ tree' = [tree EXCEPT ![arg[t].key] = item[t]]
  /\ write_lock' = None
  /\ finish(t)
  /\ UNCHANGED <<status, curr_tree, curr, wbuf, fbuf, disk>>

\* Same content, explicit version: the item is kept and gets the version.
SetRaise(t) ==
  /\ pc[t] = "raise"
  /\ item' = [item EXCEPT ![t] = [it[t] EXCEPT !.ver = arg[t].ver]]
  /\ goto(t, IF it[t].bucket = curr THEN "index_curr" ELSE "index_tree")
  /\ UNCHANGED <<status, index, curr, wbuf, fbuf, disk, write_lock, arg, it, ret>>

SetUnlock(t) ==
  /\ pc[t] = "unlock"
  /\ write_lock' = None
  /\ finish(t)
  /\ UNCHANGED <<status, index, curr, wbuf, fbuf, disk>>

----------------------------------------------------------------------------
GetStep(t) == CheckCurr(t) \/ CheckFlushing(t) \/ ReadBuffers(t) \/ ReadFile(t)
              \/ LookAgain(t) \/ RemoveKey(t) \/ Return(t)

SetStep(t) == SetLookup(t) \/ SetAppend(t) \/ SetDouble(t) \/ SetGrown(t)
              \/ SetIndexCurr(t) \/ SetIndexTree(t) \/ SetRaise(t) \/ SetUnlock(t)

FlushStep(f) == FlushEnter(f) \/ FlushNothing(f) \/ FlushBegin(f) \/ FlushWrite(f) \/ FlushEnd(f)

Next ==
  /\ status = "up"
  /\ \/ \E t \in Client, k \in Key : GetBegin(t, k)
     \/ \E t \in Client, k \in Key, v \in Value, n \in VersionArg : SetBegin(t, k, v, n)
     \/ \E t \in Client : GetStep(t) \/ SetStep(t)
     \/ \E f \in Client \cup {Flusher} : FlushStep(f)
     \/ \E h \in building : build_hint(h)

Spec == Init /\ [][Next]_vars

\* The scheduler runs every thread that can run; the flush thread never
\* stops calling bc_flush, and a full second or period always passes.
Fairness ==
  /\ \A t \in Client : WF_vars(status = "up" /\ (GetStep(t) \/ SetStep(t)))
  /\ \A f \in Client \cup {Flusher} : WF_vars(status = "up" /\ FlushStep(f))

FairSpec == Spec /\ Fairness

----------------------------------------------------------------------------
Label == {"idle", "lookup", "check_curr", "check_flushing", "buffers", "file", "look_again",
          "remove", "return", "append", "flush", "grow", "index_curr", "index_tree",
          "raise", "unlock"}

Arg == [key : Key \cup {None}, val : Value, version : CInt, ver : Int]
Tree == [Key -> Item]

\* Type invariant of the bitcask structure and its threads.
TypeOK ==
  /\ status \in {"up", "full", "bad file", "overrun"}
  /\ tree \in Tree /\ curr_tree \in Tree
  /\ curr \in Nat
  /\ write_buffer \in Seq(Block) /\ wbuf_start_pos \in Nat /\ wbuf_size \in Nat \ {0}
  /\ flush_buffer \in Seq(Block) /\ fbuf_start_pos \in Nat
  /\ flushing_bucket \in IF flush_lock = None THEN {NoBucket} ELSE Nat
  /\ buckets \in [Bucket -> Nat \cup {-1}]
  /\ DOMAIN data \subseteq Bucket /\ \A b \in DOMAIN data : data[b] \in Seq(Block)
  /\ DOMAIN hint \subseteq Nat /\ \A b \in DOMAIN hint : hint[b] \in Tree
  /\ building \subseteq [bucket : Nat, items : Tree]
  /\ write_lock \in Client \cup {None}
  /\ flush_lock \in Client \cup {Flusher, None}
  /\ flushed \in BOOLEAN /\ entered \subseteq Client \cup {Flusher}
  /\ pc \in [Client -> Label]
  /\ arg \in [Client -> Arg]
  /\ \A t \in Client : pc[t] # "idle" => arg[t].key \in Key
  /\ it \in [Client -> Item] /\ item \in [Client -> Item]
  /\ ret \in [Client -> [ver : Int, val : Value]]

----------------------------------------------------------------------------
(***************************************************************************)
(* Where the record of an item is.                                         *)
(***************************************************************************)
holds(s, o, k) == decodes(s, o) /\ s[o + 1].key = k

in_wbuf(i, k) ==
  /\ i.bucket = curr /\ i.off >= wbuf_start_pos
  /\ holds(write_buffer, i.off - wbuf_start_pos, k)

in_fbuf(i, k) ==
  /\ i.bucket = flushing_bucket /\ i.off >= fbuf_start_pos
  /\ holds(flush_buffer, i.off - fbuf_start_pos, k)

in_file(i, k) == i.bucket \in DOMAIN data /\ holds(data[i.bucket], i.off, k)

at(i, k) == in_wbuf(i, k) \/ in_fbuf(i, k) \/ in_file(i, k)

\* Every key of the index can be read somewhere: bc_flush hands records from
\* the write buffer to the flush buffer to the file without a gap, also when
\* it rotates in between.
Readable ==
  curr < MAX_BUCKET_COUNT =>
    \A k \in Key : tree[k].ver # 0 => at(tree[k], k)

\* A bc_get never fails to find the record of the item it looked up, although
\* it reads curr, flushing_bucket, the buffers and the file at four different
\* times: it never logs "Bug: get %s failed" and never drops a live key.
NoFailedGet ==
  curr < MAX_BUCKET_COUNT => \A t \in Client : pc[t] \notin {"look_again", "remove"}

\* The process never exits because a data file does not end where the write
\* buffer starts ("last pos not match"), or exists unexpectedly.
NoBadFile == status # "bad file"

\* bc_flush never writes a bucket beyond the last: it checks the bucket number
\* when it is called, and the number must still be good when it gets its lock.
NoOverrun == status # "overrun"

\* The copies into the write buffer stay inside it, and the buffer that
\* bc_set frees and reallocates without copying is empty.
WriteBufferSafe ==
  /\ Len(write_buffer) <= wbuf_size
  /\ \A t \in Client : pc[t] = "grow" => write_buffer = <<>>

----------------------------------------------------------------------------
(***************************************************************************)
(* The index against the log of records.                                   *)
(***************************************************************************)
\* The records of k: where they are and what their first block says.
found_in(b, start, s, k) ==
  {[bucket |-> b, off |-> start + o, rec |-> s[o + 1]] : o \in {x \in 0 .. Len(s) - 1 : holds(s, x, k)}}

log_of(k) ==
  found_in(curr, wbuf_start_pos, write_buffer, k)
    \cup found_in(flushing_bucket, fbuf_start_pos, flush_buffer, k)
    \cup UNION {found_in(b, 0, data[b], k) : b \in DOMAIN data}

\* All first blocks of records, also where the rest of the record is missing.
starts_in(b, start, s) ==
  {[bucket |-> b, off |-> start + n - 1, rec |-> s[n]] : n \in {m \in DOMAIN s : s[m].ver # 0}}

starts ==
  starts_in(curr, wbuf_start_pos, write_buffer)
    \cup starts_in(flushing_bucket, fbuf_start_pos, flush_buffer)
    \cup UNION {starts_in(b, 0, data[b]) : b \in DOMAIN data}

before(p, q) == p.bucket < q.bucket \/ (p.bucket = q.bucket /\ p.off < q.off)
same_place(p, q) == p.bucket = q.bucket /\ p.off = q.off

\* bc_set has copied this record into the buffer and not yet indexed it.
being_indexed(k, p) ==
  \E t \in Client : /\ write_lock = t /\ pc[t] \in {"index_curr", "index_tree"}
                    /\ arg[t].key = k /\ same_place(item[t], p)

\* Record p comes before the one item i names, or is that record, and i agrees
\* with it but for a version that was raised in memory.
settled(p, i) ==
  \/ before(p, i)
  \/ /\ same_place(p, i)
     /\ i.hash = hash_of(p.rec.val, p.rec.ver)
     /\ i.ver > 0 <=> p.rec.ver > 0
     /\ Abs(p.rec.ver) <= Abs(i.ver)

\* The index names the last record of every key in the log, and agrees with
\* it but for a version that was raised in memory: the order in which bc_set
\* appends and indexes is the order in which bc_scan replays the files.
IndexIsLatest ==
  curr < MAX_BUCKET_COUNT =>
    \A k \in Key : \A p \in log_of(k) : being_indexed(k, p) \/ settled(p, tree[k])

\* A version never goes back: neither two racing sets, nor a set that read
\* its old version before a flush or a rotation, undo each other.
VersionsIncrease ==
  [][\A k \in Key : tree'[k].ver # tree[k].ver /\ curr < MAX_BUCKET_COUNT
                      => Abs(tree'[k].ver) > Abs(tree[k].ver)]_vars

\* Every entry of a hint file names a record of its key in the data file of
\* the same number, once that file is written.
HintMatchesData ==
  \A b \in DOMAIN hint \cap DOMAIN data : flushing_bucket # b =>
    \A k \in Key : hint[b][k].ver # 0 => holds(data[b], hint[b][k].off, k)

\* A set with version 0 leaves the key one version further than it found it.
ZeroIncrements ==
  [][\A t \in Client : write_lock = t /\ write_lock' # t /\ arg[t].version = 0
                         => tree'[arg[t].key].ver = Abs(it[t].ver) + 1]_vars

\* Every call of bc_get and bc_set returns, unless the process exits.
OpsReturn ==
  \A t \in Client : pc[t] # "idle" ~> pc[t] = "idle" \/ status # "up"

\* What a set has put into the write buffer reaches its data file.
BufferedIsFlushed ==
  \A b \in Bucket, o \in 0 .. MaxBucketSize :
    curr = b /\ o < wbuf_start_pos + Len(write_buffer)
      ~> (b \in DOMAIN data /\ o < Len(data[b])) \/ status # "up"

----------------------------------------------------------------------------
(***************************************************************************)
(* The inductive invariant behind Readable, NoFailedGet and NoBadFile.     *)
(***************************************************************************)
SetLabel == {"lookup", "append", "flush", "grow", "index_curr", "index_tree", "raise", "unlock"}
ReadLabel == {"check_curr", "check_flushing", "buffers", "file", "look_again", "remove"}

\* The sizes a write buffer may have, and the condition under which no sum
\* of a position and a size leaves the 32 bits it is computed in.
buffer_size(n) ==
  n <= InitBufferSize \/ n <= 2 * WRITE_BUFFER_SIZE \/ \E v \in Value : n <= 2 * SizeOf[v]

NoWrap == \A m, n \in Nat : buffer_size(m) /\ buffer_size(n) =>
                              m + n < PosRange /\ MaxBucketSize + n < PosRange

\* Who may be where: bc_set runs under write_lock, the flush buffer belongs
\* to the holder of flush_lock, and the buffer is empty when bc_set grows it.
Locks ==
  /\ \A t \in Client : pc[t] \in SetLabel => write_lock = t
  /\ \A t \in Client : write_lock = t => pc[t] \in SetLabel \cup ReadLabel
  /\ \A t \in Client : flush_lock = t => pc[t] = "flush" /\ write_buffer = <<>>
  /\ \A t \in Client : pc[t] = "grow" => write_buffer = <<>>
  /\ flush_lock = None => flush_buffer = <<>>

\* How large the write buffer is, and how far its bucket is filled.
Buffers ==
  /\ Len(write_buffer) <= wbuf_size
  /\ buffer_size(wbuf_size)
  /\ \/ wbuf_start_pos = 0
     \/ wbuf_start_pos + wbuf_size <= MaxBucketSize
     \/ wbuf_start_pos <= MaxBucketSize /\ \E t \in Client : pc[t] = "grow"

\* Each file ends where the flush buffer or the write buffer goes on.
Files ==
  /\ \A b \in DOMAIN data : b <= curr /\ buckets[b] = Len(data[b])
  /\ flushing_bucket <= curr
  /\ wbuf_start_pos = IF flushing_bucket = curr THEN fbuf_start_pos + Len(flush_buffer)
                                                ELSE file_size(curr)
  /\ flush_lock # None /\ ~flushed => fbuf_start_pos = file_size(flushing_bucket)
  /\ flush_lock # None /\ flushed =>
       /\ flushing_bucket \in DOMAIN data
       /\ Len(data[flushing_bucket]) = fbuf_start_pos + Len(flush_buffer)
       /\ \A i \in 1 .. Len(flush_buffer) :
            data[flushing_bucket][fbuf_start_pos + i] = flush_buffer[i]

\* What bc_get and bc_set rely on at each of their steps.
reads_ok(t) ==
  /\ write_lock = t =>
       /\ arg[t].ver # 0
       /\ it[t].ver # 0 => at(it[t], arg[t].key)
       /\ pc[t] \in ReadLabel \cup {"lookup", "raise"} => it[t].ver # 0
  /\ pc[t] \in {"check_curr", "check_flushing", "buffers", "index_curr", "index_tree"}
       => at(item[t], arg[t].key)
  /\ pc[t] = "check_flushing" => item[t].bucket < curr
  /\ pc[t] = "file" => in_file(item[t], arg[t].key)
  /\ pc[t] \notin {"look_again", "remove"}

Reads == Readable /\ \A t \in Client : reads_ok(t)

\* The inductive invariant of the proofs: who has which lock, that buffers and
\* files join without a gap, and that whatever bc_get and bc_set have looked up
\* is where they will look for it next.
IInv ==
  /\ TypeOK /\ Locks /\ Buffers /\ Files /\ NoBadFile
  /\ curr < MAX_BUCKET_COUNT => Reads
=============================================================================
