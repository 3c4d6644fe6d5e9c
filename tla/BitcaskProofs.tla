---------------------------- MODULE BitcaskProofs ----------------------------
(***************************************************************************)
(* Proofs about one bitcask, for any number of clients, keys, values and   *)
(* buckets.                                                                *)
(***************************************************************************)
EXTENDS Bitcask, SequenceTheorems, TLAPS

----------------------------------------------------------------------------
(***************************************************************************)
(* The pieces the steps are made of.                                       *)
(***************************************************************************)
\* Positions stay natural numbers, and are exact while they fit 32 bits.
LEMMA U32 ==
  ASSUME NEW x \in Nat
  PROVE  u32(x) \in Nat /\ (x < PosRange => u32(x) = x)
BY ConstantsAssumption DEF u32

\* As long as the arithmetic stays within a C int, a version that bc_set accepts
\* or computes is beyond the one the key has.
LEMMA VersionGrows ==
  ASSUME NEW n \in CInt, NEW o \in Int, NoOverflow(o), NewVersion(n, o) # 0
  PROVE  Abs(NewVersion(n, o)) > Abs(o)
<1> USE DEF IntMin, CInt, Wrap, Abs
<1>1. IntMax \in Nat \ {0} /\ n \in Int /\ n >= -IntMax - 1 /\ n <= IntMax
  BY IntMaxAssumption
<1>2. o >= -IntMax + 1 /\ o <= IntMax - 1
  BY <1>1 DEF NoOverflow
<1>3. ~Refused(n, o)
  <2>1. Refused(n, o) => /\ ~(n = 0 /\ o > 0) /\ ~(n = 0 /\ o <= 0) /\ ~(n = -1 /\ o > 0)
    BY <1>1 DEF Refused
  <2> QED
    BY Zenon, <2>1 DEF NewVersion
<1>4. CASE n = 0 /\ o > 0
  <2>1. NewVersion(n, o) = o + 1
    BY <1>1, <1>2, <1>3, <1>4 DEF NewVersion
  <2> QED
    BY <1>1, <1>2, <1>4, <2>1
<1>5. CASE n = 0 /\ o <= 0
  <2>1. NewVersion(n, o) = -o + 1
    BY <1>1, <1>2, <1>3, <1>5 DEF NewVersion
  <2> QED
    BY <1>1, <1>2, <1>5, <2>1
<1>6. CASE n = -1
  <2>0. o > 0
    BY <1>3, <1>6 DEF Refused
  <2>1. NewVersion(n, o) = -o - 1
    BY <1>1, <1>2, <1>3, <1>6, <2>0 DEF NewVersion
  <2> QED
    BY <1>1, <1>2, <2>0, <2>1
<1>7. CASE n \notin {0, -1}
  <2>1. NewVersion(n, o) = n
    BY Zenon, <1>3, <1>7 DEF NewVersion
  <2>2. ~(Abs(n) <= Abs(o))
    BY Zenon, <1>3, <1>7 DEF Refused
  <2> QED
    BY <1>1, <1>2, <2>1, <2>2
<1> QED
  BY <1>4, <1>5, <1>6, <1>7

LEMMA BlockConcat ==
  ASSUME NEW s \in Seq(Block), NEW x \in Seq(Block)
  PROVE  /\ s \o x \in Seq(Block) /\ Len(s \o x) = Len(s) + Len(x)
         /\ Len(s) \in Nat /\ Len(x) \in Nat
         /\ \A i \in 1 .. Len(s) + Len(x) :
               (s \o x)[i] = IF i <= Len(s) THEN s[i] ELSE x[i - Len(s)]
BY Zenon, ConcatProperties, LenProperties

LEMMA NewItemType ==
  ASSUME NEW x \in Nat, NEW o \in Nat, NEW v \in Value, NEW ver \in Int
  PROVE  new_item(x, o, v, ver) \in Item
<1>1. x % MAX_BUCKET_COUNT \in Nat
  BY ConstantsAssumption
<1>2. (IF x < MAX_BUCKET_COUNT THEN o ELSE o + 1 - (o % 2)) \in Nat
  BY ConstantsAssumption
<1>3. hash_of(v, ver) \in Nat
  BY Zenon, ConstantsAssumption DEF hash_of
<1> QED
  BY Zenon, <1>1, <1>2, <1>3 DEF new_item, Item

LEMMA EncodeType ==
  ASSUME NEW k \in Key, NEW v \in Value, NEW ver \in Int
  PROVE  /\ encode_record(k, v, ver) \in Seq(Block)
         /\ Len(encode_record(k, v, ver)) = SizeOf[v]
         /\ encode_record(k, v, ver)[1] = [key |-> k, ver |-> ver, val |-> v]
<1> DEFINE r == encode_record(k, v, ver)
<1>1. SizeOf[v] \in Nat \ {0}
  BY Zenon, ConstantsAssumption
<1>2. r \in [1 .. SizeOf[v] -> Block]
  BY <1>1 DEF encode_record, Block
<1>3. r \in Seq(Block)
  BY Zenon, <1>1, <1>2, SeqDef
<1>4. Len(r) = SizeOf[v]
  BY <1>1, <1>2, <1>3, LenProperties
<1>5. r[1] = [key |-> k, ver |-> ver, val |-> v]
  BY <1>1 DEF encode_record
<1> QED
  BY Zenon, <1>3, <1>4, <1>5

LEMMA NewVersionType ==
  ASSUME NEW n \in CInt, NEW oldv \in Int
  PROVE  NewVersion(n, oldv) \in Int
BY IntMaxAssumption DEF NewVersion, Refused, Wrap, Abs, CInt, IntMin

----------------------------------------------------------------------------
(***************************************************************************)
(* Type correctness.                                                       *)
(***************************************************************************)
LEMMA TypeInit == Init => TypeOK
<1> SUFFICES ASSUME Init PROVE TypeOK
  OBVIOUS
<1>1. NoItem \in Item /\ EmptyTree \in Tree
  BY DEF NoItem, Item, EmptyTree, Tree
<1>2. NoArg \in Arg
  BY ConstantsAssumption, IntMaxAssumption DEF NoArg, Arg, CInt, IntMin
<1>3. Nothing \in [ver : Int, val : Value]
  BY ConstantsAssumption DEF Nothing
<1>4. DOMAIN NoFile = {}
  BY Zenon DEF NoFile
<1>5. <<>> \in Seq(Block)
  BY Zenon, EmptySeq
<1>6. pc \in [Client -> Label] /\ \A t \in Client : pc[t] = "idle"
  BY Zenon DEF Init, Label
<1> QED
  BY Zenon, <1>1, <1>2, <1>3, <1>4, <1>5, <1>6, ConstantsAssumption DEF Init, TypeOK, NoBucket

\* The answer of bc_get, to a client or to bc_set.
LEMMA GetReturnsType ==
  ASSUME TypeOK, NEW t \in Client, NEW found \in BOOLEAN, NEW r,
         found => r.val \in Value, get_returns(t, found, r)
  PROVE  /\ pc' \in [Client -> Label]
         /\ ret' \in [Client -> [ver : Int, val : Value]]
         /\ \A u \in Client : u # t => pc'[u] = pc[u]
<1>1. Nothing \in [ver : Int, val : Value]
  BY ConstantsAssumption DEF Nothing
<1>2. found => [ver |-> item[t].ver, val |-> r.val] \in [ver : Int, val : Value]
  BY Zenon DEF TypeOK, Item
<1>3. CASE write_lock = t
  <2>1. PICK l \in Label : pc' = [pc EXCEPT ![t] = l]
    BY Zenon, <1>3 DEF get_returns, goto, Label
  <2> QED
    BY Zenon, <1>3, <2>1 DEF TypeOK, get_returns
<1>4. CASE write_lock # t
  <2>1. PICK a \in [ver : Int, val : Value] : ret' = [ret EXCEPT ![t] = a]
    BY Zenon, <1>1, <1>2, <1>4 DEF get_returns
  <2>2. pc' = [pc EXCEPT ![t] = "return"] /\ "return" \in Label
    BY Zenon, <1>4 DEF get_returns, goto, Label
  <2> QED
    BY Zenon, <2>1, <2>2 DEF TypeOK
<1> QED
  BY Zenon, <1>3, <1>4

LEMMA RotateType ==
  ASSUME TypeOK, bc_rotate
  PROVE  /\ curr' \in Nat /\ curr_tree' \in Tree /\ wbuf_start_pos' \in Nat
         /\ buckets' \in [Bucket -> Nat \cup {-1}]
         /\ DOMAIN hint' \subseteq Nat /\ \A x \in DOMAIN hint' : hint'[x] \in Tree
         /\ building' \subseteq [bucket : Nat, items : Tree]
<1>1. \A x \in DOMAIN data : Len(data[x]) \in Nat
  BY Zenon, LenProperties DEF TypeOK
<1>2. buckets' \in [Bucket -> Nat \cup {-1}]
  <2>1. buckets' = [x \in Bucket |-> IF x = curr /\ x \in DOMAIN data
                                     THEN Len(data[x]) ELSE buckets[x]]
    BY Zenon DEF bc_rotate
  <2>2. ASSUME NEW x \in Bucket
        PROVE  (IF x = curr /\ x \in DOMAIN data THEN Len(data[x]) ELSE buckets[x]) \in Nat \cup {-1}
    BY Zenon, <1>1 DEF TypeOK
  <2> QED
    BY Zenon, <2>1, <2>2
<1>3. EmptyTree \in Tree
  BY DEF EmptyTree, Tree, NoItem, Item
<1>4. building' \subseteq [bucket : Nat, items : Tree]
  <2>1. [bucket |-> curr, items |-> curr_tree] \in [bucket : Nat, items : Tree]
    BY Zenon DEF TypeOK
  <2>2. building \subseteq [bucket : Nat, items : Tree]
    BY Zenon DEF TypeOK
  <2>3. building' = building \cup {[bucket |-> curr, items |-> curr_tree]}
    BY Zenon DEF bc_rotate
  <2> QED
    BY <2>1, <2>2, <2>3, Zenon
<1>5. DOMAIN hint' \subseteq Nat /\ \A x \in DOMAIN hint' : hint'[x] \in Tree
  BY Zenon DEF TypeOK, bc_rotate
<1>6. curr' \in Nat /\ curr_tree' \in Tree /\ wbuf_start_pos' \in Nat
  <2>1. curr' = curr + 1 /\ curr_tree' = EmptyTree /\ wbuf_start_pos' = 0
    BY Zenon DEF bc_rotate
  <2>2. curr \in Nat
    BY Zenon DEF TypeOK
  <2> QED
    BY <1>3, <2>1, <2>2
<1> QED
  BY Zenon, <1>2, <1>4, <1>5, <1>6

LEMMA AppendType ==
  ASSUME TypeOK, NEW t \in Client, pc[t] # "idle", NEW x \in Nat, NEW start \in Nat,
         append_record(t, x, start)
  PROVE  /\ write_buffer' \in Seq(Block)
         /\ item' \in [Client -> Item]
         /\ pc' = [pc EXCEPT ![t] = "index_curr"]
<1>1. arg[t].key \in Key /\ arg[t].val \in Value /\ arg[t].ver \in Int
  BY Zenon DEF TypeOK, Arg
<1>2. Len(write_buffer) \in Nat
  BY Zenon, LenProperties DEF TypeOK
<1>3. write_buffer' \in Seq(Block)
  <2>1. PICK y \in Seq(Block) : write_buffer' = write_buffer \o y
    BY Zenon, <1>1, EncodeType DEF append_record
  <2>2. write_buffer \in Seq(Block)
    BY Zenon DEF TypeOK
  <2> QED
    BY Zenon, <2>1, <2>2, BlockConcat
<1>4. u32(start + Len(write_buffer)) \in Nat
  <2>1. PICK n \in Nat : n = start + Len(write_buffer)
    BY <1>2
  <2>2. u32(n) \in Nat
    BY Zenon, U32
  <2> QED
    BY Zenon, <2>1, <2>2
<1>5. new_item(x, u32(start + Len(write_buffer)), arg[t].val, arg[t].ver) \in Item
  BY Zenon, <1>1, <1>4, NewItemType
<1> QED
  BY Zenon, <1>3, <1>5 DEF TypeOK, append_record, goto

\* The lookup that starts a bc_get.
LEMMA LookupType ==
  ASSUME TypeOK, NEW t \in Client, NEW k \in Key, NEW deleted \in BOOLEAN,
         ht_lookup(t, k, deleted)
  PROVE  /\ pc' \in [Client -> Label]
         /\ ret' \in [Client -> [ver : Int, val : Value]]
         /\ item' \in [Client -> Item]
         /\ \A u \in Client : u # t => pc'[u] = pc[u]
<1>1. CASE get_returns(t, FALSE, Nothing) /\ UNCHANGED item
  BY Zenon, <1>1, GetReturnsType DEF TypeOK
<1>2. CASE item' = [item EXCEPT ![t] = tree[k]] /\ goto(t, "check_curr") /\ UNCHANGED ret
  <2>1. tree[k] \in Item /\ "check_curr" \in Label
    BY Zenon DEF TypeOK, Tree, Label
  <2> QED
    BY Zenon, <1>2, <2>1 DEF TypeOK, goto
<1> QED
  BY Zenon, <1>1, <1>2 DEF ht_lookup

\* finish clears what a call leaves in its thread.
LEMMA FinishType ==
  ASSUME TypeOK, NEW t \in Client, finish(t)
  PROVE  /\ pc' \in [Client -> Label] /\ arg' \in [Client -> Arg]
         /\ \A u \in Client : pc'[u] # "idle" => arg'[u].key \in Key
         /\ it' \in [Client -> Item] /\ item' \in [Client -> Item]
         /\ ret' \in [Client -> [ver : Int, val : Value]]
<1>1. NoItem \in Item
  BY DEF NoItem, Item
<1>2. NoArg \in Arg
  BY ConstantsAssumption, IntMaxAssumption DEF NoArg, Arg, CInt, IntMin
<1>3. Nothing \in [ver : Int, val : Value]
  BY ConstantsAssumption DEF Nothing
<1>4. "idle" \in Label
  BY Zenon DEF Label
<1>5. pc' \in [Client -> Label] /\ arg' \in [Client -> Arg]
  BY Zenon, <1>2, <1>4 DEF finish, goto, TypeOK
<1>6. \A u \in Client : pc'[u] # "idle" => arg'[u].key \in Key
  BY Zenon DEF finish, goto, TypeOK
<1> QED
  BY Zenon, <1>1, <1>3, <1>5, <1>6 DEF finish, TypeOK

\* The numbers of the state, apart from the rest of TypeOK.
LEMMA NumberTypes ==
  ASSUME TypeOK
  PROVE  /\ curr \in Nat /\ wbuf_start_pos \in Nat /\ fbuf_start_pos \in Nat
         /\ wbuf_size \in Nat \ {0}
         /\ Len(write_buffer) \in Nat /\ Len(flush_buffer) \in Nat
         /\ \A x \in DOMAIN data : Len(data[x]) \in Nat
         /\ \A x : file(x) \in Seq(Block) /\ file_size(x) \in Nat
         /\ flush_lock # None => flushing_bucket \in Nat
         /\ flushing_bucket \in Int /\ \A x \in DOMAIN data : x \in Bucket /\ x \in Nat
<1>1. curr \in Nat /\ wbuf_start_pos \in Nat /\ fbuf_start_pos \in Nat /\ wbuf_size \in Nat \ {0}
  BY Zenon DEF TypeOK
<1>2. /\ write_buffer \in Seq(Block) /\ flush_buffer \in Seq(Block)
      /\ \A x \in DOMAIN data : data[x] \in Seq(Block)
  BY Zenon DEF TypeOK
<1>3. flush_lock # None => flushing_bucket \in Nat
  BY Zenon DEF TypeOK
<1>4. /\ Len(write_buffer) \in Nat /\ Len(flush_buffer) \in Nat
      /\ \A x \in DOMAIN data : Len(data[x]) \in Nat
  BY Zenon, <1>2, LenProperties
<1>5. \A x : file(x) \in Seq(Block) /\ file_size(x) \in Nat
  <2>1. \A x : file(x) \in Seq(Block)
    BY Zenon, <1>2, EmptySeq DEF file
  <2> QED
    BY Zenon, <2>1, LenProperties DEF file_size, file
<1>6. \A x \in Bucket : x \in Nat
  BY ConstantsAssumption DEF Bucket
<1>7. flushing_bucket \in Nat \/ flushing_bucket = -1
  BY Zenon DEF TypeOK, NoBucket
<1>8. DOMAIN data \subseteq Bucket
  BY Zenon DEF TypeOK
<1> QED
  BY <1>1, <1>3, <1>4, <1>5, <1>6, <1>7, <1>8

LEMMA TypeFlush ==
  ASSUME TypeOK, Locks, NEW f \in Client \cup {Flusher}, FlushStep(f)
  PROVE  TypeOK'
<1> USE DEF index, wbuf, fbuf, disk, threads, locals
<1>1. CASE FlushEnter(f)
  BY Zenon, <1>1 DEF FlushEnter, TypeOK
<1>2. CASE FlushNothing(f)
  <2>1. f \in Client /\ pc[f] = "flush" /\ "grow" \in Label
    BY Zenon, <1>2 DEF FlushNothing, in_flush, Label
  <2>2. pc' = [pc EXCEPT ![f] = "grow"]
    BY Zenon, <1>2 DEF FlushNothing, goto
  <2> QED
    BY Zenon, <1>2, <2>1, <2>2 DEF FlushNothing, TypeOK
<1>3. CASE FlushBegin(f)
  <2>2. resized \in Nat \ {0}
    <3>1. wbuf_size \in Nat \ {0}
      BY Zenon, NumberTypes
    <3>2. WRITE_BUFFER_SIZE \in Nat \ {0}
      BY Zenon, ConstantsAssumption
    <3> QED
      BY <3>1, <3>2 DEF resized
  <2>3. u32(wbuf_start_pos + Len(write_buffer)) \in Nat
    <3>1. wbuf_start_pos + Len(write_buffer) \in Nat
      BY NumberTypes
    <3> QED
      BY Zenon, <3>1, U32
  <2>4. /\ curr' \in Nat /\ curr_tree' \in Tree /\ wbuf_start_pos' \in Nat
        /\ buckets' \in [Bucket -> Nat \cup {-1}]
        /\ DOMAIN hint' \subseteq Nat /\ \A x \in DOMAIN hint' : hint'[x] \in Tree
        /\ building' \subseteq [bucket : Nat, items : Tree]
    <3>1. CASE bc_rotate
      BY Zenon, <3>1, RotateType
    <3>2. CASE /\ wbuf_start_pos' = u32(wbuf_start_pos + Len(write_buffer))
               /\ UNCHANGED <<curr, curr_tree, buckets, hint, building>>
      BY Zenon, <3>2, <2>3 DEF TypeOK
    <3> QED
      BY Zenon, <1>3, <3>1, <3>2 DEF FlushBegin
  <2>6. write_buffer' \in Seq(Block) /\ flush_buffer' \in Seq(Block)
    BY Zenon, <1>3, EmptySeq DEF FlushBegin, TypeOK
  <2>7. flushing_bucket' \in (IF flush_lock' = None THEN {NoBucket} ELSE Nat)
    BY Zenon, <1>3, NumberTypes, ConstantsAssumption DEF FlushBegin
  <2>8. wbuf_size' \in Nat \ {0} /\ fbuf_start_pos' \in Nat
    BY Zenon, <1>3, <2>2, NumberTypes DEF FlushBegin
  <2>9. /\ UNCHANGED <<status, tree, data, write_lock, pc, arg, it, item, ret>>
        /\ flush_lock' \in Client \cup {Flusher, None} /\ flushed' \in BOOLEAN
        /\ entered' \subseteq Client \cup {Flusher}
    BY Zenon, <1>3 DEF FlushBegin, TypeOK
  <2> QED
    BY Zenon, <2>4, <2>6, <2>7, <2>8, <2>9 DEF TypeOK
<1>4. CASE FlushWrite(f)
  <2>1. CASE flushing_bucket \notin Bucket \/ bad_file(flushing_bucket)
    BY Zenon, <1>4, <2>1 DEF FlushWrite, TypeOK
  <2>2. CASE flushing_bucket \in Bucket /\ ~bad_file(flushing_bucket)
    <3> DEFINE b == flushing_bucket
    <3>1. file_size(b) + Len(flush_buffer) \in Nat
      BY NumberTypes
    <3>2. file(b) \o flush_buffer \in Seq(Block)
      <4>1. file(b) \in Seq(Block) /\ flush_buffer \in Seq(Block)
        BY Zenon, NumberTypes DEF TypeOK
      <4> QED
        BY Zenon, <4>1, ConcatProperties
    <3>3. b \in Bucket
      BY Zenon, <2>2
    <3>4. DOMAIN data' = DOMAIN data \cup {b}
      BY Zenon, <1>4, <2>2 DEF FlushWrite
    <3>5. \A x \in DOMAIN data' : data'[x] \in Seq(Block)
      <4>1. \A x \in DOMAIN data : data[x] \in Seq(Block)
        BY Zenon DEF TypeOK
      <4>2. flush_buffer \in Seq(Block)
        BY Zenon DEF TypeOK
      <4> QED
        BY ZenonT(30), <1>4, <2>2, <3>2, <4>1, <4>2 DEF FlushWrite
    <3>6. buckets' \in [Bucket -> Nat \cup {-1}]
      <4>1. buckets' = [buckets EXCEPT ![b] = file_size(b) + Len(flush_buffer)]
        BY Zenon, <1>4, <2>2 DEF FlushWrite
      <4> QED
        BY Zenon, <3>1, <4>1 DEF TypeOK
    <3> QED
      BY Zenon, <1>4, <2>2, <3>3, <3>4, <3>5, <3>6 DEF FlushWrite, TypeOK
  <2> QED
    BY Zenon, <2>1, <2>2
<1>5. CASE FlushEnd(f)
  <2>1. pc' \in [Client -> Label] /\ \A u \in Client : pc'[u] # "idle" => arg'[u].key \in Key
    <3>1. pc' = [t \in Client |-> IF t = f THEN "grow" ELSE pc[t]] /\ UNCHANGED arg
      BY Zenon, <1>5 DEF FlushEnd
    <3>2. flush_lock = f
      BY Zenon, <1>5 DEF FlushEnd
    <3>3. "grow" \in Label
      BY Zenon DEF Label
    <3>4. f \in Client => pc[f] # "idle"
      BY Zenon, <3>2 DEF Locks
    <3> QED
      BY Zenon, <3>1, <3>3, <3>4 DEF TypeOK
  <2>2. flush_buffer' \in Seq(Block)
    BY Zenon, <1>5, EmptySeq DEF FlushEnd
  <2> QED
    BY Zenon, <1>5, <2>1, <2>2 DEF FlushEnd, TypeOK
<1> QED
  BY Zenon, <1>1, <1>2, <1>3, <1>4, <1>5 DEF FlushStep

\* What is decoded is a value.
LEMMA DecodedType ==
  ASSUME NEW s \in Seq(Block), NEW o, decodes(s, o)
  PROVE  s[o + 1] \in Block /\ s[o + 1].val \in Value
<1>1. Len(s) \in Nat
  BY Zenon, LenProperties
<1>2. o + 1 \in 1 .. Len(s)
  BY <1>1 DEF decodes
<1>3. s[o + 1] \in Block
  BY Zenon, <1>2, ElementOfSeq
<1> QED
  BY Zenon, <1>3 DEF Block

LEMMA TypeGet ==
  ASSUME TypeOK, NEW t \in Client, GetStep(t)
  PROVE  TypeOK'
<1> USE DEF index, wbuf, fbuf, disk, threads, locals
<1>0. ASSUME pc[t] # "idle",
             pc' \in [Client -> Label], \A u \in Client : u # t => pc'[u] = pc[u],
             ret' \in [Client -> [ver : Int, val : Value]], item' \in [Client -> Item],
             tree' \in Tree,
             UNCHANGED <<status, curr_tree, curr, wbuf, fbuf, disk, write_lock, arg, it>>
      PROVE  TypeOK'
  <2>1. \A u \in Client : pc'[u] # "idle" => arg'[u].key \in Key
    BY Zenon, <1>0 DEF TypeOK
  <2> QED
    BY Zenon, <1>0, <2>1 DEF TypeOK
<1>1. ASSUME NEW l \in Label, pc[t] # "idle", goto(t, l),
             UNCHANGED <<status, index, curr, wbuf, fbuf, disk, write_lock, locals>>
      PROVE  TypeOK'
  <2>1. pc' \in [Client -> Label] /\ \A u \in Client : u # t => pc'[u] = pc[u]
    BY Zenon, <1>1 DEF goto, TypeOK
  <2> QED
    BY Zenon, <1>0, <1>1, <2>1 DEF TypeOK
<1>2. CASE CheckCurr(t)
  <2>0. goto(t, "remove") \/ goto(t, "buffers") \/ goto(t, "check_flushing")
    BY Zenon, <1>2 DEF CheckCurr, goto
  <2>1. PICK l \in Label : goto(t, l)
    BY <2>0, Zenon DEF Label
  <2> QED
    BY Zenon, <1>1, <1>2, <2>1 DEF CheckCurr
<1>3. CASE CheckFlushing(t)
  <2>1. PICK l \in Label : goto(t, l)
    BY Zenon, <1>3 DEF CheckFlushing, Label, goto
  <2> QED
    BY Zenon, <1>1, <1>3, <2>1 DEF CheckFlushing
<1>4. CASE ReadBuffers(t)
  <2> DEFINE i == item[t]
             w == i.bucket = curr /\ i.off >= wbuf_start_pos
             f == ~w /\ i.bucket = flushing_bucket /\ i.off >= fbuf_start_pos
             s == IF w THEN write_buffer ELSE flush_buffer
             p == i.off - (IF w THEN wbuf_start_pos ELSE fbuf_start_pos)
  <2>1. s \in Seq(Block)
    BY Zenon DEF TypeOK
  <2>2. CASE (w \/ f) /\ decodes(s, p)
    <3>1. s[p + 1].val \in Value
      BY Zenon, <2>1, <2>2, DecodedType
    <3>2. get_returns(t, TRUE, s[p + 1])
      BY Zenon, <1>4, <2>2 DEF ReadBuffers
    <3> QED
      BY Zenon, <1>0, <1>4, <3>1, <3>2, GetReturnsType DEF ReadBuffers, TypeOK
  <2>3. CASE ~((w \/ f) /\ decodes(s, p))
    BY Zenon, <1>1, <1>4, <2>3 DEF ReadBuffers, Label
  <2> QED
    BY Zenon, <2>2, <2>3
<1>5. CASE ReadFile(t)
  <2> DEFINE s == data[item[t].bucket]
             o == item[t].off
  <2>1. CASE item[t].bucket \in DOMAIN data /\ decodes(s, o) /\ s[o + 1].key = arg[t].key
    <3>1. s[o + 1].val \in Value
      BY Zenon, <2>1, DecodedType DEF TypeOK
    <3>2. get_returns(t, TRUE, s[o + 1])
      BY Zenon, <1>5, <2>1 DEF ReadFile
    <3> QED
      BY Zenon, <1>0, <1>5, <3>1, <3>2, GetReturnsType DEF ReadFile, TypeOK
  <2>2. CASE ~(item[t].bucket \in DOMAIN data /\ decodes(s, o) /\ s[o + 1].key = arg[t].key)
    BY Zenon, <1>1, <1>5, <2>2 DEF ReadFile, Label
  <2> QED
    BY Zenon, <2>1, <2>2
<1>6. CASE LookAgain(t)
  <2>1. PICK l \in Label : goto(t, l)
    BY Zenon, <1>6 DEF LookAgain, Label, goto
  <2>2. item' \in [Client -> Item]
    <3>1. tree[arg[t].key] \in Item
      BY Zenon, <1>6 DEF LookAgain, TypeOK, Tree
    <3>2. [tree[arg[t].key] EXCEPT !.bucket = item[t].bucket] \in Item
      BY Zenon, <3>1 DEF TypeOK, Item
    <3> QED
      BY Zenon, <1>6, <3>2 DEF LookAgain, TypeOK
  <2>3. pc' \in [Client -> Label] /\ \A u \in Client : u # t => pc'[u] = pc[u]
    BY Zenon, <2>1 DEF goto, TypeOK
  <2> QED
    BY Zenon, <1>0, <1>6, <2>2, <2>3 DEF LookAgain, TypeOK
<1>7. CASE RemoveKey(t)
  <2>1. tree' \in Tree
    <3>1. NoItem \in Item
      BY DEF NoItem, Item
    <3> QED
      BY Zenon, <1>7, <3>1 DEF RemoveKey, TypeOK, Tree
  <2> QED
    BY Zenon, <1>0, <1>7, <2>1, GetReturnsType DEF RemoveKey, TypeOK
<1>8. CASE Return(t)
  <2>1. UNCHANGED <<status, index, curr, wbuf, fbuf, disk, write_lock>> /\ finish(t)
    BY Zenon, <1>8 DEF Return
  <2> QED
    BY Zenon, <2>1, FinishType DEF TypeOK
<1> QED
  BY Zenon, <1>2, <1>3, <1>4, <1>5, <1>6, <1>7, <1>8 DEF GetStep

LEMMA TypeSet ==
  ASSUME TypeOK, NEW t \in Client, SetStep(t)
  PROVE  TypeOK'
<1> USE DEF index, wbuf, fbuf, disk, threads, locals
<1>0. ASSUME NEW l \in Label, pc[t] # "idle", goto(t, l), UNCHANGED <<arg>>
      PROVE  /\ pc' \in [Client -> Label]
             /\ \A u \in Client : pc'[u] # "idle" => arg'[u].key \in Key
  BY Zenon, <1>0 DEF goto, TypeOK
<1>1. CASE SetLookup(t)
  <2>1. arg[t].key \in Key
    BY Zenon, <1>1 DEF SetLookup, TypeOK
  <2>2. /\ pc' \in [Client -> Label] /\ ret' \in [Client -> [ver : Int, val : Value]]
        /\ item' \in [Client -> Item] /\ \A u \in Client : u # t => pc'[u] = pc[u]
    BY Zenon, <1>1, <2>1, LookupType DEF SetLookup
  <2>3. \A u \in Client : pc'[u] # "idle" => arg'[u].key \in Key
    BY Zenon, <1>1, <2>1, <2>2 DEF SetLookup, TypeOK
  <2> QED
    BY Zenon, <1>1, <2>2, <2>3 DEF SetLookup, TypeOK
<1>2. CASE SetAppend(t)
  <2>1. CASE goto(t, "flush") /\ UNCHANGED <<write_buffer, item>>
    BY Zenon, <1>0, <1>2, <2>1 DEF SetAppend, TypeOK, Label
  <2>2. CASE append_record(t, curr, wbuf_start_pos)
    <3>1. write_buffer' \in Seq(Block) /\ item' \in [Client -> Item] /\ goto(t, "index_curr")
      BY Zenon, <1>2, <2>2, AppendType, NumberTypes DEF SetAppend, goto
    <3> QED
      BY Zenon, <1>0, <1>2, <3>1 DEF SetAppend, TypeOK, Label
  <2> QED
    BY Zenon, <1>2, <2>1, <2>2 DEF SetAppend
<1>3. CASE SetDouble(t)
  <2>1. wbuf_size' \in Nat \ {0} /\ write_buffer' \in Seq(Block)
    BY <1>3, NumberTypes, EmptySeq DEF SetDouble
  <2> QED
    BY Zenon, <1>3, <2>1 DEF SetDouble, TypeOK
<1>4. CASE SetGrown(t)
  <2>1. CASE bc_rotate /\ append_record(t, curr + 1, 0)
    <3>1. write_buffer' \in Seq(Block) /\ item' \in [Client -> Item] /\ goto(t, "index_curr")
      BY <1>4, <2>1, AppendType, NumberTypes DEF SetGrown, goto
    <3> QED
      BY Zenon, <1>0, <1>4, <2>1, <3>1, RotateType DEF SetGrown, TypeOK, Label
  <2>2. CASE /\ append_record(t, curr, wbuf_start_pos)
             /\ UNCHANGED <<curr, curr_tree, wbuf_start_pos, buckets, hint, building>>
    <3>1. write_buffer' \in Seq(Block) /\ item' \in [Client -> Item] /\ goto(t, "index_curr")
      BY Zenon, <1>4, <2>2, AppendType, NumberTypes DEF SetGrown, goto
    <3> QED
      BY Zenon, <1>0, <1>4, <2>2, <3>1 DEF SetGrown, TypeOK, Label
  <2> QED
    BY Zenon, <1>4, <2>1, <2>2 DEF SetGrown
<1>5. CASE SetIndexCurr(t)
  <2>1. curr_tree' \in Tree
    BY Zenon, <1>5 DEF SetIndexCurr, TypeOK, Tree
  <2> QED
    BY Zenon, <1>0, <1>5, <2>1 DEF SetIndexCurr, TypeOK, Label
<1>6. CASE SetIndexTree(t)
  <2>1. tree' \in Tree
    BY Zenon, <1>6 DEF SetIndexTree, TypeOK, Tree
  <2> QED
    BY Zenon, <1>6, <2>1, FinishType DEF SetIndexTree, TypeOK
<1>7. CASE SetRaise(t)
  <2>1. [it[t] EXCEPT !.ver = arg[t].ver] \in Item
    <3>1. it[t] \in Item
      BY Zenon DEF TypeOK
    <3>2. arg[t].ver \in Int
      BY Zenon DEF TypeOK, Arg
    <3> QED
      BY Zenon, <3>1, <3>2 DEF Item
  <2>2. item' \in [Client -> Item]
    BY Zenon, <1>7, <2>1 DEF SetRaise, TypeOK
  <2>3. goto(t, "index_curr") \/ goto(t, "index_tree")
    BY Zenon, <1>7 DEF SetRaise
  <2> QED
    BY Zenon, <1>0, <1>7, <2>2, <2>3 DEF SetRaise, TypeOK, Label
<1>8. CASE SetUnlock(t)
  BY Zenon, <1>8, FinishType DEF SetUnlock, TypeOK
<1> QED
  BY Zenon, <1>1, <1>2, <1>3, <1>4, <1>5, <1>6, <1>7, <1>8 DEF SetStep

LEMMA TypeBegin ==
  ASSUME TypeOK, NEW t \in Client, NEW k \in Key,
         GetBegin(t, k) \/ \E v \in Value, n \in VersionArg : SetBegin(t, k, v, n)
  PROVE  TypeOK'
<1> USE DEF index, wbuf, fbuf, disk, threads, locals
<1>1. CASE GetBegin(t, k)
  <2>1. arg' = [arg EXCEPT ![t].key = k]
    BY Zenon, <1>1 DEF GetBegin
  <2>2. arg' \in [Client -> Arg] /\ arg'[t].key = k /\ \A u \in Client : u # t => arg'[u] = arg[u]
    <3>0. arg[t] \in Arg
      BY Zenon DEF TypeOK
    <3>1. [arg[t] EXCEPT !.key = k] \in Arg
      BY Zenon, <3>0 DEF Arg
    <3> QED
      BY Zenon, <2>1, <3>1 DEF TypeOK, Arg
  <2>3. /\ pc' \in [Client -> Label] /\ ret' \in [Client -> [ver : Int, val : Value]]
        /\ item' \in [Client -> Item] /\ \A u \in Client : u # t => pc'[u] = pc[u]
    BY Zenon, <1>1, LookupType DEF GetBegin
  <2>4. \A u \in Client : pc'[u] # "idle" => arg'[u].key \in Key
    BY Zenon, <2>2, <2>3 DEF TypeOK
  <2> QED
    BY Zenon, <1>1, <2>2, <2>3, <2>4 DEF GetBegin, TypeOK
<1>2. ASSUME NEW v \in Value, NEW n \in VersionArg, SetBegin(t, k, v, n)
      PROVE  TypeOK'
  <2> DEFINE ver == NewVersion(n, tree[k].ver)
             r == [key |-> k, val |-> v, version |-> n, ver |-> ver]
  <2>1. tree[k] \in Item
    BY Zenon DEF TypeOK, Tree
  <2>2. ver \in Int /\ n \in CInt
    BY Zenon, <2>1, NewVersionType, ConstantsAssumption DEF Item
  <2>3. r \in Arg /\ r.key = k
    BY Zenon, <2>2 DEF Arg
  <2>4. arg' = [arg EXCEPT ![t] = r]
    BY Zenon, <1>2 DEF SetBegin
  <2>5. it' \in [Client -> Item]
    BY Zenon, <1>2, <2>1 DEF SetBegin, TypeOK
  <2>6. goto(t, "lookup") \/ goto(t, "append")
    BY Zenon, <1>2 DEF SetBegin
  <2>7. pc' \in [Client -> Label] /\ \A u \in Client : u # t => pc'[u] = pc[u]
    BY Zenon, <2>6 DEF goto, TypeOK, Label
  <2>8. arg' \in [Client -> Arg] /\ \A u \in Client : pc'[u] # "idle" => arg'[u].key \in Key
    BY Zenon, <2>3, <2>4, <2>7 DEF TypeOK
  <2> QED
    BY Zenon, <1>2, <2>5, <2>7, <2>8 DEF SetBegin, TypeOK
<1> QED
  BY Zenon, <1>1, <1>2

LEMMA TypeHint ==
  ASSUME TypeOK, NEW h \in building, build_hint(h)
  PROVE  TypeOK'
<1> USE DEF index, wbuf, fbuf, disk, threads, locals
<1>1. h.bucket \in Nat /\ h.items \in Tree
  BY Zenon DEF TypeOK
<1>2. DOMAIN hint' \subseteq Nat /\ \A x \in DOMAIN hint' : hint'[x] \in Tree
  BY Zenon, <1>1 DEF build_hint, TypeOK
<1> QED
  BY Zenon, <1>2 DEF build_hint, TypeOK

LEMMA TypeNext ==
  ASSUME TypeOK, Locks, [Next]_vars
  PROVE  TypeOK'
<1>1. CASE UNCHANGED vars
  BY Zenon, <1>1 DEF vars, index, wbuf, fbuf, disk, threads, TypeOK
<1>2. CASE Next
  BY Zenon, <1>2, TypeBegin, TypeGet, TypeSet, TypeFlush, TypeHint DEF Next
<1> QED
  BY Zenon, <1>1, <1>2

----------------------------------------------------------------------------
(***************************************************************************)
(* The locks, and the theorem of type correctness.                         *)
(***************************************************************************)
LEMMA LocksInit == Init => Locks
BY ConstantsAssumption DEF Init, Locks, SetLabel, ReadLabel

\* A thread moves on without touching locks or buffers.
LEMMA LocksMove ==
  ASSUME TypeOK, Locks, NEW t \in Client, NEW l, goto(t, l), flush_lock # t, l # "grow",
         l \in SetLabel => write_lock = t, write_lock = t => l \in SetLabel \cup ReadLabel,
         UNCHANGED <<write_lock, flush_lock, write_buffer, flush_buffer>>
  PROVE  Locks'
<1>1. pc'[t] = l /\ \A u \in Client \ {t} : pc'[u] = pc[u]
  BY Zenon DEF goto, TypeOK
<1> QED
  BY Zenon, <1>1 DEF Locks

LEMMA LocksReturn ==
  ASSUME TypeOK, Locks, NEW t \in Client, NEW found, NEW r, get_returns(t, found, r),
         pc[t] # "flush", UNCHANGED <<write_lock, flush_lock, write_buffer, flush_buffer>>
  PROVE  Locks'
<1>1. flush_lock # t
  BY Zenon DEF Locks
<1>2. CASE write_lock = t
  <2>1. goto(t, "append") \/ goto(t, "raise") \/ goto(t, "unlock")
    BY Zenon, <1>2 DEF get_returns
  <2> QED
    BY Zenon, <1>1, <1>2, <2>1, LocksMove DEF SetLabel
<1>3. CASE write_lock # t
  <2>1. goto(t, "return")
    BY Zenon, <1>3 DEF get_returns
  <2> QED
    BY Zenon, <1>1, <1>3, <2>1, LocksMove DEF SetLabel
<1> QED
  BY Zenon, <1>2, <1>3

LEMMA LocksGet ==
  ASSUME TypeOK, Locks, NEW t \in Client, GetStep(t)
  PROVE  Locks'
<1> USE DEF index, wbuf, fbuf, disk, threads, locals
<1>0. ASSUME NEW l \in ReadLabel, goto(t, l), pc[t] \in ReadLabel,
             UNCHANGED <<write_lock, flush_lock, write_buffer, flush_buffer>>
      PROVE  Locks'
  <2>1. flush_lock # t /\ l # "grow" /\ l \notin SetLabel
    BY Zenon, <1>0 DEF Locks, ReadLabel, SetLabel
  <2> QED
    BY Zenon, <1>0, <2>1, LocksMove
<1>1. CASE CheckCurr(t)
  <2>1. goto(t, "remove") \/ goto(t, "buffers") \/ goto(t, "check_flushing")
    BY Zenon, <1>1 DEF CheckCurr
  <2> QED
    BY Zenon, <1>0, <1>1, <2>1 DEF CheckCurr, ReadLabel
<1>2. CASE CheckFlushing(t)
  <2>1. goto(t, "buffers") \/ goto(t, "file")
    BY Zenon, <1>2 DEF CheckFlushing
  <2> QED
    BY Zenon, <1>0, <1>2, <2>1 DEF CheckFlushing, ReadLabel
<1>3. CASE ReadBuffers(t)
  <2>1. (\E r : get_returns(t, TRUE, r)) \/ goto(t, "file")
    BY Zenon, <1>3 DEF ReadBuffers
  <2> QED
    BY Zenon, <1>0, <1>3, <2>1, LocksReturn DEF ReadBuffers, ReadLabel
<1>4. CASE ReadFile(t)
  <2>1. (\E r : get_returns(t, TRUE, r)) \/ goto(t, "look_again")
    BY Zenon, <1>4 DEF ReadFile
  <2> QED
    BY Zenon, <1>0, <1>4, <2>1, LocksReturn DEF ReadFile, ReadLabel
<1>5. CASE LookAgain(t)
  <2>1. goto(t, "file") \/ goto(t, "remove")
    BY Zenon, <1>5 DEF LookAgain
  <2> QED
    BY Zenon, <1>0, <1>5, <2>1 DEF LookAgain, ReadLabel
<1>6. CASE RemoveKey(t)
  BY Zenon, <1>6, LocksReturn DEF RemoveKey
<1>7. CASE Return(t)
  <2>1. goto(t, "idle") /\ flush_lock # t /\ write_lock # t
    BY Zenon, <1>7 DEF Return, finish, Locks, SetLabel, ReadLabel
  <2> QED
    BY Zenon, <1>7, <2>1, LocksMove DEF Return, SetLabel
<1> QED
  BY Zenon, <1>1, <1>2, <1>3, <1>4, <1>5, <1>6, <1>7 DEF GetStep

LEMMA LocksSet ==
  ASSUME TypeOK, Locks, NEW t \in Client, SetStep(t)
  PROVE  Locks'
<1> USE DEF index, wbuf, fbuf, disk, threads, locals
<1>0. pc[t] \in SetLabel /\ pc[t] # "flush" /\ write_lock = t /\ flush_lock # t
  BY Zenon DEF SetStep, SetLookup, SetAppend, SetDouble, SetGrown, SetIndexCurr, SetIndexTree,
         SetRaise, SetUnlock, Locks, SetLabel
\* Nobody else is inside bc_set.
<1>a. \A u \in Client \ {t} : pc[u] \notin SetLabel
  BY Zenon, <1>0 DEF Locks
<1>b. ASSUME pc' = [pc EXCEPT ![t] = "index_curr"], UNCHANGED <<write_lock, flush_lock, flush_buffer>>
      PROVE  Locks'
  <2>1. pc'[t] = "index_curr" /\ \A u \in Client \ {t} : pc'[u] = pc[u]
    BY Zenon, <1>b DEF TypeOK
  <2> QED
    BY Zenon, <1>0, <1>a, <1>b, <2>1 DEF Locks, SetLabel
<1>c. ASSUME finish(t), write_lock' = None, UNCHANGED <<flush_lock, write_buffer, flush_buffer>>
      PROVE  Locks'
  <2>1. pc'[t] = "idle" /\ \A u \in Client \ {t} : pc'[u] = pc[u]
    BY Zenon, <1>c DEF finish, goto, TypeOK
  <2>2. "idle" \notin SetLabel
    BY Zenon DEF SetLabel
  <2> QED
    BY Zenon, <1>0, <1>a, <1>c, <2>1, <2>2, ConstantsAssumption DEF Locks
<1>1. CASE SetLookup(t)
  <2>1. get_returns(t, FALSE, Nothing) \/ goto(t, "check_curr")
    BY Zenon, <1>1 DEF SetLookup, ht_lookup
  <2> QED
    BY Zenon, <1>0, <1>1, <2>1, LocksReturn, LocksMove DEF SetLookup, ReadLabel
<1>2. CASE SetAppend(t)
  <2>1. CASE goto(t, "flush") /\ UNCHANGED <<write_buffer, item>>
    BY Zenon, <1>0, <1>2, <2>1, LocksMove DEF SetAppend, SetLabel
  <2>2. CASE append_record(t, curr, wbuf_start_pos)
    BY Zenon, <1>2, <1>b, <2>2 DEF SetAppend, append_record, goto
  <2> QED
    BY Zenon, <1>2, <2>1, <2>2 DEF SetAppend
<1>3. CASE SetDouble(t)
  BY Zenon, <1>3 DEF SetDouble, Locks
<1>4. CASE SetGrown(t)
  BY Zenon, <1>4, <1>b DEF SetGrown, append_record, goto
<1>5. CASE SetIndexCurr(t)
  BY Zenon, <1>0, <1>5, LocksMove DEF SetIndexCurr, SetLabel
<1>6. CASE SetIndexTree(t)
  BY Zenon, <1>6, <1>c DEF SetIndexTree
<1>7. CASE SetRaise(t)
  <2>1. goto(t, "index_curr") \/ goto(t, "index_tree")
    BY Zenon, <1>7 DEF SetRaise
  <2> QED
    BY Zenon, <1>0, <1>7, <2>1, LocksMove DEF SetRaise, SetLabel
<1>8. CASE SetUnlock(t)
  BY Zenon, <1>8, <1>c DEF SetUnlock
<1> QED
  BY Zenon, <1>1, <1>2, <1>3, <1>4, <1>5, <1>6, <1>7, <1>8 DEF SetStep

LEMMA LocksFlush ==
  ASSUME TypeOK, Locks, NEW f \in Client \cup {Flusher}, FlushStep(f)
  PROVE  Locks'
<1> USE DEF index, wbuf, fbuf, disk, threads, locals
<1>0. f # None
  BY Zenon, ConstantsAssumption
<1>1. CASE FlushEnter(f)
  BY Zenon, <1>1 DEF FlushEnter, Locks
<1>2. CASE FlushNothing(f)
  <2>1. f \in Client /\ pc[f] = "flush" /\ goto(f, "grow") /\ write_buffer = <<>> /\ flush_lock = None
    BY Zenon, <1>2 DEF FlushNothing, in_flush
  <2>2. pc'[f] = "grow" /\ \A u \in Client \ {f} : pc'[u] = pc[u]
    BY Zenon, <2>1 DEF goto, TypeOK
  <2>3. write_lock = f /\ "grow" \in SetLabel
    BY Zenon, <2>1 DEF Locks, SetLabel
  <2> QED
    BY Zenon, <1>0, <1>2, <2>1, <2>2, <2>3 DEF FlushNothing, Locks
<1>3. CASE FlushBegin(f)
  <2>1. f \in Client => pc[f] = "flush"
    BY Zenon, <1>3 DEF FlushBegin, in_flush
  <2> QED
    BY Zenon, <1>0, <1>3, <2>1 DEF FlushBegin, Locks
<1>4. CASE FlushWrite(f)
  BY Zenon, <1>4 DEF FlushWrite, Locks
<1>5. CASE FlushEnd(f)
  <2>1. pc' = [t \in Client |-> IF t = f THEN "grow" ELSE pc[t]] /\ flush_lock = f
    BY Zenon, <1>5 DEF FlushEnd
  <2>2. f \in Client => pc[f] = "flush" /\ write_lock = f /\ write_buffer = <<>>
    BY Zenon, <2>1 DEF Locks, SetLabel
  <2>3. "grow" \in SetLabel
    BY Zenon DEF SetLabel
  <2> QED
    BY Zenon, <1>0, <1>5, <2>1, <2>2, <2>3, ConstantsAssumption DEF FlushEnd, Locks
<1> QED
  BY Zenon, <1>1, <1>2, <1>3, <1>4, <1>5 DEF FlushStep

LEMMA LocksBegin ==
  ASSUME TypeOK, Locks, NEW t \in Client, NEW k \in Key,
         GetBegin(t, k) \/ \E v \in Value, n \in VersionArg : SetBegin(t, k, v, n)
  PROVE  Locks'
<1> USE DEF index, wbuf, fbuf, disk, threads, locals
<1>0. pc[t] = "idle" /\ flush_lock # t /\ write_lock # t
  BY Zenon DEF GetBegin, SetBegin, Locks, SetLabel, ReadLabel
<1>1. CASE GetBegin(t, k)
  <2>1. get_returns(t, FALSE, Nothing) \/ goto(t, "check_curr")
    BY Zenon, <1>1 DEF GetBegin, ht_lookup
  <2> QED
    BY Zenon, <1>0, <1>1, <2>1, LocksReturn, LocksMove DEF GetBegin, SetLabel
<1>2. ASSUME NEW v \in Value, NEW n \in VersionArg, SetBegin(t, k, v, n)
      PROVE  Locks'
  <2>1. goto(t, "lookup") \/ goto(t, "append")
    BY Zenon, <1>2 DEF SetBegin
  <2>2. pc'[t] \in {"lookup", "append"} /\ \A u \in Client \ {t} : pc'[u] = pc[u]
    BY Zenon, <2>1 DEF goto, TypeOK
  <2>3. write_lock = None /\ write_lock' = t
    BY Zenon, <1>2 DEF SetBegin
  <2> QED
    <3>1. \A u \in Client \ {t} : pc[u] \notin SetLabel
      BY Zenon, <2>3, ConstantsAssumption DEF Locks
    <3>2. pc'[t] \in SetLabel /\ pc'[t] # "grow"
      BY Zenon, <2>2 DEF SetLabel
    <3>3. UNCHANGED <<flush_lock, write_buffer, flush_buffer>>
      BY Zenon, <1>2 DEF SetBegin
    <3> QED
      BY Zenon, <1>0, <2>2, <2>3, <3>1, <3>2, <3>3 DEF Locks
<1> QED
  BY Zenon, <1>1, <1>2

LEMMA LocksNext ==
  ASSUME TypeOK, Locks, [Next]_vars
  PROVE  Locks'
<1>1. CASE UNCHANGED vars
  BY Zenon, <1>1 DEF vars, index, wbuf, fbuf, disk, threads, Locks
<1>2. ASSUME NEW h \in building, build_hint(h)
      PROVE  Locks'
  BY Zenon, <1>2 DEF build_hint, wbuf, fbuf, threads, Locks
<1>3. CASE Next
  BY Zenon, <1>2, <1>3, LocksBegin, LocksGet, LocksSet, LocksFlush DEF Next
<1> QED
  BY Zenon, <1>1, <1>3

\* The bitcask structure and its threads keep their types, for any clients,
\* keys, values and sizes, also after the 32-bit positions have wrapped.
THEOREM TypeCorrect == Spec => []TypeOK
<1>1. Init => TypeOK /\ Locks
  BY Zenon, TypeInit, LocksInit
<1>2. TypeOK /\ Locks /\ [Next]_vars => (TypeOK /\ Locks)'
  BY Zenon, TypeNext, LocksNext
<1> QED
  BY <1>1, <1>2, PTL DEF Spec

----------------------------------------------------------------------------
(***************************************************************************)
(* Frames: what the steps of bc_get and bc_set leave alone.                *)
(***************************************************************************)
LEMMA ReturnFrame ==
  ASSUME TypeOK, NEW t \in Client, NEW found, NEW r, get_returns(t, found, r)
  PROVE  \A u \in Client \ {t} : pc'[u] = pc[u] /\ ret'[u] = ret[u]
BY Zenon DEF get_returns, goto, TypeOK

LEMMA LookupFrame ==
  ASSUME TypeOK, NEW t \in Client, NEW k, NEW deleted, ht_lookup(t, k, deleted)
  PROVE  \A u \in Client \ {t} : pc'[u] = pc[u] /\ item'[u] = item[u]
<1>1. CASE get_returns(t, FALSE, Nothing) /\ UNCHANGED item
  BY Zenon, <1>1, ReturnFrame
<1>2. CASE item' = [item EXCEPT ![t] = tree[k]] /\ goto(t, "check_curr")
  BY Zenon, <1>2 DEF goto, TypeOK
<1> QED
  BY Zenon, <1>1, <1>2 DEF ht_lookup

\* A step of bc_get changes its own thread, and the index only by "remove".
LEMMA GetFrame ==
  ASSUME TypeOK, NEW t \in Client, GetStep(t)
  PROVE  /\ pc[t] \in ReadLabel \cup {"return"}
         /\ UNCHANGED <<status, curr, wbuf, fbuf, disk, write_lock>>
         /\ pc[t] # "remove" => UNCHANGED tree
         /\ pc[t] \in ReadLabel => UNCHANGED <<arg, it>>
         /\ \A u \in Client \ {t} : /\ pc'[u] = pc[u] /\ item'[u] = item[u]
                                    /\ arg'[u] = arg[u] /\ it'[u] = it[u]
<1> USE DEF index, wbuf, fbuf, disk, threads, locals
<1>1. CASE CheckCurr(t)
  BY Zenon, <1>1 DEF CheckCurr, goto, TypeOK, ReadLabel
<1>2. CASE CheckFlushing(t)
  BY Zenon, <1>2 DEF CheckFlushing, goto, TypeOK, ReadLabel
<1>3. CASE ReadBuffers(t)
  <2>1. (\E r : get_returns(t, TRUE, r)) \/ goto(t, "file")
    BY Zenon, <1>3 DEF ReadBuffers
  <2>2. \A u \in Client \ {t} : pc'[u] = pc[u]
    BY Zenon, <2>1, ReturnFrame DEF goto, TypeOK
  <2> QED
    BY Zenon, <1>3, <2>2 DEF ReadBuffers, ReadLabel
<1>4. CASE ReadFile(t)
  <2>1. (\E r : get_returns(t, TRUE, r)) \/ goto(t, "look_again")
    BY Zenon, <1>4 DEF ReadFile
  <2>2. \A u \in Client \ {t} : pc'[u] = pc[u]
    BY Zenon, <2>1, ReturnFrame DEF goto, TypeOK
  <2> QED
    BY Zenon, <1>4, <2>2 DEF ReadFile, ReadLabel
<1>5. CASE LookAgain(t)
  <2>1. goto(t, "file") \/ goto(t, "remove")
    BY Zenon, <1>5 DEF LookAgain
  <2>2. \A u \in Client \ {t} : pc'[u] = pc[u] /\ item'[u] = item[u]
    BY Zenon, <1>5, <2>1 DEF LookAgain, goto, TypeOK
  <2> QED
    BY Zenon, <1>5, <2>2 DEF LookAgain, ReadLabel
<1>6. CASE RemoveKey(t)
  <2>1. \A u \in Client \ {t} : pc'[u] = pc[u]
    BY Zenon, <1>6, ReturnFrame DEF RemoveKey
  <2> QED
    BY Zenon, <1>6, <2>1 DEF RemoveKey, ReadLabel
<1>7. CASE Return(t)
  BY Zenon, <1>7 DEF Return, finish, goto, TypeOK, ReadLabel
<1> QED
  BY Zenon, <1>1, <1>2, <1>3, <1>4, <1>5, <1>6, <1>7 DEF GetStep

----------------------------------------------------------------------------
(***************************************************************************)
(* The write buffer.                                                       *)
(***************************************************************************)
LEMMA BuffersInit == Init => Buffers
<1> SUFFICES ASSUME Init PROVE Buffers
  OBVIOUS
<1>1. Len(write_buffer) = 0 /\ wbuf_start_pos = 0 /\ wbuf_size = InitBufferSize
  BY Zenon, EmptySeq DEF Init
<1> QED
  BY <1>1, ConstantsAssumption DEF Buffers, buffer_size

LEMMA BuffersQuiet ==
  ASSUME Buffers, UNCHANGED wbuf, \A u \in Client : pc[u] = "grow" => pc'[u] = "grow"
  PROVE  Buffers'
BY Zenon DEF Buffers, wbuf

\* The sizes of the buffer after bc_flush and after one doubling.
LEMMA ResizedSize ==
  ASSUME TypeOK, Buffers
  PROVE  resized \in Nat \ {0} /\ buffer_size(resized)
<1>1. wbuf_size \in Nat \ {0} /\ WRITE_BUFFER_SIZE \in Nat \ {0}
  BY Zenon, NumberTypes, ConstantsAssumption
<1> QED
  BY <1>1 DEF resized, Buffers, buffer_size

\* Where the buffer ends never needs more than 32 bits.
LEMMA EndFits ==
  ASSUME NoWrap, TypeOK, Buffers, NEW n \in Nat, buffer_size(n),
         (\E t \in Client : pc[t] = "grow") => write_buffer = <<>>
  PROVE  wbuf_start_pos + Len(write_buffer) + n < PosRange
<1>1. /\ wbuf_size \in Nat /\ Len(write_buffer) \in Nat /\ wbuf_start_pos \in Nat
      /\ MaxBucketSize \in Nat /\ PosRange \in Nat
  BY Zenon, NumberTypes, ConstantsAssumption
<1>2. wbuf_size + n < PosRange /\ MaxBucketSize + n < PosRange
  BY Zenon, <1>1 DEF NoWrap, Buffers
<1>3. Len(write_buffer) <= wbuf_size
  BY Zenon DEF Buffers
<1>4. CASE wbuf_start_pos = 0 \/ wbuf_start_pos + wbuf_size <= MaxBucketSize
  BY <1>1, <1>2, <1>3, <1>4
<1>5. CASE wbuf_start_pos <= MaxBucketSize /\ \E t \in Client : pc[t] = "grow"
  <2>1. Len(write_buffer) = 0
    BY Zenon, <1>5, EmptySeq
  <2> QED
    BY <1>1, <1>2, <1>5, <2>1
<1> QED
  BY Zenon, <1>4, <1>5 DEF Buffers

\* Where a record that fits the buffer is appended, and what it leaves.
LEMMA AppendSize ==
  ASSUME TypeOK, NEW t \in Client, pc[t] # "idle", NEW x, NEW start, append_record(t, x, start)
  PROVE  Len(write_buffer') = Len(write_buffer) + rlen(t) /\ rlen(t) \in Nat \ {0}
<1>1. arg[t].key \in Key /\ arg[t].val \in Value /\ arg[t].ver \in Int
  BY Zenon DEF TypeOK, Arg
<1>2. /\ encode_record(arg[t].key, arg[t].val, arg[t].ver) \in Seq(Block)
      /\ Len(encode_record(arg[t].key, arg[t].val, arg[t].ver)) = SizeOf[arg[t].val]
  BY Zenon, <1>1, EncodeType
<1>3. write_buffer \in Seq(Block)
  BY Zenon DEF TypeOK
<1>4. write_buffer' = write_buffer \o encode_record(arg[t].key, arg[t].val, arg[t].ver)
  BY Zenon DEF append_record
<1>5. Len(write_buffer') = Len(write_buffer) + SizeOf[arg[t].val]
  <2>1. PICK y \in Seq(Block) : write_buffer' = write_buffer \o y /\ Len(y) = SizeOf[arg[t].val]
    BY Zenon, <1>2, <1>4
  <2> QED
    BY Zenon, <1>3, <2>1, BlockConcat
<1>6. SizeOf[arg[t].val] \in Nat \ {0}
  BY Zenon, <1>1, ConstantsAssumption
<1> QED
  BY Zenon, <1>5, <1>6 DEF rlen

LEMMA BuffersSet ==
  ASSUME NoWrap, TypeOK, Locks, Buffers, NEW t \in Client, SetStep(t)
  PROVE  Buffers'
<1> USE DEF index, wbuf, fbuf, disk, threads, locals
<1>0. /\ wbuf_size \in Nat \ {0} /\ Len(write_buffer) \in Nat /\ wbuf_start_pos \in Nat
      /\ MaxBucketSize \in Nat /\ rlen(t) \in Nat \ {0}
  BY Zenon, NumberTypes, ConstantsAssumption DEF TypeOK, Arg, rlen
<1>1. ASSUME UNCHANGED wbuf, pc[t] # "grow", \A u \in Client \ {t} : pc'[u] = pc[u]
      PROVE  Buffers'
  BY Zenon, <1>1, BuffersQuiet
<1>2. CASE SetLookup(t)
  BY Zenon, <1>1, <1>2, LookupFrame DEF SetLookup
<1>3. CASE SetAppend(t)
  <2>1. pc[t] = "append" /\ write_lock = t
    BY Zenon, <1>3 DEF SetAppend, Locks, SetLabel
  <2>2. CASE goto(t, "flush") /\ UNCHANGED <<write_buffer, item>>
    BY Zenon, <1>1, <1>3, <2>1, <2>2 DEF SetAppend, goto, TypeOK
  <2>3. CASE /\ append_record(t, curr, wbuf_start_pos)
             /\ ~(Len(write_buffer) + rlen(t) > wbuf_size)
    <3>1. Len(write_buffer') <= wbuf_size
      BY <1>0, <2>1, <2>3, AppendSize
    <3>2. \A u \in Client : pc[u] # "grow"
      BY Zenon, <2>1 DEF Locks, SetLabel
    <3> QED
      BY Zenon, <1>3, <3>1, <3>2 DEF SetAppend, Buffers
  <2> QED
    BY Zenon, <1>3, <2>2, <2>3 DEF SetAppend
<1>4. CASE SetDouble(t)
  <2>1. pc[t] = "grow" /\ rlen(t) > wbuf_size /\ wbuf_size' = 2 * wbuf_size /\ write_buffer' = <<>>
        /\ UNCHANGED <<wbuf_start_pos, pc>>
    BY Zenon, <1>4 DEF SetDouble
  <2>2. Len(write_buffer') = 0
    BY Zenon, <2>1, EmptySeq
  <2>3. buffer_size(wbuf_size')
    <3>1. arg[t].val \in Value
      BY Zenon DEF TypeOK, Arg
    <3> QED
      BY <1>0, <2>1, <3>1 DEF buffer_size, rlen
  <2>4. wbuf_start_pos = 0 \/ wbuf_start_pos <= MaxBucketSize
    BY <1>0 DEF Buffers
  <2> QED
    BY <1>0, <2>1, <2>2, <2>3, <2>4 DEF Buffers
<1>5. CASE SetGrown(t)
  <2>1. pc[t] = "grow" /\ write_buffer = <<>> /\ rlen(t) <= wbuf_size /\ UNCHANGED wbuf_size
    BY Zenon, <1>5 DEF SetGrown, Locks
  <2>2. Len(write_buffer') <= wbuf_size
    <3>1. PICK x, start : append_record(t, x, start)
      BY Zenon, <1>5 DEF SetGrown
    <3>2. Len(write_buffer) = 0
      BY Zenon, <2>1, EmptySeq
    <3> QED
      BY <1>0, <2>1, <3>1, <3>2, AppendSize
  <2>3. wbuf_start_pos + wbuf_size < PosRange
    <3>1. Len(write_buffer) = 0
      BY <2>1, EmptySeq
    <3>2. wbuf_start_pos + Len(write_buffer) + wbuf_size < PosRange
      BY Zenon, <1>0, <2>1, EndFits DEF Buffers
    <3> QED
      BY <1>0, <3>1, <3>2
  <2>4. u32(wbuf_start_pos + wbuf_size) = wbuf_start_pos + wbuf_size
    BY <1>0, <2>3, U32
  <2>5. \/ wbuf_start_pos' = 0
        \/ wbuf_start_pos' + wbuf_size' <= MaxBucketSize
    <3>1. CASE u32(wbuf_start_pos + wbuf_size) > MaxBucketSize
      BY Zenon, <1>5, <3>1 DEF SetGrown, bc_rotate
    <3>2. CASE ~(u32(wbuf_start_pos + wbuf_size) > MaxBucketSize)
      <4>1. wbuf_start_pos' = wbuf_start_pos /\ wbuf_size' = wbuf_size
        BY Zenon, <1>5, <2>1, <3>2 DEF SetGrown
      <4> QED
        BY <1>0, <2>4, <3>2, <4>1
    <3> QED
      BY Zenon, <3>1, <3>2
  <2> QED
    BY Zenon, <2>1, <2>2, <2>5 DEF Buffers
<1>6. CASE SetIndexCurr(t)
  BY Zenon, <1>1, <1>6 DEF SetIndexCurr, goto, TypeOK
<1>7. CASE SetIndexTree(t)
  BY Zenon, <1>1, <1>7 DEF SetIndexTree, finish, goto, TypeOK
<1>8. CASE SetRaise(t)
  BY Zenon, <1>1, <1>8 DEF SetRaise, goto, TypeOK
<1>9. CASE SetUnlock(t)
  BY Zenon, <1>1, <1>9 DEF SetUnlock, finish, goto, TypeOK
<1> QED
  BY Zenon, <1>2, <1>3, <1>4, <1>5, <1>6, <1>7, <1>8, <1>9 DEF SetStep

LEMMA BuffersFlush ==
  ASSUME NoWrap, TypeOK, Locks, Buffers, NEW f \in Client \cup {Flusher}, FlushStep(f)
  PROVE  Buffers'
<1> USE DEF index, wbuf, fbuf, disk, threads, locals
<1>1. CASE FlushEnter(f) \/ FlushWrite(f)
  BY Zenon, <1>1, BuffersQuiet DEF FlushEnter, FlushWrite
<1>2. CASE FlushNothing(f)
  BY Zenon, <1>2, BuffersQuiet DEF FlushNothing, goto, TypeOK
<1>3. CASE FlushBegin(f)
  <2>0. /\ wbuf_size \in Nat \ {0} /\ Len(write_buffer) \in Nat /\ wbuf_start_pos \in Nat
        /\ MaxBucketSize \in Nat /\ PosRange \in Nat
    BY Zenon, NumberTypes, ConstantsAssumption
  <2>1. resized \in Nat \ {0} /\ buffer_size(resized) /\ wbuf_size' = resized
    BY Zenon, <1>3, ResizedSize DEF FlushBegin
  <2>2. Len(write_buffer') = 0
    BY Zenon, <1>3, EmptySeq DEF FlushBegin
  <2>3. wbuf_start_pos + Len(write_buffer) + resized < PosRange
    BY Zenon, <1>3, <2>1, EndFits DEF FlushBegin, Locks
  <2>4. /\ u32(wbuf_start_pos + Len(write_buffer) + resized) = wbuf_start_pos + Len(write_buffer) + resized
        /\ u32(wbuf_start_pos + Len(write_buffer)) = wbuf_start_pos + Len(write_buffer)
    <3>1. /\ wbuf_start_pos + Len(write_buffer) + resized \in Nat
          /\ wbuf_start_pos + Len(write_buffer) \in Nat
          /\ wbuf_start_pos + Len(write_buffer) < PosRange
      BY <2>0, <2>1, <2>3
    <3> QED
      BY Zenon, <2>3, <3>1, U32
  <2>5. wbuf_start_pos' = 0 \/ wbuf_start_pos' + wbuf_size' <= MaxBucketSize
    <3>1. CASE bc_rotate
      BY Zenon, <3>1 DEF bc_rotate
    <3>2. CASE /\ ~(u32(wbuf_start_pos + Len(write_buffer) + resized) > MaxBucketSize)
               /\ wbuf_start_pos' = u32(wbuf_start_pos + Len(write_buffer))
      BY <2>0, <2>1, <2>4, <3>2
    <3> QED
      BY Zenon, <1>3, <3>1, <3>2 DEF FlushBegin
  <2> QED
    BY <2>0, <2>1, <2>2, <2>5 DEF Buffers
<1>4. CASE FlushEnd(f)
  BY Zenon, <1>4, BuffersQuiet DEF FlushEnd
<1> QED
  BY Zenon, <1>1, <1>2, <1>3, <1>4 DEF FlushStep

----------------------------------------------------------------------------
(***************************************************************************)
(* The data files.                                                         *)
(***************************************************************************)
LEMMA FilesInit == Init => Files
<1> SUFFICES ASSUME Init PROVE Files
  OBVIOUS
<1>1. DOMAIN data = {} /\ flushing_bucket = -1 /\ curr = 0 /\ wbuf_start_pos = 0 /\ flush_lock = None
  BY Zenon DEF Init, NoFile, NoBucket
<1> QED
  BY <1>1 DEF Files, file_size, file

LEMMA FilesQuiet ==
  ASSUME Files, UNCHANGED <<curr, wbuf_start_pos, flush_buffer, fbuf_start_pos, flushing_bucket,
                            flush_lock, flushed, buckets, data>>
  PROVE  Files'
BY Zenon DEF Files, file_size, file

\* bc_rotate opens a bucket that has no file, and records sizes it knew.
LEMMA RotateFiles ==
  ASSUME TypeOK, Files, bc_rotate, UNCHANGED data
  PROVE  /\ \A x \in DOMAIN data' : x <= curr' /\ buckets'[x] = Len(data'[x])
         /\ wbuf_start_pos' = file_size(curr)'
         /\ flushing_bucket < curr' /\ curr < curr'
<1>0. curr \in Nat /\ curr' = curr + 1 /\ wbuf_start_pos' = 0
  BY Zenon, NumberTypes DEF bc_rotate
<1>1. \A x \in DOMAIN data : x \in Bucket /\ x \in Int /\ x <= curr /\ buckets[x] = Len(data[x])
  BY NumberTypes DEF Files
<1>2. buckets' = [x \in Bucket |-> IF x = curr /\ x \in DOMAIN data THEN Len(data[x]) ELSE buckets[x]]
  BY Zenon DEF bc_rotate
<1>3. curr' \notin DOMAIN data
  BY <1>0, <1>1
<1>4. flushing_bucket \in Int /\ flushing_bucket <= curr
  BY Zenon, NumberTypes DEF Files
<1>5. \A x \in DOMAIN data' : x <= curr' /\ buckets'[x] = Len(data'[x])
  BY <1>0, <1>1, <1>2
<1>6. wbuf_start_pos' = file_size(curr)'
  BY Zenon, <1>0, <1>3 DEF file_size, file
<1> QED
  BY <1>0, <1>4, <1>5, <1>6

LEMMA FilesSet ==
  ASSUME TypeOK, Locks, Files, NEW t \in Client, SetStep(t)
  PROVE  Files'
<1> USE DEF index, wbuf, fbuf, disk, threads, locals
<1>1. CASE SetGrown(t)
  <2>1. CASE bc_rotate
    <3>1. UNCHANGED <<fbuf, data>>
      BY Zenon, <1>1 DEF SetGrown
    <3>2. /\ \A x \in DOMAIN data' : x <= curr' /\ buckets'[x] = Len(data'[x])
          /\ wbuf_start_pos' = file_size(curr)'
          /\ flushing_bucket < curr'
      BY Zenon, <2>1, <3>1, RotateFiles
    <3>3. curr' \in Nat /\ flushing_bucket \in Int
      BY <2>1, NumberTypes DEF bc_rotate
    <3>4. flushing_bucket' <= curr' /\ flushing_bucket' # curr'
      BY <3>1, <3>2, <3>3
    <3> QED
      BY Zenon, <3>1, <3>2, <3>4 DEF Files, file_size, file
  <2>2. CASE UNCHANGED <<curr, curr_tree, wbuf_start_pos, buckets, hint, building>>
    BY Zenon, <1>1, <2>2, FilesQuiet DEF SetGrown
  <2> QED
    BY Zenon, <1>1, <2>1, <2>2 DEF SetGrown
<1>2. CASE ~SetGrown(t)
  <2>1. UNCHANGED <<curr, wbuf_start_pos, fbuf, buckets, data>>
    BY Zenon, <1>2 DEF SetStep, SetLookup, SetAppend, SetDouble, SetIndexCurr, SetIndexTree, SetRaise, SetUnlock
  <2> QED
    BY Zenon, <2>1, FilesQuiet
<1> QED
  BY Zenon, <1>1, <1>2

LEMMA FilesFlushBegin ==
  ASSUME NoWrap, TypeOK, Locks, Buffers, Files, NEW f \in Client \cup {Flusher}, FlushBegin(f)
  PROVE  Files'
<1> USE DEF index, wbuf, fbuf, disk, threads, locals
<1>0. /\ wbuf_size \in Nat \ {0} /\ Len(write_buffer) \in Nat /\ wbuf_start_pos \in Nat
      /\ PosRange \in Nat /\ curr \in Nat
  BY Zenon, NumberTypes, ConstantsAssumption
<1>1. wbuf_start_pos = file_size(curr)
  <2>1. flush_lock = None /\ flushing_bucket = -1
    BY Zenon DEF FlushBegin, TypeOK, NoBucket
  <2>2. flushing_bucket # curr
    BY <1>0, <2>1
  <2> QED
    BY Zenon, <2>2 DEF Files
<1>2. /\ flushing_bucket' = curr /\ fbuf_start_pos' = wbuf_start_pos /\ flush_buffer' = write_buffer
      /\ flushed' = FALSE /\ UNCHANGED data
  BY Zenon DEF FlushBegin
<1>3. fbuf_start_pos' = file_size(flushing_bucket)'
  BY Zenon, <1>1, <1>2 DEF file_size, file
<1>4. CASE bc_rotate
  <2>1. /\ \A x \in DOMAIN data' : x <= curr' /\ buckets'[x] = Len(data'[x])
        /\ wbuf_start_pos' = file_size(curr)'
        /\ curr < curr'
    BY Zenon, <1>2, <1>4, RotateFiles
  <2>2. curr' \in Nat
    BY <1>0, <1>4 DEF bc_rotate
  <2>3. flushing_bucket' <= curr' /\ flushing_bucket' # curr'
    BY <1>0, <1>2, <2>1, <2>2
  <2> QED
    BY Zenon, <1>2, <1>3, <2>1, <2>3 DEF Files, file_size, file
<1>5. CASE /\ wbuf_start_pos' = u32(wbuf_start_pos + Len(write_buffer))
           /\ UNCHANGED <<curr, curr_tree, buckets, hint, building>>
  <2>1. wbuf_start_pos + Len(write_buffer) + resized < PosRange /\ resized \in Nat
    BY Zenon, ResizedSize, EndFits DEF FlushBegin, Locks
  <2>2. wbuf_start_pos + Len(write_buffer) \in Nat /\ wbuf_start_pos + Len(write_buffer) < PosRange
    BY <1>0, <2>1
  <2>3. wbuf_start_pos' = fbuf_start_pos' + Len(flush_buffer')
    BY Zenon, <1>2, <1>5, <2>2, U32
  <2>4. \A x \in DOMAIN data' : x <= curr' /\ buckets'[x] = Len(data'[x])
    BY Zenon, <1>2, <1>5 DEF Files
  <2>5. flushing_bucket' = curr' /\ flushing_bucket' <= curr'
    BY <1>0, <1>2, <1>5
  <2> QED
    BY Zenon, <1>2, <1>3, <2>3, <2>4, <2>5 DEF Files
<1> QED
  BY Zenon, <1>4, <1>5 DEF FlushBegin

\* What the append of the flush buffer leaves in the file.
LEMMA FlushWriteData ==
  ASSUME TypeOK, Locks, Files, NEW f \in Client \cup {Flusher}, FlushWrite(f),
         flushing_bucket \in Bucket
  PROVE  /\ UNCHANGED status
         /\ flushed' = TRUE
         /\ DOMAIN data' = DOMAIN data \cup {flushing_bucket}
         /\ \A x \in DOMAIN data : x # flushing_bucket => data'[x] = data[x]
         /\ data'[flushing_bucket] = file(flushing_bucket) \o flush_buffer
         /\ Len(data'[flushing_bucket]) = fbuf_start_pos + Len(flush_buffer)
         /\ buckets' = [buckets EXCEPT ![flushing_bucket] = fbuf_start_pos + Len(flush_buffer)]
<1> DEFINE b == flushing_bucket
<1>1. flush_lock # None /\ ~flushed
  BY Zenon, ConstantsAssumption DEF FlushWrite
<1>2. fbuf_start_pos = file_size(b)
  BY Zenon, <1>1 DEF Files
<1>3. ~bad_file(b)
  <2>1. b \in DOMAIN data => buckets[b] = Len(data[b]) /\ Len(data[b]) \in Nat
    BY Zenon, NumberTypes DEF Files, file
  <2>2. ~(buckets[b] < 0 /\ b \in DOMAIN data)
    <3>1. \A n \in Nat : ~(n < 0)
      OBVIOUS
    <3> QED
      BY Zenon, <2>1, <3>1
  <2> QED
    BY Zenon, <1>2, <2>2 DEF bad_file
<1>4. /\ data' = [x \in DOMAIN data \cup {b} |->
                    IF x = b THEN file(b) \o flush_buffer ELSE data[x]]
      /\ buckets' = [buckets EXCEPT ![b] = file_size(b) + Len(flush_buffer)]
      /\ flushed' = TRUE /\ UNCHANGED status
  BY Zenon, <1>3 DEF FlushWrite
<1>5. /\ \A x \in DOMAIN data : x # b => data'[x] = data[x]
      /\ data'[b] = file(b) \o flush_buffer
  BY Zenon, <1>4
<1>6. Len(data'[b]) = fbuf_start_pos + Len(flush_buffer)
  <2>1. file(b) \in Seq(Block) /\ flush_buffer \in Seq(Block)
    BY Zenon, NumberTypes DEF TypeOK
  <2> QED
    BY Zenon, <1>2, <1>5, <2>1, ConcatProperties DEF file_size, file
<1> QED
  BY Zenon, <1>2, <1>4, <1>5, <1>6

LEMMA FilesFlushWrite ==
  ASSUME TypeOK, Locks, Files, NEW f \in Client \cup {Flusher}, FlushWrite(f)
  PROVE  Files'
<1> USE DEF index, wbuf, fbuf, disk, threads, locals
<1> DEFINE b == flushing_bucket
<1>0. CASE b \notin Bucket
  BY Zenon, <1>0, FilesQuiet DEF FlushWrite
<1> SUFFICES ASSUME b \in Bucket PROVE Files'
  BY Zenon, <1>0
<1>1. /\ UNCHANGED <<curr, wbuf_start_pos, flush_buffer, fbuf_start_pos, flushing_bucket, flush_lock>>
      /\ flush_lock # None /\ ~flushed /\ flushed' = TRUE
  BY Zenon, FlushWriteData, ConstantsAssumption DEF FlushWrite
<1>2. fbuf_start_pos = file_size(b) /\ b <= curr
  BY Zenon, <1>1 DEF Files
<1>3. \A x \in DOMAIN data' : x <= curr' /\ buckets'[x] = Len(data'[x])
  <2>1. buckets \in [Bucket -> Nat \cup {-1}]
    BY Zenon DEF TypeOK
  <2>2. buckets'[b] = Len(data'[b]) /\ \A x \in Bucket : x # b => buckets'[x] = buckets[x]
    BY Zenon, <1>2, <2>1, FlushWriteData
  <2> QED
    BY Zenon, <1>1, <1>2, <2>2, FlushWriteData, NumberTypes DEF Files
<1>4. wbuf_start_pos' = IF flushing_bucket' = curr' THEN fbuf_start_pos' + Len(flush_buffer')
                                                    ELSE file_size(curr)'
  <2>1. CASE b = curr
    BY Zenon, <1>1, <2>1 DEF Files
  <2>2. CASE b # curr
    <3>1. file_size(curr)' = file_size(curr)
      BY Zenon, <1>1, <2>2, FlushWriteData DEF file_size, file
    <3> QED
      BY Zenon, <1>1, <2>2, <3>1 DEF Files
  <2> QED
    BY Zenon, <2>1, <2>2
<1>5. /\ b \in DOMAIN data' /\ Len(data'[b]) = fbuf_start_pos + Len(flush_buffer)
      /\ \A i \in 1 .. Len(flush_buffer) : data'[b][fbuf_start_pos + i] = flush_buffer[i]
  <2>1. ASSUME NEW i \in 1 .. Len(flush_buffer)
        PROVE  data'[b][fbuf_start_pos + i] = flush_buffer[i]
    <3>1. /\ Len(flush_buffer) \in Nat /\ Len(file(b)) \in Nat /\ i \in Nat
          /\ file(b) \in Seq(Block) /\ flush_buffer \in Seq(Block)
      <4>1. Len(flush_buffer) \in Nat /\ file(b) \in Seq(Block) /\ file_size(b) \in Nat
        BY Zenon, NumberTypes
      <4>2. flush_buffer \in Seq(Block)
        BY Zenon DEF TypeOK
      <4> QED
        BY <4>1, <4>2 DEF file_size
    <3>2. Len(file(b)) + i \in 1 .. Len(file(b)) + Len(flush_buffer)
      BY <3>1
    <3>3. (file(b) \o flush_buffer)[Len(file(b)) + i] = flush_buffer[Len(file(b)) + i - Len(file(b))]
      BY <3>1, <3>2, ConcatProperties
    <3>4. Len(file(b)) + i - Len(file(b)) = i
      BY <3>1
    <3> QED
      BY Zenon, <1>2, <3>3, <3>4, FlushWriteData DEF file_size, file
  <2> QED
    BY Zenon, <2>1, FlushWriteData
<1> QED
  BY Zenon, <1>1, <1>2, <1>3, <1>4, <1>5 DEF Files

LEMMA FilesFlushEnd ==
  ASSUME TypeOK, Locks, Files, NEW f \in Client \cup {Flusher}, FlushEnd(f)
  PROVE  Files'
<1> USE DEF index, wbuf, fbuf, disk, threads, locals
<1>1. /\ UNCHANGED <<curr, wbuf_start_pos, buckets, data>>
      /\ flush_lock # None /\ flushed /\ flush_lock' = None /\ flushing_bucket' = -1
  BY Zenon, ConstantsAssumption DEF FlushEnd, NoBucket
<1>2. curr \in Nat
  BY Zenon, NumberTypes
<1>3. wbuf_start_pos = file_size(curr)
  BY Zenon, <1>1 DEF Files, file_size, file
<1>4. file_size(curr)' = file_size(curr)
  BY Zenon, <1>1 DEF file_size, file
<1>5. \A x \in DOMAIN data' : x <= curr' /\ buckets'[x] = Len(data'[x])
  BY Zenon, <1>1 DEF Files
<1>6. flushing_bucket' <= curr' /\ flushing_bucket' # curr'
  BY <1>1, <1>2
<1> QED
  BY Zenon, <1>1, <1>3, <1>4, <1>5, <1>6 DEF Files

----------------------------------------------------------------------------
(***************************************************************************)
(* A record stays where it can be read.                                    *)
(***************************************************************************)
LEMMA SmallMod ==
  ASSUME NEW x \in Nat, NEW m \in Nat, x < m
  PROVE  x % m = x
OBVIOUS

LEMMA HoldsAppend ==
  ASSUME NEW s \in Seq(Block), NEW x \in Seq(Block), NEW o \in Int, NEW k, holds(s, o, k)
  PROVE  holds(s \o x, o, k) /\ (s \o x)[o + 1] = s[o + 1]
<1>1. /\ Len(s) \in Nat /\ Len(x) \in Nat /\ Len(s \o x) = Len(s) + Len(x)
      /\ o \in 0 .. Len(s) - 1
  BY Zenon, LenProperties, ConcatProperties DEF holds, decodes
<1>2. o + 1 \in 1 .. Len(s) + Len(x) /\ o + 1 <= Len(s)
  BY <1>1
<1>3. (s \o x)[o + 1] = s[o + 1]
  BY Zenon, <1>2, ConcatProperties
<1>4. s[o + 1] \in Block
  BY <1>1, ElementOfSeq
<1>5. SizeOf[s[o + 1].val] \in Nat
  BY Zenon, <1>4, ConstantsAssumption DEF Block
<1> QED
  BY <1>1, <1>3, <1>5 DEF holds, decodes

LEMMA HoldsRange ==
  ASSUME NEW s \in Seq(Block), NEW o, NEW k, holds(s, o, k)
  PROVE  o \in 0 .. Len(s) - 1 /\ s # <<>> /\ Len(s) \in Nat
BY LenProperties, EmptySeq DEF holds, decodes

LEMMA FileKept ==
  ASSUME TypeOK, Locks, Files, NEW i \in Item, NEW k, in_file(i, k),
         UNCHANGED data \/ \E f \in Client \cup {Flusher} : FlushWrite(f)
  PROVE  in_file(i, k)'
<1>1. CASE UNCHANGED data
  BY Zenon, <1>1 DEF in_file, holds, decodes
<1>2. ASSUME NEW f \in Client \cup {Flusher}, FlushWrite(f)
      PROVE  in_file(i, k)'
  <2>0. flushing_bucket \notin Bucket => UNCHANGED data
    BY Zenon, <1>2 DEF FlushWrite
  <2> SUFFICES ASSUME flushing_bucket \in Bucket PROVE in_file(i, k)'
    BY Zenon, <1>1, <2>0
  <2>1. CASE i.bucket # flushing_bucket
    BY Zenon, <1>2, <2>1, FlushWriteData DEF in_file, holds, decodes
  <2>2. CASE i.bucket = flushing_bucket
    <3>1. /\ i.bucket \in DOMAIN data /\ data[i.bucket] \in Seq(Block)
          /\ flush_buffer \in Seq(Block) /\ i.off \in Int /\ holds(data[i.bucket], i.off, k)
      <4>1. i.bucket \in DOMAIN data /\ holds(data[i.bucket], i.off, k)
        BY Zenon DEF in_file
      <4>2. i.off \in Int
        BY DEF Item
      <4> QED
        BY Zenon, <4>1, <4>2 DEF TypeOK
    <3>2. data'[i.bucket] = data[i.bucket] \o flush_buffer /\ i.bucket \in DOMAIN data'
      BY Zenon, <1>2, <2>2, <3>1, FlushWriteData DEF file
    <3>3. holds(data'[i.bucket], i.off, k)
      BY Zenon, <3>1, <3>2, HoldsAppend
    <3> QED
      BY Zenon, <3>2, <3>3 DEF in_file, holds, decodes
  <2> QED
    BY Zenon, <2>1, <2>2
<1> QED
  BY Zenon, <1>1, <1>2

\* bc_flush: from the write buffer to the flush buffer to the file.
LEMMA AtFlush ==
  ASSUME TypeOK, Locks, Files, NEW i \in Item, NEW k, at(i, k),
         NEW f \in Client \cup {Flusher}, FlushStep(f)
  PROVE  at(i, k)'
<1> USE DEF index, wbuf, fbuf, disk, threads, locals
<1>0. /\ i.bucket \in Nat /\ i.off \in Nat
      /\ write_buffer \in Seq(Block) /\ flush_buffer \in Seq(Block)
  BY Zenon DEF Item, TypeOK
<1>1. CASE FlushEnter(f) \/ FlushNothing(f)
  BY Zenon, <1>1 DEF FlushEnter, FlushNothing, at, in_wbuf, in_fbuf, in_file, holds, decodes
<1>2. CASE FlushBegin(f)
  <2>1. /\ flush_buffer = <<>> /\ flushing_bucket' = curr /\ fbuf_start_pos' = wbuf_start_pos
        /\ flush_buffer' = write_buffer /\ UNCHANGED data
    BY Zenon, <1>2 DEF FlushBegin, Locks
  <2>2. ~in_fbuf(i, k)
    BY Zenon, <1>0, <2>1, HoldsRange DEF in_fbuf
  <2>3. in_wbuf(i, k) => in_fbuf(i, k)'
    BY Zenon, <2>1 DEF in_wbuf, in_fbuf, holds, decodes
  <2>4. in_file(i, k) => in_file(i, k)'
    BY Zenon, <2>1, FileKept
  <2> QED
    BY Zenon, <2>2, <2>3, <2>4 DEF at
<1>3. CASE FlushWrite(f)
  <2>1. (in_wbuf(i, k) => in_wbuf(i, k)') /\ (in_fbuf(i, k) => in_fbuf(i, k)')
    BY Zenon, <1>3 DEF FlushWrite, in_wbuf, in_fbuf, holds, decodes
  <2> QED
    BY Zenon, <1>3, <2>1, FileKept DEF at
<1>4. CASE FlushEnd(f)
  <2> DEFINE b == flushing_bucket
             p == i.off - fbuf_start_pos
  <2>1. UNCHANGED <<curr, wbuf_start_pos, write_buffer, data>>
    BY Zenon, <1>4 DEF FlushEnd
  <2>2. in_wbuf(i, k) => in_wbuf(i, k)'
    BY Zenon, <2>1 DEF in_wbuf, holds, decodes
  <2>3. in_file(i, k) => in_file(i, k)'
    BY Zenon, <2>1, FileKept
  <2>4. ASSUME in_fbuf(i, k)
        PROVE  in_file(i, k)
    <3>1. /\ flush_lock # None /\ flushed
      BY Zenon, <1>4, ConstantsAssumption DEF FlushEnd
    <3>2. /\ b \in DOMAIN data
          /\ Len(data[b]) = fbuf_start_pos + Len(flush_buffer)
          /\ \A x \in 1 .. Len(flush_buffer) : data[b][fbuf_start_pos + x] = flush_buffer[x]
      BY Zenon, <3>1 DEF Files
    <3>3. holds(flush_buffer, p, k) /\ i.bucket = b /\ i.off >= fbuf_start_pos
      BY Zenon, <2>4 DEF in_fbuf
    <3>4. p \in 0 .. Len(flush_buffer) - 1 /\ Len(flush_buffer) \in Nat /\ fbuf_start_pos \in Nat
      BY Zenon, <1>0, <3>3, HoldsRange, NumberTypes
    <3>5. data[b][i.off + 1] = flush_buffer[p + 1]
      <4>1. p + 1 \in 1 .. Len(flush_buffer) /\ fbuf_start_pos + (p + 1) = i.off + 1
        BY SMTT(30), <1>0, <3>4
      <4> QED
        BY <3>2, <4>1
    <3>6. SizeOf[flush_buffer[p + 1].val] \in Nat
      <4>1. flush_buffer[p + 1] \in Block
        BY <1>0, <3>4, ElementOfSeq
      <4> QED
        BY Zenon, <4>1, ConstantsAssumption DEF Block
    <3>7. /\ flush_buffer[p + 1].ver # 0 /\ flush_buffer[p + 1].key = k
          /\ p + SizeOf[flush_buffer[p + 1].val] <= Len(flush_buffer)
      BY Zenon, <3>3 DEF holds, decodes
    <3>8. i.off \in 0 .. Len(data[b]) - 1
      BY <1>0, <3>2, <3>4
    <3>9. i.off + SizeOf[data[b][i.off + 1].val] <= Len(data[b])
      <4>1. data[b][i.off + 1].val = flush_buffer[p + 1].val
        BY Zenon, <3>5
      <4>2. PICK n \in Nat : n = SizeOf[flush_buffer[p + 1].val]
        BY Zenon, <3>6
      <4>3. \A o, s, l, m \in Nat : (o - s) + m <= l => o + m <= s + l
        OBVIOUS
      <4>4. p + n <= Len(flush_buffer)
        BY Zenon, <3>7, <4>2
      <4>5. i.off + n <= fbuf_start_pos + Len(flush_buffer)
        BY Zenon, <1>0, <3>4, <4>3, <4>4
      <4>6. SizeOf[data[b][i.off + 1].val] = n /\ Len(data[b]) = fbuf_start_pos + Len(flush_buffer)
        BY Zenon, <3>2, <4>1, <4>2
      <4> QED
        BY Zenon, <4>5, <4>6
    <3> QED
      BY Zenon, <3>2, <3>3, <3>5, <3>7, <3>8, <3>9 DEF in_file, holds, decodes
  <2> QED
    BY Zenon, <2>2, <2>3, <2>4 DEF at
<1> QED
  BY Zenon, <1>1, <1>2, <1>3, <1>4 DEF FlushStep

\* bc_set: appending keeps what the buffer holds; the buffer is empty when it
\* is reallocated or its bucket is rotated.
LEMMA AtSet ==
  ASSUME TypeOK, Locks, NEW i \in Item, NEW k, at(i, k), NEW t \in Client, SetStep(t)
  PROVE  at(i, k)'
<1> USE DEF index, wbuf, fbuf, disk, threads, locals
<1>0. i.off \in Nat /\ write_buffer \in Seq(Block) /\ wbuf_start_pos \in Nat
  BY Zenon, NumberTypes DEF Item, TypeOK
<1>1. UNCHANGED <<flush_buffer, fbuf_start_pos, flushing_bucket, data>>
  BY Zenon DEF SetStep, SetLookup, SetAppend, SetDouble, SetGrown, SetIndexCurr, SetIndexTree,
         SetRaise, SetUnlock
<1>2. (in_fbuf(i, k) => in_fbuf(i, k)') /\ (in_file(i, k) => in_file(i, k)')
  BY Zenon, <1>1 DEF in_fbuf, in_file, holds, decodes
<1>3. CASE write_buffer = <<>>
  <2>1. ~in_wbuf(i, k)
    BY Zenon, <1>0, <1>3, HoldsRange DEF in_wbuf
  <2> QED
    BY Zenon, <1>2, <2>1 DEF at
<1>4. CASE UNCHANGED <<curr, wbuf_start_pos, write_buffer>>
  BY Zenon, <1>2, <1>4 DEF at, in_wbuf, holds, decodes
<1>5. ASSUME SetAppend(t), append_record(t, curr, wbuf_start_pos)
      PROVE  at(i, k)'
  <2>1. UNCHANGED <<curr, wbuf_start_pos>>
    BY Zenon, <1>5 DEF SetAppend
  <2>2. PICK x \in Seq(Block) : write_buffer' = write_buffer \o x
    <3>1. arg[t].key \in Key /\ arg[t].val \in Value /\ arg[t].ver \in Int
      BY Zenon, <1>5 DEF SetAppend, TypeOK, Arg
    <3> QED
      BY Zenon, <1>5, <3>1, EncodeType DEF append_record
  <2>3. in_wbuf(i, k) => in_wbuf(i, k)'
    <3>1. SUFFICES ASSUME in_wbuf(i, k) PROVE in_wbuf(i, k)'
      OBVIOUS
    <3>2. holds(write_buffer, i.off - wbuf_start_pos, k) /\ i.off - wbuf_start_pos \in Int
      BY <1>0, <3>1 DEF in_wbuf
    <3>3. holds(write_buffer', i.off - wbuf_start_pos, k)
      BY Zenon, <1>0, <2>2, <3>2, HoldsAppend
    <3> QED
      BY Zenon, <2>1, <3>1, <3>3 DEF in_wbuf, holds, decodes
  <2> QED
    BY Zenon, <1>2, <2>3 DEF at
<1>6. CASE SetAppend(t)
  BY Zenon, <1>4, <1>5, <1>6 DEF SetAppend
<1>7. CASE SetDouble(t) \/ SetGrown(t)
  BY Zenon, <1>3, <1>7 DEF SetDouble, SetGrown, Locks
<1>8. CASE SetLookup(t) \/ SetIndexCurr(t) \/ SetIndexTree(t) \/ SetRaise(t) \/ SetUnlock(t)
  BY Zenon, <1>4, <1>8 DEF SetLookup, SetIndexCurr, SetIndexTree, SetRaise, SetUnlock
<1> QED
  BY Zenon, <1>6, <1>7, <1>8 DEF SetStep

LEMMA AtQuiet ==
  ASSUME NEW i, NEW k, at(i, k),
         UNCHANGED <<curr, write_buffer, wbuf_start_pos, flush_buffer, fbuf_start_pos,
                     flushing_bucket, data>>
  PROVE  at(i, k)'
BY Zenon DEF at, in_wbuf, in_fbuf, in_file, holds, decodes

\* A record that bc_set has just appended is in the write buffer.
LEMMA AtAppended ==
  ASSUME NoWrap, TypeOK, Locks, Buffers, NEW t \in Client, write_lock = t, arg[t].ver # 0,
         SetAppend(t) \/ SetGrown(t), curr' < MAX_BUCKET_COUNT, pc'[t] = "index_curr"
  PROVE  /\ at(item[t], arg[t].key)'
         /\ item'[t].bucket = curr' /\ item'[t].off = wbuf_start_pos' + Len(write_buffer)
         /\ item'[t].ver = arg[t].ver /\ item'[t].hash = hash_of(arg[t].val, arg[t].ver)
         /\ write_buffer' = write_buffer \o encode_record(arg[t].key, arg[t].val, arg[t].ver)
         /\ write_buffer'[Len(write_buffer) + 1] =
              [key |-> arg[t].key, ver |-> arg[t].ver, val |-> arg[t].val]
<1> USE DEF index, wbuf, fbuf, disk, threads, locals
<1> DEFINE enc == encode_record(arg[t].key, arg[t].val, arg[t].ver)
           o == Len(write_buffer)
<1>0. /\ wbuf_size \in Nat \ {0} /\ o \in Nat /\ wbuf_start_pos \in Nat /\ PosRange \in Nat
      /\ curr \in Nat /\ MAX_BUCKET_COUNT \in Nat
  BY Zenon, NumberTypes, ConstantsAssumption
<1>1. arg[t].key \in Key /\ arg[t].val \in Value /\ arg[t].ver \in Int /\ pc[t] # "idle"
  BY Zenon DEF SetAppend, SetGrown, TypeOK, Arg
<1>2. /\ enc \in Seq(Block) /\ Len(enc) = SizeOf[arg[t].val] /\ SizeOf[arg[t].val] \in Nat \ {0}
      /\ enc[1] = [key |-> arg[t].key, ver |-> arg[t].ver, val |-> arg[t].val]
  BY <1>1, EncodeType, ConstantsAssumption
<1>3. append_record(t, curr', wbuf_start_pos')
  <2>1. CASE SetAppend(t)
    <3>1. ~goto(t, "flush")
      BY Zenon DEF goto, TypeOK
    <3> QED
      BY Zenon, <2>1, <3>1 DEF SetAppend
  <2>2. CASE SetGrown(t)
    BY Zenon, <2>2 DEF SetGrown, bc_rotate
  <2> QED
    BY Zenon, <2>1, <2>2
<1>4. wbuf_start_pos' + o \in Nat /\ wbuf_start_pos' + o < PosRange /\ wbuf_start_pos' \in Nat /\ curr' \in Nat
  <2>1. wbuf_start_pos' = wbuf_start_pos \/ wbuf_start_pos' = 0
    BY Zenon DEF SetAppend, SetGrown, bc_rotate
  <2>2. wbuf_start_pos + o + wbuf_size < PosRange
    BY Zenon, <1>0, EndFits DEF Buffers, Locks
  <2>3. curr' = curr \/ curr' = curr + 1
    BY Zenon DEF SetAppend, SetGrown, bc_rotate
  <2> QED
    BY <1>0, <2>1, <2>2, <2>3
<1>5. u32(wbuf_start_pos' + o) = wbuf_start_pos' + o
  <2>1. PICK x \in Nat : x = wbuf_start_pos' + o /\ x < PosRange
    BY Zenon, <1>4
  <2> QED
    BY Zenon, <2>1, U32
<1>6. /\ item'[t].bucket = curr' /\ item'[t].off = wbuf_start_pos' + o
      /\ item'[t].ver = arg[t].ver /\ item'[t].hash = hash_of(arg[t].val, arg[t].ver)
  <2>1. item'[t] = new_item(curr', u32(wbuf_start_pos' + o), arg[t].val, arg[t].ver)
    BY Zenon, <1>3 DEF append_record, TypeOK
  <2>2. curr' % MAX_BUCKET_COUNT = curr'
    BY ZenonT(30), <1>0, <1>4, SmallMod
  <2>3. /\ item'[t].bucket = curr' % MAX_BUCKET_COUNT
        /\ item'[t].off = u32(wbuf_start_pos' + o)
        /\ item'[t].ver = arg[t].ver /\ item'[t].hash = hash_of(arg[t].val, arg[t].ver)
    BY <2>1 DEF new_item
  <2> QED
    BY Zenon, <1>5, <2>2, <2>3
<1>7. write_buffer' = write_buffer \o enc /\ write_buffer \in Seq(Block)
  BY Zenon, <1>3 DEF append_record, TypeOK
<1>8. Len(write_buffer') = o + Len(enc) /\ write_buffer'[o + 1] = enc[1]
  <2>1. o + 1 \in 1 .. o + Len(enc)
    BY SMTT(30), <1>0, <1>2
  <2>2. (write_buffer \o enc)[o + 1] = enc[o + 1 - o]
    <3>1. ~(o + 1 <= Len(write_buffer)) /\ Len(write_buffer) = o
      BY <1>0
    <3>2. PICK y \in Seq(Block) : y = enc
      BY Zenon, <1>2
    <3>3. \A x \in 1 .. Len(write_buffer) + Len(y) : (write_buffer \o y)[x] =
            IF x <= Len(write_buffer) THEN write_buffer[x] ELSE y[x - Len(write_buffer)]
      BY Zenon, <1>7, BlockConcat
    <3> QED
      BY <2>1, <3>1, <3>2, <3>3
  <2>3. o + 1 - o = 1
    BY <1>0
  <2> QED
    BY ZenonT(30), <1>2, <1>7, <2>2, <2>3, BlockConcat
<1>9. holds(write_buffer', o, arg[t].key)
  <2>1. /\ o \in 0 .. Len(write_buffer') - 1
        /\ o + SizeOf[arg[t].val] <= Len(write_buffer')
    BY SMTT(30), <1>0, <1>2, <1>8
  <2>2. /\ write_buffer'[o + 1].ver = arg[t].ver /\ write_buffer'[o + 1].key = arg[t].key
        /\ write_buffer'[o + 1].val = arg[t].val
    BY <1>2, <1>8
  <2> QED
    BY Zenon, <2>1, <2>2 DEF holds, decodes
<1>10. item'[t].off - wbuf_start_pos' = o /\ item'[t].off >= wbuf_start_pos' /\ UNCHANGED arg
  <2>1. UNCHANGED arg
    BY Zenon DEF SetAppend, SetGrown
  <2> QED
    BY <1>0, <1>4, <1>6, <2>1
<1>11. at(item[t], arg[t].key)'
  BY Zenon, <1>6, <1>9, <1>10 DEF at, in_wbuf, holds, decodes
<1> QED
  BY Zenon, <1>2, <1>6, <1>7, <1>8, <1>11

\* The tests of bc_get send it to the place where the record is.
LEMMA WhereItIs ==
  ASSUME TypeOK, Locks, Files, NEW i \in Item, NEW k, at(i, k)
  PROVE  /\ i.bucket <= curr
         /\ LET w == i.bucket = curr /\ i.off >= wbuf_start_pos
                f == i.bucket = flushing_bucket /\ i.off >= fbuf_start_pos
            IN /\ w => in_wbuf(i, k)
               /\ ~w /\ f => in_fbuf(i, k)
               /\ ~w /\ ~f => in_file(i, k)
<1>0. /\ i.bucket \in Nat /\ i.off \in Nat /\ curr \in Nat
      /\ wbuf_start_pos \in Nat /\ fbuf_start_pos \in Nat /\ flushing_bucket \in Int
      /\ write_buffer \in Seq(Block) /\ flush_buffer \in Seq(Block)
      /\ Len(flush_buffer) \in Nat
  BY Zenon, NumberTypes DEF Item, TypeOK
<1>a. flush_lock = None => flushing_bucket = -1
  BY Zenon DEF TypeOK, NoBucket
<1>1. in_fbuf(i, k) => /\ i.bucket = flushing_bucket /\ flush_buffer # <<>>
                       /\ i.off >= fbuf_start_pos /\ i.off < fbuf_start_pos + Len(flush_buffer)
  <2>1. SUFFICES ASSUME in_fbuf(i, k)
                 PROVE  flush_buffer # <<>> /\ i.off < fbuf_start_pos + Len(flush_buffer)
    BY Zenon DEF in_fbuf
  <2>2. i.off - fbuf_start_pos \in 0 .. Len(flush_buffer) - 1 /\ flush_buffer # <<>>
    BY Zenon, <1>0, <2>1, HoldsRange DEF in_fbuf
  <2> QED
    BY <1>0, <2>2
<1>2. in_file(i, k) => i.bucket \in DOMAIN data /\ i.off < file_size(i.bucket)
  <2>1. SUFFICES ASSUME in_file(i, k) PROVE i.bucket \in DOMAIN data /\ i.off < Len(data[i.bucket])
    BY Zenon DEF file_size, file
  <2>2. i.bucket \in DOMAIN data /\ data[i.bucket] \in Seq(Block)
    BY Zenon, <2>1 DEF in_file, TypeOK
  <2> QED
    BY <1>0, <2>1, <2>2, HoldsRange DEF in_file
<1>3. i.bucket <= curr
  BY <1>0, <1>1, <1>2 DEF at, in_wbuf, Files
<1>4. ASSUME i.bucket = curr, i.off >= wbuf_start_pos
      PROVE  in_wbuf(i, k)
  <2>1. CASE flushing_bucket = curr
    <3>1. flush_lock # None /\ wbuf_start_pos = fbuf_start_pos + Len(flush_buffer)
      BY <1>0, <1>a, <2>1 DEF Files
    <3>2. file_size(curr) <= wbuf_start_pos
      BY <1>0, <2>1, <3>1 DEF Files, file_size, file
    <3>3. file_size(curr) \in Nat
      BY Zenon, NumberTypes
    <3> QED
      BY SMTT(30), <1>0, <1>1, <1>2, <1>4, <3>1, <3>2, <3>3 DEF at
  <2>2. CASE flushing_bucket # curr
    <3>1. wbuf_start_pos = file_size(curr)
      BY Zenon, <2>2 DEF Files
    <3> QED
      BY <1>0, <1>1, <1>2, <1>4, <2>2, <3>1 DEF at
  <2> QED
    BY Zenon, <2>1, <2>2
<1>5. ASSUME ~(i.bucket = curr /\ i.off >= wbuf_start_pos),
             i.bucket = flushing_bucket, i.off >= fbuf_start_pos
      PROVE  in_fbuf(i, k)
  <2> DEFINE b == flushing_bucket
             p == i.off - fbuf_start_pos
  <2>1. SUFFICES ASSUME in_file(i, k) PROVE in_fbuf(i, k)
    BY Zenon, <1>5 DEF at, in_wbuf
  <2>2. flush_lock # None /\ file_size(b) \in Nat
    BY <1>0, <1>a, <1>5, NumberTypes
  <2>3. flushed
    BY <1>0, <1>2, <1>5, <2>1, <2>2 DEF Files
  <2>4. /\ b \in DOMAIN data
        /\ Len(data[b]) = fbuf_start_pos + Len(flush_buffer)
        /\ \A x \in 1 .. Len(flush_buffer) : data[b][fbuf_start_pos + x] = flush_buffer[x]
    BY Zenon, <2>2, <2>3 DEF Files
  <2>5. /\ holds(data[b], i.off, k) /\ data[b] \in Seq(Block)
    BY Zenon, <1>5, <2>1 DEF in_file, TypeOK
  <2>6. i.off \in 0 .. Len(data[b]) - 1
    BY Zenon, <2>5, HoldsRange
  <2>7. p \in 0 .. Len(flush_buffer) - 1
    BY SMTT(30), <1>0, <1>5, <2>4, <2>6
  <2>8. data[b][i.off + 1] = flush_buffer[p + 1]
    <3>1. p + 1 \in 1 .. Len(flush_buffer) /\ fbuf_start_pos + (p + 1) = i.off + 1
      BY SMTT(30), <1>0, <2>7
    <3> QED
      BY <2>4, <3>1
  <2>9. SizeOf[flush_buffer[p + 1].val] \in Nat
    <3>1. flush_buffer[p + 1] \in Block
      BY SMTT(30), <1>0, <2>7, ElementOfSeq
    <3> QED
      BY Zenon, <3>1, ConstantsAssumption DEF Block
  <2>10. /\ flush_buffer[p + 1].ver # 0 /\ flush_buffer[p + 1].key = k
         /\ i.off + SizeOf[flush_buffer[p + 1].val] <= Len(data[b])
    BY Zenon, <2>5, <2>8 DEF holds, decodes
  <2>11. p + SizeOf[flush_buffer[p + 1].val] <= Len(flush_buffer)
    BY SMTT(30), <1>0, <2>4, <2>9, <2>10
  <2> QED
    BY Zenon, <1>5, <2>7, <2>10, <2>11 DEF in_fbuf, holds, decodes
<1> QED
  BY Zenon, <1>3, <1>4, <1>5 DEF at, in_wbuf, in_fbuf

----------------------------------------------------------------------------
(***************************************************************************)
(* The records in the log: where they are, and who adds to them.           *)
(***************************************************************************)
\* The first blocks of s \o x are those of s and those of x.
LEMMA StartsConcat ==
  ASSUME NEW b, NEW start \in Nat, NEW s \in Seq(Block), NEW x \in Seq(Block)
  PROVE  starts_in(b, start, s \o x) \subseteq
           starts_in(b, start, s) \cup starts_in(b, start + Len(s), x)
<1>1. /\ s \o x \in Seq(Block) /\ Len(s \o x) = Len(s) + Len(x) /\ Len(s) \in Nat /\ Len(x) \in Nat
      /\ \A n \in 1 .. Len(s) + Len(x) : (s \o x)[n] = IF n <= Len(s) THEN s[n] ELSE x[n - Len(s)]
  BY Zenon, BlockConcat
<1>2. DOMAIN s = 1 .. Len(s) /\ DOMAIN x = 1 .. Len(x) /\ DOMAIN (s \o x) = 1 .. Len(s) + Len(x)
  BY Zenon, <1>1, LenProperties
<1> SUFFICES ASSUME NEW n \in DOMAIN (s \o x), (s \o x)[n].ver # 0
             PROVE  [bucket |-> b, off |-> start + n - 1, rec |-> (s \o x)[n]] \in
                      starts_in(b, start, s) \cup starts_in(b, start + Len(s), x)
  BY Zenon DEF starts_in
<1>3. n \in 1 .. Len(s) + Len(x) /\ n \in Nat
  BY <1>1, <1>2
<1>4. CASE n <= Len(s)
  <2>1. n \in 1 .. Len(s) /\ (s \o x)[n] = s[n]
    BY <1>1, <1>3, <1>4
  <2> QED
    BY Zenon, <1>2, <2>1 DEF starts_in
<1>5. CASE n > Len(s)
  <2>1. PICK m \in 1 .. Len(x) : m = n - Len(s) /\ start + Len(s) + m - 1 = start + n - 1
    BY <1>1, <1>3, <1>5
  <2>2. (s \o x)[n] = x[m]
    BY <1>1, <1>3, <1>5, <2>1
  <2> QED
    BY Zenon, <1>2, <2>1, <2>2 DEF starts_in
<1> QED
  BY SMTT(30), <1>1, <1>3, <1>4, <1>5

\* A record has one first block.
LEMMA StartsRecord ==
  ASSUME NEW b, NEW start \in Nat, NEW k \in Key, NEW v \in Value, NEW ver \in Int
  PROVE  starts_in(b, start, encode_record(k, v, ver)) \subseteq
           {[bucket |-> b, off |-> start, rec |-> [key |-> k, ver |-> ver, val |-> v]]}
<1> DEFINE e == encode_record(k, v, ver)
<1>1. DOMAIN e = 1 .. SizeOf[v] /\ SizeOf[v] \in Nat
  BY ConstantsAssumption DEF encode_record
<1> SUFFICES ASSUME NEW n \in DOMAIN e, e[n].ver # 0
             PROVE  /\ start + n - 1 = start
                    /\ e[n] = [key |-> k, ver |-> ver, val |-> v]
  BY Zenon DEF starts_in
<1>2. n = 1
  BY <1>1 DEF encode_record
<1> QED
  BY <1>1, <1>2 DEF encode_record

LEMMA StartsEmpty ==
  ASSUME NEW b, NEW start
  PROVE  starts_in(b, start, <<>>) = {}
<1>1. DOMAIN <<>> = {}
  OBVIOUS
<1> QED
  BY Zenon, <1>1 DEF starts_in

\* Where the blocks of one buffer or file are.
LEMMA StartsRange ==
  ASSUME NEW b, NEW start \in Nat, NEW s \in Seq(Block), NEW p \in starts_in(b, start, s)
  PROVE  /\ p.bucket = b /\ p.off \in Nat /\ p.off < start + Len(s) /\ p.rec \in Block
         /\ Len(s) \in Nat /\ Len(s) > 0
<1>1. PICK n \in DOMAIN s : p = [bucket |-> b, off |-> start + n - 1, rec |-> s[n]]
  BY Zenon DEF starts_in
<1>2. DOMAIN s = 1 .. Len(s) /\ Len(s) \in Nat /\ s[n] \in Block
  BY Zenon, LenProperties, ElementOfSeq
<1>3. p.bucket = b /\ p.off = start + n - 1 /\ p.rec = s[n]
  BY Zenon, <1>1
<1> QED
  BY <1>2, <1>3

\* No record is beyond the end of the write buffer.
LEMMA StartsBelow ==
  ASSUME TypeOK, Locks, Files, NEW p \in starts
  PROVE  /\ p.bucket \in Nat /\ p.off \in Nat /\ p.rec \in Block /\ p.bucket <= curr
         /\ p.bucket = curr => p.off < wbuf_start_pos + Len(write_buffer)
<1>0. /\ curr \in Nat /\ wbuf_start_pos \in Nat /\ fbuf_start_pos \in Nat
      /\ Len(write_buffer) \in Nat /\ write_buffer \in Seq(Block)
      /\ Len(flush_buffer) \in Nat /\ flush_buffer \in Seq(Block)
      /\ \A x \in DOMAIN data : Len(data[x]) \in Nat /\ data[x] \in Seq(Block)
  BY Zenon, NumberTypes DEF TypeOK
<1>1. CASE p \in starts_in(curr, wbuf_start_pos, write_buffer)
  BY <1>0, <1>1, StartsRange
<1>2. CASE p \in starts_in(flushing_bucket, fbuf_start_pos, flush_buffer)
  <2>1. /\ p.bucket = flushing_bucket /\ p.off \in Nat /\ p.off < fbuf_start_pos + Len(flush_buffer)
        /\ p.rec \in Block /\ Len(flush_buffer) > 0
    BY Zenon, <1>0, <1>2, StartsRange
  <2>2. flush_buffer # <<>>
    BY <2>1
  <2>3. flush_lock # None /\ flushing_bucket \in Nat
    BY ZenonT(30), <2>2 DEF Locks, TypeOK
  <2>4. /\ flushing_bucket <= curr
        /\ flushing_bucket = curr => wbuf_start_pos = fbuf_start_pos + Len(flush_buffer)
    BY Zenon DEF Files
  <2> QED
    BY <1>0, <2>1, <2>3, <2>4
<1>3. ASSUME NEW b \in DOMAIN data, p \in starts_in(b, 0, data[b])
      PROVE  /\ p.bucket \in Nat /\ p.off \in Nat /\ p.rec \in Block /\ p.bucket <= curr
             /\ p.bucket = curr => p.off < wbuf_start_pos + Len(write_buffer)
  <2>0. 0 \in Nat
    OBVIOUS
  <2>1. p.bucket = b /\ p.off \in Nat /\ p.off < 0 + Len(data[b]) /\ p.rec \in Block
    BY Zenon, <1>0, <1>3, <2>0, StartsRange
  <2>2. b \in Nat /\ b <= curr
    <3>1. b \in Bucket /\ b <= curr
      BY Zenon DEF TypeOK, Files
    <3> QED
      BY <3>1, ConstantsAssumption DEF Bucket
  <2>3. file_size(b) = Len(data[b])
    BY Zenon DEF file_size, file
  <2>4. flushing_bucket = b => flush_lock # None
    <3>1. flush_lock = None => flushing_bucket = -1
      BY Zenon DEF TypeOK, NoBucket
    <3> QED
      BY <2>2, <3>1
  <2>5. b = curr => Len(data[b]) <= wbuf_start_pos
    <3>1. CASE flushing_bucket = b /\ flushed
      <4>1. Len(data[b]) = fbuf_start_pos + Len(flush_buffer)
        BY Zenon, <2>4, <3>1 DEF Files
      <4>2. b = curr => wbuf_start_pos = fbuf_start_pos + Len(flush_buffer)
        BY Zenon, <3>1 DEF Files
      <4> QED
        BY <1>0, <4>1, <4>2
    <3>2. CASE flushing_bucket = b /\ ~flushed
      <4>1. Len(data[b]) = fbuf_start_pos
        BY Zenon, <2>3, <2>4, <3>2 DEF Files
      <4>2. b = curr => wbuf_start_pos = fbuf_start_pos + Len(flush_buffer)
        BY Zenon, <3>2 DEF Files
      <4> QED
        BY <1>0, <4>1, <4>2
    <3>3. CASE flushing_bucket # b
      <4>1. b = curr => wbuf_start_pos = Len(data[b])
        BY Zenon, <2>3, <3>3 DEF Files
      <4> QED
        BY <1>0, <4>1
    <3> QED
      BY Zenon, <3>1, <3>2, <3>3
  <2> QED
    BY <1>0, <2>1, <2>2, <2>5
<1> QED
  BY Zenon, <1>1, <1>2, <1>3 DEF starts

LEMMA StartsParts ==
  /\ starts_in(curr, wbuf_start_pos, write_buffer) \subseteq starts
  /\ starts_in(flushing_bucket, fbuf_start_pos, flush_buffer) \subseteq starts
  /\ \A b \in DOMAIN data : starts_in(b, 0, data[b]) \subseteq starts
BY Zenon DEF starts

LEMMA StartsNext ==
  ASSUME NEW S, starts_in(curr', wbuf_start_pos', write_buffer') \subseteq S,
         starts_in(flushing_bucket', fbuf_start_pos', flush_buffer') \subseteq S,
         \A b \in DOMAIN data' : starts_in(b, 0, data'[b]) \subseteq S
  PROVE  starts' \subseteq S
<1>1. starts' = starts_in(curr', wbuf_start_pos', write_buffer')
                 \cup starts_in(flushing_bucket', fbuf_start_pos', flush_buffer')
                 \cup UNION {starts_in(b, 0, data'[b]) : b \in DOMAIN data'}
  BY Zenon DEF starts, starts_in
<1> QED
  BY Zenon, <1>1

Quiet == UNCHANGED <<curr, write_buffer, wbuf_start_pos, flush_buffer, fbuf_start_pos,
                     flushing_bucket, data>>

LEMMA StartsQuiet ==
  ASSUME Quiet
  PROVE  starts' \subseteq starts
BY Zenon, StartsParts, StartsNext DEF Quiet

\* A flush moves records and adds none.
LEMMA StartsFlush ==
  ASSUME TypeOK, Locks, Files, NEW f \in Client \cup {Flusher}, FlushStep(f)
  PROVE  starts' \subseteq starts
<1> USE DEF index, wbuf, fbuf, disk, threads, locals
<1>1. CASE FlushEnter(f) \/ FlushNothing(f)
  BY Zenon, StartsQuiet, <1>1 DEF FlushEnter, FlushNothing, Quiet
<1>2. CASE FlushBegin(f)
  <2>1. /\ write_buffer' = <<>> /\ flush_buffer' = write_buffer /\ flushing_bucket' = curr
        /\ fbuf_start_pos' = wbuf_start_pos /\ data' = data
    BY Zenon, <1>2 DEF FlushBegin
  <2>2. starts_in(curr', wbuf_start_pos', write_buffer') = {}
    BY Zenon, <2>1, StartsEmpty
  <2>3. starts_in(flushing_bucket', fbuf_start_pos', flush_buffer') =
          starts_in(curr, wbuf_start_pos, write_buffer)
    BY Zenon, <2>1
  <2> QED
    BY Zenon, StartsNext, StartsParts, <2>1, <2>2, <2>3
<1>3. CASE FlushWrite(f)
  <2>0. UNCHANGED <<curr, write_buffer, wbuf_start_pos, flush_buffer, fbuf_start_pos, flushing_bucket>>
    BY Zenon, <1>3 DEF FlushWrite
  <2>1. CASE flushing_bucket \notin Bucket
    BY Zenon, StartsQuiet, <1>3, <2>0, <2>1 DEF FlushWrite, Quiet
  <2>2. CASE flushing_bucket \in Bucket
    <3> DEFINE b == flushing_bucket
    <3>1. /\ DOMAIN data' = DOMAIN data \cup {b}
          /\ \A x \in DOMAIN data : x # b => data'[x] = data[x]
          /\ data'[b] = file(b) \o flush_buffer
      BY Zenon, <1>3, <2>2, FlushWriteData
    <3>2. flush_lock # None /\ ~flushed
      BY Zenon, <1>3, ConstantsAssumption DEF FlushWrite
    <3>3. /\ fbuf_start_pos = Len(file(b)) /\ file(b) \in Seq(Block) /\ flush_buffer \in Seq(Block)
          /\ Len(file(b)) \in Nat /\ 0 \in Nat
      BY ZenonT(30), <3>2, NumberTypes DEF Files, file_size, TypeOK
    <3>4. starts_in(b, 0, data'[b]) \subseteq
            starts_in(b, 0, file(b)) \cup starts_in(b, fbuf_start_pos, flush_buffer)
      <4>1. 0 + Len(file(b)) = fbuf_start_pos
        BY <3>3
      <4> QED
        BY Zenon, <3>1, <3>3, <4>1, StartsConcat
    <3>5. starts_in(b, 0, file(b)) \subseteq starts
      <4>1. CASE b \in DOMAIN data
        BY Zenon, <4>1 DEF file, starts
      <4>2. CASE b \notin DOMAIN data
        BY Zenon, <4>2, StartsEmpty DEF file
      <4> QED
        BY Zenon, <4>1, <4>2
    <3>6. starts_in(b, 0, data'[b]) \subseteq starts
      BY Zenon, <3>4, <3>5 DEF starts
    <3>7. \A x \in DOMAIN data' : starts_in(x, 0, data'[x]) \subseteq starts
      BY Zenon, <3>1, <3>6 DEF starts
    <3>8. /\ starts_in(curr', wbuf_start_pos', write_buffer') \subseteq starts
          /\ starts_in(flushing_bucket', fbuf_start_pos', flush_buffer') \subseteq starts
      BY Zenon, <2>0 DEF starts
    <3> QED
      BY Zenon, StartsNext, <3>7, <3>8
  <2> QED
    BY Zenon, <2>1, <2>2
<1>4. CASE FlushEnd(f)
  <2>1. flush_buffer' = <<>> /\ UNCHANGED <<curr, write_buffer, wbuf_start_pos, data>>
    BY Zenon, <1>4 DEF FlushEnd
  <2>2. starts_in(flushing_bucket', fbuf_start_pos', flush_buffer') = {}
    BY Zenon, <2>1, StartsEmpty
  <2> QED
    BY Zenon, StartsNext, StartsParts, <2>1, <2>2
<1> QED
  BY Zenon, <1>1, <1>2, <1>3, <1>4 DEF FlushStep

LEMMA StartsSet ==
  ASSUME TypeOK, NEW t \in Client, SetStep(t)
  PROVE  \/ starts' \subseteq starts
         \/ (SetAppend(t) \/ SetGrown(t)) /\ pc'[t] = "index_curr"
<1> USE DEF index, wbuf, fbuf, disk, threads, locals
<1>1. CASE SetLookup(t) \/ SetIndexCurr(t) \/ SetIndexTree(t) \/ SetRaise(t) \/ SetUnlock(t)
  BY Zenon, StartsQuiet, <1>1 DEF SetLookup, SetIndexCurr, SetIndexTree, SetRaise, SetUnlock, Quiet
<1>2. CASE SetDouble(t)
  <2>1. write_buffer' = <<>> /\ UNCHANGED <<fbuf, data>>
    BY Zenon, <1>2 DEF SetDouble
  <2>2. starts_in(curr', wbuf_start_pos', write_buffer') = {}
    BY Zenon, <2>1, StartsEmpty
  <2> QED
    BY Zenon, StartsNext, StartsParts, <2>1, <2>2
<1>3. CASE SetAppend(t) /\ goto(t, "flush") /\ UNCHANGED <<write_buffer, item>>
  BY Zenon, StartsQuiet, <1>3 DEF SetAppend, Quiet
<1>4. CASE (SetAppend(t) \/ SetGrown(t)) /\ goto(t, "index_curr")
  BY Zenon, <1>4 DEF goto, TypeOK
<1> QED
  BY ZenonT(30), <1>1, <1>2, <1>3, <1>4 DEF SetStep, SetAppend, SetGrown, append_record

\* The record that bc_set is about to append, or has just appended.
appended(t) ==
  [bucket |-> item[t].bucket, off |-> item[t].off,
   rec |-> [key |-> arg[t].key, ver |-> arg[t].ver, val |-> arg[t].val]]

\* bc_set adds one record at the end, and its next step is to index it.
LEMMA StartsAppend ==
  ASSUME NoWrap, TypeOK, Locks, Buffers, Files, NEW t \in Client, SetAppend(t) \/ SetGrown(t),
         reads_ok(t), curr' < MAX_BUCKET_COUNT, pc'[t] = "index_curr"
  PROVE  /\ starts' \subseteq starts \cup {appended(t)'}
         /\ item'[t].hash = hash_of(arg[t].val, arg[t].ver) /\ item'[t].ver = arg[t].ver
         /\ \A p \in starts : before(p, item'[t])
<1> USE DEF index, wbuf, fbuf, disk, threads, locals
<1>0. /\ pc[t] \in {"append", "grow"} /\ UNCHANGED <<tree, arg, write_lock, fbuf, data>>
      /\ pc[t] # "idle"
  BY Zenon DEF SetAppend, SetGrown
<1>w. write_lock = t /\ arg[t].ver # 0
  BY Zenon, <1>0 DEF Locks, SetLabel, reads_ok
<1>1. /\ item'[t].bucket = curr' /\ item'[t].off = wbuf_start_pos' + Len(write_buffer)
      /\ item'[t].ver = arg[t].ver /\ item'[t].hash = hash_of(arg[t].val, arg[t].ver)
      /\ write_buffer' = write_buffer \o encode_record(arg[t].key, arg[t].val, arg[t].ver)
  BY Zenon, <1>w, AtAppended
<1>2. /\ arg[t].key \in Key /\ arg[t].val \in Value /\ arg[t].ver \in Int /\ write_buffer \in Seq(Block)
      /\ wbuf_start_pos \in Nat /\ Len(write_buffer) \in Nat /\ curr \in Nat
  BY ZenonT(30), <1>0, NumberTypes DEF TypeOK, Arg
<1>3. \/ curr' = curr /\ wbuf_start_pos' = wbuf_start_pos
      \/ curr' = curr + 1 /\ wbuf_start_pos' = 0 /\ write_buffer = <<>>
  BY Zenon DEF SetAppend, SetGrown, bc_rotate, Locks
<1>4. wbuf_start_pos' \in Nat /\ wbuf_start_pos' + Len(write_buffer) \in Nat
  BY <1>2, <1>3
<1>5. starts_in(curr', wbuf_start_pos', write_buffer) \subseteq starts
  BY Zenon, <1>3, StartsEmpty, StartsParts
<1>6. starts_in(curr', wbuf_start_pos', write_buffer') \subseteq starts \cup {appended(t)'}
  <2> DEFINE e == encode_record(arg[t].key, arg[t].val, arg[t].ver)
  <2>1. e \in Seq(Block)
    BY Zenon, <1>2, EncodeType
  <2>2. starts_in(curr', wbuf_start_pos', write_buffer') \subseteq
          starts_in(curr', wbuf_start_pos', write_buffer)
            \cup starts_in(curr', wbuf_start_pos' + Len(write_buffer), e)
    BY Zenon, <1>1, <1>2, <1>4, <2>1, StartsConcat
  <2>3. starts_in(curr', wbuf_start_pos' + Len(write_buffer), e) \subseteq {appended(t)'}
    <3>1. appended(t)' = [bucket |-> curr', off |-> wbuf_start_pos' + Len(write_buffer),
                          rec |-> [key |-> arg[t].key, ver |-> arg[t].ver, val |-> arg[t].val]]
      BY Zenon, <1>0, <1>1 DEF appended
    <3>2. \A k \in Key, v \in Value, ver \in Int, m \in Nat :
            starts_in(curr', m, encode_record(k, v, ver)) \subseteq
              {[bucket |-> curr', off |-> m, rec |-> [key |-> k, ver |-> ver, val |-> v]]}
      BY Zenon, StartsRecord
    <3>3. starts_in(curr', wbuf_start_pos' + Len(write_buffer), e) \subseteq
            {[bucket |-> curr', off |-> wbuf_start_pos' + Len(write_buffer),
              rec |-> [key |-> arg[t].key, ver |-> arg[t].ver, val |-> arg[t].val]]}
      BY Zenon, <1>2, <1>4, <3>2
    <3> QED
      BY Zenon, <3>1, <3>3
  <2> QED
    BY Zenon, <1>5, <2>2, <2>3
<1>7. starts' \subseteq starts \cup {appended(t)'}
  BY Zenon, StartsNext, StartsParts, <1>0, <1>6
<1>8. ASSUME NEW p \in starts
      PROVE  before(p, item'[t])
  <2>1. /\ p.bucket \in Nat /\ p.off \in Nat /\ p.bucket <= curr
        /\ p.bucket = curr => p.off < wbuf_start_pos + Len(write_buffer)
    BY Zenon, StartsBelow
  <2>2. \/ p.bucket < curr'
        \/ p.bucket = curr' /\ p.off < wbuf_start_pos' + Len(write_buffer)
    BY <1>2, <1>3, <2>1
  <2> QED
    BY Zenon, <1>1, <2>2 DEF before
<1> QED
  BY Zenon, <1>1, <1>7, <1>8

\* A version that bc_set raises a live item to is positive and beyond the old one.
LEMMA RaisedVersion ==
  ASSUME NEW n \in CInt, NEW o \in Int, o > 0, n # 0, NewVersion(n, o) # 0
  PROVE  /\ n < 0 => NewVersion(n, o) < 0
         /\ n > 0 => NewVersion(n, o) = n /\ Abs(n) > Abs(o)
<1>1. IntMax \in Nat \ {0} /\ n \in Int /\ n >= -IntMax - 1 /\ n <= IntMax
  BY IntMaxAssumption DEF CInt, IntMin
<1>2. ~Refused(n, o)
  <2>1. Refused(n, o) => /\ ~(n = 0 /\ o > 0) /\ ~(n = 0 /\ o <= 0) /\ ~(n = -1 /\ o > 0)
    <3>1. n = -1 => ~Refused(n, o)
      BY DEF Refused
    <3> QED
      BY Zenon, <3>1
  <2> QED
    BY Zenon, <2>1 DEF NewVersion
<1>3. CASE n = -1
  <2>1. NewVersion(n, o) = -o - 1
    BY <1>1, <1>2, <1>3 DEF NewVersion, Abs
  <2> QED
    BY <1>3, <2>1
<1>4. CASE n \notin {0, -1}
  <2>1. NewVersion(n, o) = n
    BY Zenon, <1>2, <1>4 DEF NewVersion
  <2>2. ~(Abs(n) <= Abs(o))
    BY Zenon, <1>2, <1>4 DEF Refused
  <2>3. Abs(n) \in Int /\ Abs(o) \in Int
    BY <1>1 DEF Abs, Wrap
  <2> QED
    BY <1>1, <2>1, <2>2, <2>3
<1> QED
  BY <1>3, <1>4

LEMMA AbsInt ==
  ASSUME NEW x \in Int
  PROVE  Abs(x) \in Int
BY IntMaxAssumption DEF Abs, Wrap

----------------------------------------------------------------------------
(***************************************************************************)
(* The threads that have no part in a step.                                *)
(***************************************************************************)
\* A thread that has no part in a step, but for the end of its own bc_flush.
Stays(u) ==
  /\ pc'[u] = pc[u] \/ (pc[u] = "flush" /\ pc'[u] = "grow")
  /\ item'[u] = item[u] /\ arg'[u] = arg[u] /\ it'[u] = it[u] /\ ret'[u] = ret[u]
  /\ write_lock' = u <=> write_lock = u

Begin(t) == \E k \in Key : GetBegin(t, k) \/ \E v \in Value, n \in VersionArg : SetBegin(t, k, v, n)

LEMMA SetOthers ==
  ASSUME TypeOK, Locks, NEW t \in Client, SetStep(t), NEW u \in Client \ {t}
  PROVE  Stays(u) /\ (~SetIndexTree(t) => UNCHANGED tree)
<1> USE DEF index, wbuf, fbuf, disk, threads, locals
<1>t. pc \in [Client -> Label] /\ None # u
  BY Zenon, ConstantsAssumption DEF TypeOK
<1>w. write_lock = t
  <2>1. pc[t] \in SetLabel
    BY Zenon DEF SetStep, SetLookup, SetAppend, SetDouble, SetGrown, SetIndexCurr, SetIndexTree,
           SetRaise, SetUnlock, SetLabel
  <2> QED
    BY Zenon, <2>1 DEF Locks
<1>1. CASE SetLookup(t)
  BY ZenonT(30), <1>t, <1>w, <1>1 DEF SetLookup, ht_lookup, get_returns, goto, Stays, TypeOK
<1>2. CASE SetAppend(t) \/ SetDouble(t)
  BY ZenonT(30), <1>t, <1>w, <1>2 DEF SetAppend, SetDouble, append_record, goto, Stays, TypeOK
<1>3. CASE SetGrown(t)
  BY ZenonT(30), <1>t, <1>w, <1>3 DEF SetGrown, append_record, goto, Stays, TypeOK
<1>4. CASE SetIndexCurr(t) \/ SetRaise(t)
  BY ZenonT(30), <1>t, <1>w, <1>4 DEF SetIndexCurr, SetRaise, goto, Stays, TypeOK
<1>5. CASE SetIndexTree(t) \/ SetUnlock(t)
  BY ZenonT(30), <1>t, <1>w, <1>5 DEF SetIndexTree, SetUnlock, finish, goto, Stays, TypeOK
<1> QED
  BY ZenonT(30), <1>1, <1>2, <1>3, <1>4, <1>5 DEF SetStep

LEMMA GetOthers ==
  ASSUME TypeOK, Locks, Reads, NEW t \in Client, GetStep(t) \/ Begin(t)
  PROVE  /\ UNCHANGED tree /\ Quiet
         /\ \A u \in Client \ {t} : Stays(u)
<1> USE DEF index, wbuf, fbuf, disk, threads, locals
<1>t. /\ pc \in [Client -> Label] /\ arg \in [Client -> Arg] /\ None \notin Client
      /\ it \in [Client -> Item] /\ item \in [Client -> Item] /\ ret \in [Client -> [ver : Int, val : Value]]
  BY Zenon, ConstantsAssumption DEF TypeOK
<1>1. ASSUME NEW k \in Key, GetBegin(t, k)
      PROVE  /\ UNCHANGED tree /\ Quiet
             /\ \A u \in Client \ {t} : Stays(u)
  BY Zenon, <1>t, <1>1 DEF GetBegin, ht_lookup, get_returns, goto, Stays, Quiet
<1>2. ASSUME NEW k \in Key, NEW v \in Value, NEW n \in VersionArg, SetBegin(t, k, v, n)
      PROVE  /\ UNCHANGED tree /\ Quiet
             /\ \A u \in Client \ {t} : Stays(u)
  BY Zenon, <1>t, <1>2 DEF SetBegin, goto, Stays, Quiet
<1>3. CASE GetStep(t)
  <2>1. /\ UNCHANGED <<curr, wbuf, fbuf, disk, write_lock>> /\ UNCHANGED tree
        /\ \A u \in Client \ {t} : /\ pc'[u] = pc[u] /\ item'[u] = item[u]
                                   /\ arg'[u] = arg[u] /\ it'[u] = it[u]
    BY Zenon, <1>3, GetFrame DEF Reads, reads_ok
  <2>2. \A u \in Client \ {t} : ret'[u] = ret[u]
    BY ZenonT(30), <1>t, <1>3 DEF GetStep, CheckCurr, CheckFlushing, ReadBuffers, ReadFile, LookAgain,
                      RemoveKey, Return, finish, get_returns
  <2> QED
    BY Zenon, <2>1, <2>2 DEF Stays, Quiet
<1> QED
  BY Zenon, <1>1, <1>2, <1>3 DEF Begin

LEMMA FlushOthers ==
  ASSUME TypeOK, Locks, NEW f \in Client \cup {Flusher}, FlushStep(f)
  PROVE  UNCHANGED tree /\ \A u \in Client : Stays(u)
<1> USE DEF index, wbuf, fbuf, disk, threads, locals
<1>t. pc \in [Client -> Label]
  BY Zenon DEF TypeOK
<1>1. CASE FlushEnter(f) \/ FlushBegin(f) \/ FlushWrite(f)
  BY Zenon, <1>1 DEF FlushEnter, FlushBegin, FlushWrite, Stays
<1>2. CASE FlushNothing(f)
  BY Zenon, <1>t, <1>2 DEF FlushNothing, in_flush, goto, Stays
<1>3. CASE FlushEnd(f)
  BY Zenon, <1>t, <1>3 DEF FlushEnd, Stays, Locks
<1> QED
  BY Zenon, <1>1, <1>2, <1>3 DEF FlushStep

=============================================================================
