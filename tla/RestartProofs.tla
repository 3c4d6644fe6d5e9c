---------------------------- MODULE RestartProofs ----------------------------
(***************************************************************************)
(* Proofs about the start of a bitcask, for any number of keys, buckets,   *)
(* sets, crashes and restarts.                                             *)
(***************************************************************************)
EXTENDS Restart, SequenceTheorems, WellFoundedInduction, TLAPS

Block == Record \cup {Junk}

-----------------------------------------------------------------------------
(***************************************************************************)
(* The pieces the steps are made of.                                       *)
(***************************************************************************)
\* Every set of natural numbers has a least element, and a greatest if bounded.
LEMMA Least ==
  ASSUME NEW S \in SUBSET Nat, S # {}
  PROVE  \E x \in S : \A y \in S : x <= y
<1>1. IsWellFoundedOn(OpToRel(<, Nat), Nat)
  BY Zenon, NatLessThanWellFounded
<1>2. PICK x \in S : \A y \in S : ~(<<y, x>> \in OpToRel(<, Nat))
  BY Zenon, <1>1, WFMin
<1>3. \A y \in S : ~(y < x)
  BY Zenon, <1>2 DEF OpToRel
<1> QED
  BY <1>3

LEMMA MaxOf ==
  ASSUME NEW S \in SUBSET Nat, S # {}, NEW n \in Nat, \A x \in S : x <= n
  PROVE  Max(S) \in S /\ \A y \in S : y <= Max(S)
<1> DEFINE T == {n - x : x \in S}
<1>0. \A x \in S : x \in Nat /\ n - x \in Nat
  OBVIOUS
<1>1. T \in SUBSET Nat /\ T # {} /\ \A x \in S : n - x \in T
  BY Zenon, <1>0
<1>2. PICK m \in T : \A y \in T : m <= y
  BY Zenon, <1>1, Least
<1>3. PICK x \in S : m = n - x
  BY Zenon
<1>4. \A y \in S : x >= y
  <2>1. \A y \in S : n - x <= n - y
    BY Zenon, <1>1, <1>2, <1>3
  <2> HIDE DEF T
  <2> QED
    BY <2>1
<1>5. Max(S) \in S /\ \A y \in S : Max(S) >= y
  BY Zenon, <1>4 DEF Max
<1> QED
  BY <1>5

LEMMA With ==
  ASSUME NEW f, NEW b, NEW v
  PROVE  /\ DOMAIN with(f, b, v) = DOMAIN f \cup {b} /\ with(f, b, v)[b] = v
         /\ \A x \in DOMAIN f : x # b => with(f, b, v)[x] = f[x]
BY Zenon DEF with

LEMMA Without ==
  ASSUME NEW f, NEW b
  PROVE  /\ DOMAIN without(f, b) = DOMAIN f \ {b}
         /\ \A x \in DOMAIN f : x # b => without(f, b)[x] = f[x]
BY Zenon DEF without

\* What all files of a kind are stays true when one is written, removed or renamed.
LEMMA WithAll ==
  ASSUME NEW f, NEW D, NEW S, DOMAIN f \subseteq D, \A x \in DOMAIN f : f[x] \in S,
         NEW b \in D, NEW v \in S
  PROVE  DOMAIN with(f, b, v) \subseteq D /\ \A x \in DOMAIN with(f, b, v) : with(f, b, v)[x] \in S
<1>1. DOMAIN with(f, b, v) = DOMAIN f \cup {b}
  BY Zenon DEF with
<1>2. ASSUME NEW x \in DOMAIN with(f, b, v) PROVE with(f, b, v)[x] \in S
  <2>1. CASE x = b
    BY Zenon, <2>1 DEF with
  <2>2. CASE x # b
    BY Zenon, <1>1, <2>2 DEF with
  <2> QED
    BY Zenon, <2>1, <2>2
<1> QED
  BY Zenon, <1>1, <1>2

LEMMA WithoutAll ==
  ASSUME NEW f, NEW D, NEW S, DOMAIN f \subseteq D, \A x \in DOMAIN f : f[x] \in S, NEW b
  PROVE  DOMAIN without(f, b) \subseteq D /\ \A x \in DOMAIN without(f, b) : without(f, b)[x] \in S
<1>1. DOMAIN without(f, b) = DOMAIN f \ {b}
  BY Zenon DEF without
<1>2. ASSUME NEW x \in DOMAIN without(f, b) PROVE without(f, b)[x] \in S
  BY Zenon, <1>1 DEF without
<1> QED
  BY Zenon, <1>1, <1>2

LEMMA MovedAll ==
  ASSUME NEW f, NEW D, NEW S, DOMAIN f \subseteq D, \A x \in DOMAIN f : f[x] \in S,
         NEW a \in DOMAIN f, NEW b \in D
  PROVE  LET g == without(with(f, b, f[a]), a) IN DOMAIN g \subseteq D /\ \A x \in DOMAIN g : g[x] \in S
<1> DEFINE h == with(f, b, f[a])
<1>1. DOMAIN h \subseteq D /\ \A x \in DOMAIN h : h[x] \in S
  BY Zenon, WithAll
<1> HIDE DEF h
<1>2. DOMAIN without(h, a) \subseteq D /\ \A x \in DOMAIN without(h, a) : without(h, a)[x] \in S
  BY Zenon, <1>1, WithoutAll
<1> QED
  BY Zenon, <1>2 DEF h

LEMMA Dumped ==
  ASSUME NEW s \in [Bucket -> Nat \cup {-1}]
  PROVE  /\ DOMAIN dumped(s) \subseteq Bucket
         /\ \A b \in DOMAIN dumped(s) : dumped(s)[b] \in Nat
         /\ \A b \in Bucket : listed(dumped(s), b) = s[b]
         /\ \A b \in Bucket : b \in DOMAIN dumped(s) <=> s[b] # -1
<1>1. DOMAIN dumped(s) = {x \in Bucket : s[x] >= 0} /\ \A b \in DOMAIN dumped(s) : dumped(s)[b] = s[b]
  BY Zenon DEF dumped
<1>2. \A b \in Bucket : s[b] \in Nat \/ s[b] = -1
  OBVIOUS
<1> QED
  BY <1>1, <1>2 DEF listed

LEMMA NewVersionType ==
  ASSUME NEW n \in CInt, NEW oldv \in Int
  PROVE  NewVersion(n, oldv) \in Int
BY IntMaxAssumption DEF NewVersion, Refused, Wrap, Abs, CInt, IntMin

LEMMA ItemParts ==
  ASSUME NEW x \in Item
  PROVE  /\ x.ver \in Int
         /\ x.ver # 0 => x \in [bucket : Bucket, off : Nat, ver : Int \ {0}]
BY DEF Item, NoItem

LEMMA ItemChanged ==
  ASSUME NEW x \in Item, x.ver # 0
  PROVE  /\ \A v \in Int \ {0} : [x EXCEPT !.ver = v] \in Item
         /\ \A b \in Bucket : [x EXCEPT !.bucket = b] \in Item
<1>1. x \in [bucket : Bucket, off : Nat, ver : Int \ {0}]
  BY Zenon, ItemParts
<1> QED
  BY <1>1, ZenonT(30) DEF Item

LEMMA TreeChanged ==
  ASSUME NEW t \in Tree, NEW k \in Key, NEW x \in Item
  PROVE  [t EXCEPT ![k] = x] \in Tree
BY Zenon DEF Tree

LEMMA EmptyTreeType == EmptyTree \in Tree
BY Zenon DEF EmptyTree, Tree, Item

\* Sequences of records and of blocks.
LEMMA RecordsAreBlocks ==
  ASSUME NEW s \in Seq(Record)
  PROVE  s \in Seq(Block) /\ Len(s) \in Nat
<1>1. s \in [1 .. Len(s) -> Record] /\ Len(s) \in Nat
  BY Zenon, LenProperties
<1>2. s \in [1 .. Len(s) -> Block]
  BY Zenon, <1>1 DEF Block
<1>3. [1 .. Len(s) -> Block] \in {[1 .. n -> Block] : n \in Nat}
  BY Zenon, <1>1
<1>4. Seq(Block) = UNION {[1 .. n -> Block] : n \in Nat}
  BY Zenon, SeqDef
<1> QED
  BY Zenon, <1>1, <1>2, <1>3, <1>4

LEMMA Joined ==
  ASSUME NEW s \in Seq(Block), NEW x \in Seq(Block)
  PROVE  s \o x \in Seq(Block) /\ Len(s \o x) = Len(s) + Len(x) /\ Len(s) \in Nat /\ Len(x) \in Nat
BY Zenon, ConcatProperties, LenProperties

LEMMA TornType ==
  ASSUME NEW s \in Seq(Record), NEW x \in torn(s)
  PROVE  x \in Seq(Block)
<1>0. s \in Seq(Block) /\ Len(s) \in Nat /\ Junk \in Block
  BY Zenon, RecordsAreBlocks DEF Block
<1>1. \A n \in 0 .. Len(s) : SubSeq(s, 1, n) \in Seq(Block)
  BY <1>0, SubSeqProperties
<1>2. \A n \in 0 .. Len(s) - 1 : n \in 0 .. Len(s)
  BY <1>0
<1>3. \A n \in 0 .. Len(s) - 1 : Append(SubSeq(s, 1, n), Junk) \in Seq(Block)
  BY Zenon, <1>0, <1>1, <1>2, AppendProperties
<1> QED
  BY Zenon, <1>1, <1>3 DEF torn

LEMMA SizeType ==
  ASSUME DataOK
  PROVE  /\ \A b \in DOMAIN data : b \in Bucket /\ data[b] \in Seq(Block) /\ Len(data[b]) \in Nat
         /\ sizes_on_disk \in [Bucket -> Nat \cup {-1}]
         /\ \A b \in Bucket : sizes_on_disk[b] = size_on_disk(b)
         /\ \A b : size_on_disk(b) \in Nat \cup {-1} /\ (size_on_disk(b) = -1 <=> b \notin DOMAIN data)
<1>1. \A b \in DOMAIN data : b \in Bucket /\ data[b] \in Seq(Block) /\ Len(data[b]) \in Nat
  BY Zenon, LenProperties DEF DataOK, Block
<1>2. \A b : size_on_disk(b) \in Nat \cup {-1} /\ (size_on_disk(b) = -1 <=> b \notin DOMAIN data)
  BY <1>1 DEF size_on_disk
<1> QED
  BY Zenon, <1>1, <1>2 DEF sizes_on_disk

LEMMA CollectType ==
  ASSUME NEW b \in Bucket, NEW s \in Seq(Block)
  PROVE  collect(b, s) \in Tree
<1> SUFFICES ASSUME NEW k \in Key
             PROVE  collect(b, s)[k] \in Item
  BY Zenon DEF collect, Tree
<1> DEFINE at_k == {n \in DOMAIN s : s[n].key = k}
<1>1. CASE at_k = {}
  BY Zenon, <1>1 DEF collect, Item
<1>2. CASE at_k # {}
  <2>1. DOMAIN s = 1 .. Len(s) /\ Len(s) \in Nat /\ \A n \in DOMAIN s : s[n] \in Block
    BY Zenon, LenProperties
  <2>2. at_k \in SUBSET Nat /\ \A n \in at_k : n <= Len(s) /\ n >= 1
    BY <2>1
  <2>3. Max(at_k) \in at_k
    BY Zenon, <1>2, <2>1, <2>2, MaxOf
  <2>4. s[Max(at_k)] \in Record
    <3>1. s[Max(at_k)] \in Block /\ s[Max(at_k)].key \in Key
      BY Zenon, <2>1, <2>3
    <3>2. Junk.key \notin Key
      BY Zenon, RestartAssumption DEF Junk
    <3> QED
      BY Zenon, <3>1, <3>2 DEF Block
  <2>5. Max(at_k) - 1 \in Nat
    BY <2>2, <2>3
  <2>6. collect(b, s)[k] = [bucket |-> b, off |-> Max(at_k) - 1, ver |-> s[Max(at_k)].ver]
    BY Zenon, <1>2 DEF collect
  <2>7. s[Max(at_k)].ver \in Int \ {0}
    BY Zenon, <2>4 DEF Record
  <2>8. collect(b, s)[k] \in [bucket : Bucket, off : Nat, ver : Int \ {0}]
    <3>1. \A o \in Nat, v \in Int \ {0} :
            [bucket |-> b, off |-> o, ver |-> v] \in [bucket : Bucket, off : Nat, ver : Int \ {0}]
      BY Zenon
    <3> HIDE DEF at_k
    <3> QED
      BY Zenon, <2>5, <2>6, <2>7, <3>1
  <2> QED
    BY Zenon, <2>8 DEF Item
<1> QED
  BY Zenon, <1>1, <1>2

LEMMA AppliedType ==
  ASSUME NEW b \in Bucket, NEW entries \in Tree, tree \in Tree
  PROVE  applied(b, entries) \in Tree
<1> SUFFICES ASSUME NEW k \in Key
             PROVE  applied(b, entries)[k] \in Item
  BY Zenon DEF applied, Tree
<1>1. entries[k] \in Item /\ tree[k] \in Item /\ NoItem \in Item
  BY Zenon DEF Tree, Item
<1>2. entries[k].ver # 0 => [entries[k] EXCEPT !.bucket = b] \in Item
  BY Zenon, <1>1, ItemChanged
<1>3. entries[k].ver > 0 => entries[k].ver # 0
  BY <1>1, ItemParts
<1> QED
  BY Zenon, <1>1, <1>2, <1>3 DEF applied

-----------------------------------------------------------------------------
(***************************************************************************)
(* Type correctness, one lemma per action.                                 *)
(***************************************************************************)
\* What is left of a process that is gone.
LEMMA FreshType ==
  ASSUME fresh_memory
  PROVE  /\ IndexOK' /\ BucketsOK' /\ BuildingOK' /\ BuffersOK'
         /\ i' = 0 /\ last' = 0 /\ skipping' = "data" /\ Quiet'
<1>1. 0 \in 0 .. MAX_BUCKET_COUNT /\ 0 \in Nat
  BY RestartAssumption
<1>2. <<>> \in Seq(Record)
  BY Zenon, EmptySeq
<1>3. IndexOK'
  BY Zenon, <1>1, EmptyTreeType DEF fresh_memory, IndexOK
<1>4. BucketsOK' /\ BuildingOK'
  BY Zenon DEF fresh_memory, BucketsOK, BuildingOK
<1>5. BuffersOK'
  BY Zenon, <1>1, <1>2 DEF fresh_memory, BuffersOK
<1> QED
  BY Zenon, <1>3, <1>4, <1>5 DEF fresh_memory, Quiet

\* A hint file is written beside a snapshot.
LEMMA TouchedType ==
  ASSUME HTreeOK, NEW b, hint_touched(b)
  PROVE  HTreeOK'
<1>1. CASE htree' = htree
  BY Zenon, <1>1 DEF HTreeOK
<1>2. CASE b \in DOMAIN htree /\ htree' = [htree EXCEPT ![b].fresh = FALSE]
  <2>1. DOMAIN htree' = DOMAIN htree /\ htree'[b] = [htree[b] EXCEPT !.fresh = FALSE]
        /\ \A x \in DOMAIN htree : x # b => htree'[x] = htree[x]
    BY Zenon, <1>2
  <2>2. \A x \in [tree : Tree, fresh : BOOLEAN] : [x EXCEPT !.fresh = FALSE] \in [tree : Tree, fresh : BOOLEAN]
    BY ZenonT(30)
  <2> QED
    BY Zenon, <1>2, <2>1, <2>2 DEF HTreeOK
<1> QED
  BY Zenon, <1>1, <1>2 DEF hint_touched

LEMMA HintWithType ==
  ASSUME HintOK, NEW b \in Bucket, NEW t \in Tree
  PROVE  hint' = with(hint, b, t) => HintOK'
BY Zenon, WithAll DEF HintOK

LEMMA RotateType ==
  ASSUME TypeOK, curr \in Bucket, NEW t \in Tree, bc_rotate(t)
  PROVE  /\ HintOK' /\ ListOK' /\ BucketsOK' /\ BuildingOK'
         /\ curr_tree' \in Tree /\ curr' \in 0 .. MAX_BUCKET_COUNT
         /\ \A b \in Bucket : buckets'[b] = IF b = curr /\ curr \in DOMAIN data THEN Len(data[curr]) ELSE buckets[b]
<1>1. HintOK'
  <2>1. hint' = without(hint, curr) /\ HintOK
    BY Zenon DEF bc_rotate, TypeOK
  <2> QED
    BY Zenon, <2>1, WithoutAll DEF HintOK
<1>2. BucketsOK' /\ \A b \in Bucket : buckets'[b] = IF b = curr /\ curr \in DOMAIN data THEN Len(data[curr]) ELSE buckets[b]
  BY Zenon, SizeType DEF bc_rotate, BucketsOK, TypeOK
<1>3. ListOK'
  BY Zenon, <1>2, Dumped DEF bc_rotate, ListOK, TypeOK, BucketsOK
<1>4. BuildingOK'
  <2>1. BuildingOK /\ curr_tree \in Tree
    BY Zenon DEF IndexOK, TypeOK
  <2>2. [bucket |-> curr, tree |-> curr_tree] \in [bucket : Bucket, tree : Tree]
    BY Zenon, <2>1
  <2>3. building' = building \cup {[bucket |-> curr, tree |-> curr_tree]}
    BY Zenon DEF bc_rotate
  <2> QED
    BY Zenon, <2>1, <2>2, <2>3 DEF BuildingOK
<1>5. curr' \in 0 .. MAX_BUCKET_COUNT
  BY RestartAssumption DEF bc_rotate, Bucket
<1> QED
  BY Zenon, <1>1, <1>2, <1>3, <1>4, <1>5 DEF bc_rotate

LEMMA TypeSetAppend ==
  ASSUME TypeOK, NEW k \in Key, NEW n \in VersionArg, SetAppend(k, n)
  PROVE  TypeOK'
<1> DEFINE ver == NewVersion(n, tree[k].ver)
           rec == [key |-> k, ver |-> ver]
           here == [bucket |-> curr, off |-> wbuf_start_pos + Len(write_buffer), ver |-> ver]
           next == [bucket |-> curr + 1, off |-> 0, ver |-> ver]
<1>1. tree[k].ver \in Int /\ n \in CInt
  BY Zenon, ItemParts, RestartAssumption DEF TypeOK, IndexOK, Tree
<1>2. ver \in Int \ {0} /\ curr \in Bucket
  BY Zenon, <1>1, NewVersionType DEF SetAppend
<1>3. rec \in Record
  BY Zenon, <1>2 DEF Record
<1>4. wbuf_start_pos + Len(write_buffer) \in Nat /\ write_buffer \in Seq(Record)
  BY LenProperties DEF TypeOK, BuffersOK
<1>5. here \in Item
  BY Zenon, <1>2, <1>4 DEF Item
<1>6. [tree EXCEPT ![k] = here] \in Tree /\ [curr_tree EXCEPT ![k] = here] \in Tree
  BY Zenon, <1>5, TreeChanged DEF TypeOK, IndexOK
<1>7. Append(write_buffer, rec) \in Seq(Record) /\ <<rec>> \in Seq(Record) /\ 0 \in Nat
  BY <1>3, <1>4, AppendProperties
<1>8. UNCHANGED <<data, htree, last_snapshot, flush_buffer, fbuf_start_pos, flushing_bucket, flushing,
                  status, i, last, skipping, exposed>>
  BY Zenon DEF SetAppend, scan
<1>9. DataOK' /\ HTreeOK' /\ ControlOK'
  BY Zenon, <1>8 DEF TypeOK, DataOK, HTreeOK, ControlOK
<1> HIDE DEF ver, rec, here, next
<1>10. CASE /\ write_buffer' = Append(write_buffer, rec)
            /\ curr_tree' = [curr_tree EXCEPT ![k] = here] /\ tree' = [tree EXCEPT ![k] = here]
            /\ UNCHANGED <<curr, hint, building, buckets, buckets_txt, wbuf_start_pos>>
  BY Zenon, <1>6, <1>7, <1>8, <1>9, <1>10
     DEF TypeOK, HintOK, ListOK, IndexOK, BucketsOK, BuildingOK, BuffersOK
<1>11. CASE /\ curr + 1 \in Bucket /\ bc_rotate([EmptyTree EXCEPT ![k] = next])
            /\ write_buffer' = <<rec>> /\ wbuf_start_pos' = 0 /\ tree' = [tree EXCEPT ![k] = next]
  <2>1. next \in Item
    BY Zenon, <1>2, <1>7, <1>11 DEF Item, next
  <2>2. [EmptyTree EXCEPT ![k] = next] \in Tree /\ [tree EXCEPT ![k] = next] \in Tree
    BY Zenon, <2>1, TreeChanged, EmptyTreeType DEF TypeOK, IndexOK
  <2>3. /\ HintOK' /\ ListOK' /\ BucketsOK' /\ BuildingOK'
        /\ curr_tree' \in Tree /\ curr' \in 0 .. MAX_BUCKET_COUNT
    BY Zenon, <1>2, <1>11, <2>2, RotateType
  <2> QED
    BY Zenon, <1>7, <1>8, <1>9, <1>11, <2>2, <2>3 DEF TypeOK, IndexOK, BuffersOK
<1> QED
  BY Zenon, <1>10, <1>11 DEF SetAppend, ver, rec, here, next

LEMMA TypeSetRaise ==
  ASSUME TypeOK, NEW k \in Key, NEW n \in VersionArg, SetRaise(k, n)
  PROVE  TypeOK'
<1> DEFINE ver == NewVersion(n, tree[k].ver)
           raised == [tree[k] EXCEPT !.ver = ver]
<1>1. tree[k] \in Item /\ tree[k].ver \in Int /\ n \in CInt
  BY Zenon, ItemParts, RestartAssumption DEF TypeOK, IndexOK, Tree
<1>2. ver \in Int \ {0}
  BY Zenon, <1>1, NewVersionType DEF SetRaise
<1>3. tree[k].ver # 0
  BY <1>1 DEF SetRaise
<1>4. raised \in Item
  BY Zenon, <1>1, <1>2, <1>3, ItemChanged
<1>5. tree' \in Tree /\ curr_tree' \in Tree
  BY Zenon, <1>4, TreeChanged DEF SetRaise, TypeOK, IndexOK
<1>6. UNCHANGED <<data, hint, htree, buckets_txt, curr, last_snapshot, write_buffer, wbuf_start_pos,
                  flush_buffer, fbuf_start_pos, flushing_bucket, flushing, buckets, building, status,
                  i, last, skipping, exposed>>
  BY Zenon DEF SetRaise, disk, buffers, scan
<1> QED
  BY ZenonT(30), <1>5, <1>6 DEF TypeOK, DataOK, HintOK, HTreeOK, ListOK, IndexOK, BucketsOK, BuildingOK,
     BuffersOK, ControlOK

LEMMA TypeGetFails ==
  ASSUME TypeOK, NEW k \in Key, GetFails(k)
  PROVE  TypeOK'
<1>1. tree' \in Tree
  <2>1. NoItem \in Item
    BY Zenon DEF Item
  <2> QED
    BY Zenon, <2>1, TreeChanged DEF GetFails, TypeOK, IndexOK
<1>2. UNCHANGED <<data, hint, htree, buckets_txt, curr_tree, curr, last_snapshot, write_buffer,
                  wbuf_start_pos, flush_buffer, fbuf_start_pos, flushing_bucket, flushing, buckets,
                  building, status, i, last, skipping, exposed>>
  BY Zenon DEF GetFails, disk, buffers, scan
<1> QED
  BY ZenonT(30), <1>1, <1>2 DEF TypeOK, DataOK, HintOK, HTreeOK, ListOK, IndexOK, BucketsOK, BuildingOK,
     BuffersOK, ControlOK

LEMMA TypeFlushBegin ==
  ASSUME TypeOK, FlushBegin
  PROVE  TypeOK'
<1>1. UNCHANGED <<data, htree, tree, last_snapshot, status, i, last, skipping, exposed>> /\ curr \in Bucket
  BY Zenon DEF FlushBegin, scan
<1>2. DataOK' /\ HTreeOK' /\ ControlOK'
  BY Zenon, <1>1 DEF TypeOK, DataOK, HTreeOK, ControlOK
<1>3. wbuf_start_pos + Len(write_buffer) \in Nat /\ 0 \in Nat /\ <<>> \in Seq(Record)
  BY LenProperties, EmptySeq DEF TypeOK, BuffersOK
<1>4. BuffersOK'
  BY Zenon, <1>1, <1>3 DEF FlushBegin, BuffersOK, TypeOK
<1>5. CASE UNCHANGED <<curr, curr_tree, hint, building, buckets, buckets_txt>>
  BY Zenon, <1>1, <1>2, <1>4, <1>5 DEF TypeOK, HintOK, ListOK, IndexOK, BucketsOK, BuildingOK
<1>6. CASE bc_rotate(EmptyTree)
  <2>1. /\ HintOK' /\ ListOK' /\ BucketsOK' /\ BuildingOK'
        /\ curr_tree' \in Tree /\ curr' \in 0 .. MAX_BUCKET_COUNT
    BY Zenon, <1>1, <1>6, EmptyTreeType, RotateType
  <2> QED
    BY Zenon, <1>1, <1>2, <1>4, <2>1 DEF TypeOK, IndexOK
<1> QED
  BY Zenon, <1>5, <1>6 DEF FlushBegin

LEMMA TypeFlushNewData ==
  ASSUME IInv, FlushNewData
  PROVE  TypeOK'
<1> DEFINE b == flushing_bucket
<1>0. b \in Bucket /\ TypeOK
  BY Zenon DEF IInv, Sizes, Serving, FlushNewData
<1>1. UNCHANGED <<data, hint, htree, tree, curr_tree, curr, last_snapshot, write_buffer, wbuf_start_pos,
                  flush_buffer, fbuf_start_pos, flushing_bucket, building, i, last, skipping>>
  BY Zenon DEF FlushNewData, index, scan
<1>2. \/ buckets' = buckets /\ buckets_txt' = buckets_txt
      \/ buckets' = [buckets EXCEPT ![b] = 0] /\ buckets_txt' = dumped(buckets')
  BY Zenon DEF FlushNewData
<1>3. BucketsOK' /\ ListOK'
  <2>1. 0 \in Nat
    OBVIOUS
  <2>2. BucketsOK'
    BY Zenon, <1>0, <1>2, <2>1 DEF TypeOK, BucketsOK
  <2> QED
    BY Zenon, <1>0, <1>2, <2>2, Dumped DEF TypeOK, BucketsOK, ListOK
<1>4. flushing' = "fopen" /\ exposed' \in BOOLEAN
  BY Zenon DEF FlushNewData
<1>5. status' \in {status, "exited"}
  BY Zenon DEF FlushNewData
<1> QED
  BY Zenon, <1>0, <1>1, <1>3, <1>4, <1>5
     DEF TypeOK, DataOK, HintOK, HTreeOK, IndexOK, BuildingOK, BuffersOK, ControlOK

LEMMA TypeFlushOpen ==
  ASSUME IInv, FlushOpen
  PROVE  TypeOK'
<1> DEFINE b == flushing_bucket
<1>0. b \in Bucket /\ TypeOK
  BY Zenon DEF IInv, Sizes, Serving, FlushOpen
<1>1. UNCHANGED <<hint, htree, buckets_txt, tree, curr_tree, curr, last_snapshot, write_buffer,
                  wbuf_start_pos, flush_buffer, fbuf_start_pos, flushing_bucket, buckets, building,
                  i, last, skipping>>
  BY Zenon DEF FlushOpen, index, scan
<1>2. data' = data \/ data' = with(data, b, <<>>)
  BY Zenon DEF FlushOpen
<1>3. DataOK'
  <2>1. <<>> \in Seq(Record \cup {Junk})
    BY Zenon, EmptySeq
  <2> QED
    BY Zenon, <1>0, <1>2, <2>1, WithAll DEF TypeOK, DataOK
<1>4. flushing' = "dump" /\ exposed' = FALSE /\ status' \in {status, "exited"}
  BY Zenon DEF FlushOpen
<1> QED
  BY Zenon, <1>0, <1>1, <1>3, <1>4
     DEF TypeOK, HintOK, HTreeOK, ListOK, IndexOK, BucketsOK, BuildingOK, BuffersOK, ControlOK

LEMMA TypeFlushDump ==
  ASSUME IInv, FlushDump
  PROVE  TypeOK'
<1> DEFINE b == flushing_bucket
<1>0. b \in Bucket /\ b \in DOMAIN data /\ TypeOK
  BY Zenon DEF IInv, Sizes, Serving, FlushDump
<1>1. UNCHANGED <<data, hint, htree, tree, curr_tree, curr, last_snapshot, write_buffer, wbuf_start_pos,
                  flush_buffer, fbuf_start_pos, flushing_bucket, building, status, i, last, skipping,
                  exposed>>
  BY Zenon DEF FlushDump, index, scan
<1>2. Len(data[b]) \in Nat /\ Len(flush_buffer) \in Nat
  BY Zenon, <1>0, SizeType, RecordsAreBlocks DEF TypeOK, BuffersOK
<1>3. Len(data[b]) + Len(flush_buffer) \in Nat
  BY <1>2
<1>4. BucketsOK'
  BY Zenon, <1>0, <1>3 DEF FlushDump, TypeOK, BucketsOK
<1>5. buckets_txt' = buckets_txt \/ buckets_txt' = dumped(buckets')
  BY Zenon DEF FlushDump
<1>6. ListOK'
  BY Zenon, <1>0, <1>4, <1>5, Dumped DEF TypeOK, BucketsOK, ListOK
<1>7. flushing' = "fclose"
  BY Zenon DEF FlushDump
<1> QED
  BY Zenon, <1>0, <1>1, <1>4, <1>6, <1>7
     DEF TypeOK, DataOK, HintOK, HTreeOK, IndexOK, BuildingOK, BuffersOK, ControlOK

\* Appending to a data file.
LEMMA DataGrows ==
  ASSUME DataOK, NEW b \in DOMAIN data, NEW x \in Seq(Block), data' = [data EXCEPT ![b] = @ \o x]
  PROVE  /\ DataOK' /\ DOMAIN data' = DOMAIN data
         /\ Len(data'[b]) = Len(data[b]) + Len(x) /\ Len(x) \in Nat
         /\ \A c \in DOMAIN data : c # b => data'[c] = data[c]
<1>1. data[b] \in Seq(Block) /\ DOMAIN data \subseteq Bucket
  BY Zenon, SizeType DEF DataOK
<1>2. /\ DOMAIN data' = DOMAIN data /\ data'[b] = data[b] \o x
      /\ \A c \in DOMAIN data : c # b => data'[c] = data[c]
  BY Zenon
<1>3. data[b] \o x \in Seq(Block) /\ Len(data[b] \o x) = Len(data[b]) + Len(x) /\ Len(x) \in Nat
  BY Zenon, <1>1, Joined
<1>4. DataOK'
  BY Zenon, <1>1, <1>2, <1>3 DEF DataOK, Block
<1> QED
  BY Zenon, <1>2, <1>3, <1>4

LEMMA TypeFlushClose ==
  ASSUME IInv, FlushClose
  PROVE  TypeOK'
<1>0. flushing_bucket \in DOMAIN data /\ TypeOK
  BY Zenon DEF IInv, Sizes, Serving, FlushClose
<1>1. UNCHANGED <<hint, htree, buckets_txt, tree, curr_tree, curr, last_snapshot, write_buffer,
                  wbuf_start_pos, buckets, building, status, i, last, skipping, exposed>>
  BY Zenon DEF FlushClose, index, scan
<1>2. flush_buffer \in Seq(Block)
  BY Zenon, <1>0, RecordsAreBlocks DEF TypeOK, BuffersOK
<1>3. DataOK'
  BY Zenon, <1>0, <1>2, DataGrows DEF FlushClose, TypeOK
<1>4. BuffersOK'
  <2>1. 0 \in Nat /\ <<>> \in Seq(Record)
    BY EmptySeq
  <2> QED
    BY Zenon, <1>0, <1>1, <2>1 DEF FlushClose, BuffersOK, TypeOK
<1> QED
  BY Zenon, <1>0, <1>1, <1>3, <1>4
     DEF TypeOK, HintOK, HTreeOK, ListOK, IndexOK, BucketsOK, BuildingOK, ControlOK

LEMMA TypeBuildHint ==
  ASSUME TypeOK, NEW h \in building, build_hint(h)
  PROVE  TypeOK'
<1>1. UNCHANGED <<data, buckets_txt, tree, curr_tree, curr, last_snapshot, write_buffer, wbuf_start_pos,
                  flush_buffer, fbuf_start_pos, flushing_bucket, flushing, buckets, status,
                  i, last, skipping, exposed>>
  BY Zenon DEF build_hint, index, buffers, scan
<1>2. h.bucket \in Bucket /\ h.tree \in Tree
  BY Zenon DEF TypeOK, BuildingOK
<1>3. HintOK' /\ HTreeOK' /\ BuildingOK'
  BY Zenon, <1>2, HintWithType, TouchedType DEF build_hint, TypeOK, BuildingOK
<1> QED
  BY ZenonT(30), <1>1, <1>3 DEF TypeOK, DataOK, ListOK, IndexOK, BucketsOK, BuffersOK, ControlOK

LEMMA TypeCloseHint ==
  ASSUME TypeOK, CloseHint
  PROVE  TypeOK'
<1>1. UNCHANGED <<data, tree, curr_tree, curr, last_snapshot, write_buffer, wbuf_start_pos,
                  flush_buffer, fbuf_start_pos, flushing_bucket, flushing, building,
                  i, last, skipping, exposed>> /\ status' = "closing" /\ curr \in Bucket
  BY Zenon DEF CloseHint, index, buffers, scan
<1>2. BucketsOK'
  BY Zenon, SizeType DEF CloseHint, BucketsOK, TypeOK
<1>3. ListOK'
  BY Zenon, <1>2, Dumped DEF CloseHint, ListOK, TypeOK, BucketsOK
<1>4. HintOK' /\ HTreeOK'
  <2>1. CASE hint' = with(hint, curr, curr_tree) /\ hint_touched(curr)
    BY Zenon, <1>1, <2>1, HintWithType, TouchedType DEF TypeOK, IndexOK
  <2>2. CASE UNCHANGED <<hint, htree>>
    BY Zenon, <2>2 DEF TypeOK, HintOK, HTreeOK
  <2> QED
    BY Zenon, <2>1, <2>2 DEF CloseHint
<1> QED
  BY Zenon, <1>1, <1>2, <1>3, <1>4
     DEF TypeOK, DataOK, IndexOK, BuildingOK, BuffersOK, ControlOK

\* A new snapshot takes the place of the last one.
LEMMA SnapshotType ==
  ASSUME HTreeOK, IndexOK, NEW c, c \in Bucket \/ c = last_snapshot,
         htree' = without(with(htree, c, [tree |-> tree, fresh |-> TRUE]), last_snapshot)
  PROVE  HTreeOK'
<1> DEFINE r == [tree |-> tree, fresh |-> TRUE]
           f == with(htree, c, r)
<1>0. r \in [tree : Tree, fresh : BOOLEAN]
  BY Zenon DEF IndexOK
<1> HIDE DEF r
<1>1. DOMAIN f = DOMAIN htree \cup {c}
  BY Zenon DEF with
<1>2. ASSUME NEW x \in DOMAIN f PROVE f[x] \in [tree : Tree, fresh : BOOLEAN]
  <2>1. CASE x = c
    BY Zenon, <1>0, <2>1 DEF with
  <2>2. CASE x # c
    BY Zenon, <1>1, <2>2 DEF with, HTreeOK
  <2> QED
    BY Zenon, <2>1, <2>2
<1> HIDE DEF f
<1>3. htree' = without(f, last_snapshot)
  BY Zenon DEF f, r
<1>4. DOMAIN htree' = DOMAIN f \ {last_snapshot} /\ \A x \in DOMAIN htree' : htree'[x] = f[x]
  BY Zenon, <1>3 DEF without
<1> QED
  BY Zenon, <1>1, <1>2, <1>4 DEF HTreeOK

LEMMA TypeCloseSave ==
  ASSUME IInv, CloseSave
  PROVE  TypeOK'
<1> DEFINE c == IF wbuf_start_pos = 0 THEN curr - 1 ELSE curr
<1>0. TypeOK /\ curr \in Bucket
  BY Zenon DEF IInv, Sizes, CloseSave
<1>1. UNCHANGED <<data, hint, buckets_txt, exposed>> /\ status' = "down" /\ fresh_memory
  BY Zenon DEF CloseSave
<1>2. HTreeOK'
  <2>1. CASE htree' = htree
    BY Zenon, <1>0, <2>1 DEF TypeOK, HTreeOK
  <2>2. CASE /\ c - last_snapshot >= SAVE_HTREE_LIMIT
             /\ htree' = without(with(htree, c, [tree |-> tree, fresh |-> TRUE]), last_snapshot)
    <3>1. c \in Bucket \/ c = last_snapshot
      BY <1>0, <2>2, RestartAssumption DEF TypeOK, IndexOK, Bucket
    <3> QED
      BY Zenon, <1>0, <2>2, <3>1, SnapshotType DEF TypeOK
  <2> QED
    BY Zenon, <2>1, <2>2 DEF CloseSave
<1>3. ControlOK'
  <2>1. 0 \in 0 .. MAX_BUCKET_COUNT
    BY RestartAssumption
  <2> QED
    BY Zenon, <1>0, <1>1, <2>1, FreshType DEF TypeOK, ControlOK
<1> QED
  BY Zenon, <1>0, <1>1, <1>2, <1>3, FreshType DEF TypeOK, DataOK, HintOK, ListOK

LEMMA TypeCrash ==
  ASSUME IInv, Crash \/ CrashInDump
  PROVE  TypeOK'
<1>0. TypeOK
  BY Zenon DEF IInv
<1>1. UNCHANGED <<hint, htree, exposed>> /\ status' = "down" /\ fresh_memory
  BY Zenon DEF Crash, CrashInDump
<1>2. ControlOK'
  <2>1. 0 \in 0 .. MAX_BUCKET_COUNT
    BY RestartAssumption
  <2> QED
    BY Zenon, <1>0, <1>1, <2>1, FreshType DEF TypeOK, ControlOK
<1>3. ListOK'
  <2>1. CASE buckets_txt' = buckets_txt
    BY Zenon, <1>0, <2>1 DEF TypeOK, ListOK
  <2>2. CASE buckets_txt' = <<>>
    BY <2>2 DEF ListOK
  <2> QED
    BY Zenon, <2>1, <2>2 DEF Crash, CrashInDump
<1>4. DataOK'
  <2>1. CASE UNCHANGED data
    BY Zenon, <1>0, <2>1 DEF TypeOK, DataOK
  <2>2. CASE /\ Crash /\ flushing \in {"dump", "fclose"}
             /\ \E x \in torn(flush_buffer) : data' = [data EXCEPT ![flushing_bucket] = @ \o x]
    <3>1. PICK x \in torn(flush_buffer) : data' = [data EXCEPT ![flushing_bucket] = @ \o x]
      BY Zenon, <2>2
    <3>2. x \in Seq(Block)
      BY Zenon, <1>0, TornType DEF TypeOK, BuffersOK
    <3>3. flushing_bucket \in DOMAIN data
      BY Zenon, <2>2 DEF IInv, Sizes, Quiet, Serving, Crash
    <3> QED
      BY Zenon, <1>0, <3>1, <3>2, <3>3, DataGrows DEF TypeOK
  <2> QED
    BY Zenon, <2>1, <2>2 DEF Crash, CrashInDump
<1> QED
  BY Zenon, <1>0, <1>1, <1>2, <1>3, <1>4, FreshType DEF TypeOK, HintOK, HTreeOK

LEMMA TypeOpen ==
  ASSUME TypeOK, Open
  PROVE  TypeOK'
<1>1. UNCHANGED <<data, hint, htree, buckets_txt, tree, curr_tree, curr, last_snapshot, write_buffer,
                  wbuf_start_pos, flush_buffer, fbuf_start_pos, flushing_bucket, flushing, building,
                  i, last, skipping, exposed>>
  BY Zenon DEF Open, disk, index, buffers, scan
<1>2. buckets' \in [Bucket -> Nat \cup {-1}] /\ status' \in {"refused", "skip"}
  BY Zenon, SizeType DEF Open, TypeOK
<1> QED
  BY Zenon, <1>1, <1>2
     DEF TypeOK, DataOK, HintOK, HTreeOK, ListOK, IndexOK, BucketsOK, BuildingOK, BuffersOK, ControlOK

\* A file is renamed.
LEMMA Moved ==
  ASSUME NEW f, NEW a \in DOMAIN f, NEW b
  PROVE  LET g == without(with(f, b, f[a]), a)
         IN /\ DOMAIN g = (DOMAIN f \cup {b}) \ {a}
            /\ \A x \in DOMAIN g : g[x] = IF x = b THEN f[a] ELSE f[x]
BY Zenon DEF with, without

LEMMA TypeSkipData ==
  ASSUME IInv, SkipData
  PROVE  TypeOK'
<1>0. TypeOK /\ Skipping /\ skipping = "data" /\ i \in Bucket /\ i \in Nat /\ last \in Nat
  <2>1. TypeOK /\ Skipping /\ skipping = "data" /\ i < MAX_BUCKET_COUNT
    BY Zenon DEF IInv, Sizes, SkipData
  <2> QED
    BY <2>1, RestartAssumption DEF TypeOK, ControlOK, Bucket
<1>1. UNCHANGED <<hint, htree, buckets_txt, tree, curr_tree, curr, last_snapshot, write_buffer,
                  wbuf_start_pos, flush_buffer, fbuf_start_pos, flushing_bucket, flushing, buckets,
                  building, status>>
  BY Zenon DEF SkipData, index, buffers
<1>2. i + 1 \in 0 .. MAX_BUCKET_COUNT /\ (i = last => last + 1 \in 0 .. MAX_BUCKET_COUNT)
  BY <1>0, RestartAssumption DEF Bucket
<1>3. ControlOK'
  BY Zenon, <1>0, <1>1, <1>2 DEF SkipData, TypeOK, ControlOK
<1>4. DataOK'
  <2>1. CASE data' = data
    BY Zenon, <1>0, <2>1 DEF TypeOK, DataOK
  <2>2. CASE data' = without(data, i)
    BY Zenon, <1>0, <2>2, WithoutAll DEF TypeOK, DataOK
  <2>3. CASE /\ buckets[i] > 0 /\ i # last
             /\ data' = without(with(data, last, data[i]), i)
    <3>1. i \in DOMAIN data
      <4>1. buckets[i] = size_on_disk(i)
        BY Zenon, <1>0 DEF Skipping
      <4>2. size_on_disk(i) # -1
        BY <2>3, <4>1
      <4> QED
        BY Zenon, <4>2 DEF size_on_disk
    <3>2. last \in Bucket
      BY <1>0, RestartAssumption DEF Bucket, Skipping, TypeOK, ControlOK
    <3> QED
      BY Zenon, <1>0, <2>3, <3>1, <3>2, MovedAll DEF TypeOK, DataOK
  <2>4. buckets[i] \in Nat \cup {-1}
    BY Zenon, <1>0 DEF TypeOK, BucketsOK
  <2>5. \/ data' = data
        \/ data' = without(data, i)
        \/ buckets[i] > 0 /\ i # last /\ data' = without(with(data, last, data[i]), i)
    BY Zenon DEF SkipData
  <2> QED
    BY Zenon, <2>1, <2>2, <2>3, <2>5
<1> QED
  BY Zenon, <1>0, <1>1, <1>3, <1>4
     DEF TypeOK, HintOK, HTreeOK, ListOK, IndexOK, BucketsOK, BuildingOK, BuffersOK

LEMMA TypeSkipHint ==
  ASSUME IInv, SkipHint
  PROVE  TypeOK'
<1>0. TypeOK /\ Skipping /\ i \in Bucket
  BY Zenon DEF IInv, Sizes, SkipHint, Skipping
<1>1. UNCHANGED <<data, buckets_txt, tree, curr_tree, curr, last_snapshot, write_buffer,
                  wbuf_start_pos, flush_buffer, fbuf_start_pos, flushing_bucket, flushing, buckets,
                  building, status, i, last, exposed>> /\ skipping' = "htree" /\ skipping = "hint"
  BY Zenon DEF SkipHint, index, buffers
<1>2. CASE hint' = hint /\ htree' = htree
  BY Zenon, <1>0, <1>1, <1>2
     DEF TypeOK, DataOK, HintOK, HTreeOK, ListOK, IndexOK, BucketsOK, BuildingOK, BuffersOK, ControlOK
<1>3. CASE hint' = without(hint, i) /\ htree' = htree
  <2>1. HintOK'
    BY Zenon, <1>0, <1>3, WithoutAll DEF TypeOK, HintOK
  <2> QED
    BY Zenon, <1>0, <1>1, <1>3, <2>1
       DEF TypeOK, DataOK, HTreeOK, ListOK, IndexOK, BucketsOK, BuildingOK, BuffersOK, ControlOK
<1>4. CASE /\ buckets[i] > 0 /\ i \in DOMAIN hint
           /\ hint' = without(with(hint, last, hint[i]), i) /\ hint_touched(last)
  <2>1. last < i
    BY Zenon, <1>0, <1>1, <1>4 DEF Skipping
  <2>2. last \in Bucket
    BY <1>0, <2>1, RestartAssumption DEF Bucket, TypeOK, ControlOK
  <2>3. HintOK'
    BY Zenon, <1>0, <1>4, <2>2, MovedAll DEF TypeOK, HintOK
  <2>4. HTreeOK'
    BY Zenon, <1>0, <1>4, TouchedType DEF TypeOK
  <2> QED
    BY Zenon, <1>0, <1>1, <2>3, <2>4
       DEF TypeOK, DataOK, ListOK, IndexOK, BucketsOK, BuildingOK, BuffersOK, ControlOK
<1> QED
  BY Zenon, <1>2, <1>3, <1>4 DEF SkipHint

LEMMA TypeSkipHTree ==
  ASSUME IInv, SkipHTree
  PROVE  TypeOK'
<1>0. TypeOK /\ Skipping /\ i \in Bucket /\ skipping = "htree"
  BY Zenon DEF IInv, Sizes, SkipHTree, Skipping
<1>1. UNCHANGED <<data, hint, buckets_txt, tree, curr_tree, curr, last_snapshot, write_buffer,
                  wbuf_start_pos, flush_buffer, fbuf_start_pos, flushing_bucket, flushing,
                  building, status, exposed>> /\ skipping' = "data"
  BY Zenon DEF SkipHTree, index, buffers
<1>2. HTreeOK'
  <2>1. htree' = without(htree, i) /\ HTreeOK
    BY Zenon, <1>0 DEF SkipHTree, TypeOK
  <2>2. DOMAIN htree' = DOMAIN htree \ {i} /\ \A x \in DOMAIN htree' : htree'[x] = htree[x]
    BY Zenon, <2>1 DEF without
  <2> QED
    BY Zenon, <2>1, <2>2 DEF HTreeOK
<1>3. buckets[i] > 0 => last < i
  BY Zenon, <1>0 DEF Skipping
<1>4. /\ i + 1 \in 0 .. MAX_BUCKET_COUNT
      /\ buckets[i] > 0 => last \in Bucket /\ last + 1 \in 0 .. MAX_BUCKET_COUNT
  BY <1>0, <1>3, RestartAssumption DEF Bucket, TypeOK, ControlOK
<1>5. BucketsOK'
  BY Zenon, <1>0, <1>4 DEF SkipHTree, TypeOK, BucketsOK
<1>6. ControlOK'
  BY Zenon, <1>0, <1>1, <1>4 DEF SkipHTree, TypeOK, ControlOK
<1> QED
  BY ZenonT(30), <1>0, <1>1, <1>2, <1>5, <1>6
     DEF TypeOK, DataOK, HintOK, ListOK, IndexOK, BuildingOK, BuffersOK

LEMMA TypeLoadSnapshot ==
  ASSUME TypeOK, LoadSnapshot
  PROVE  TypeOK'
<1> DEFINE good == {b \in DOMAIN htree \cap DOMAIN hint : htree[b].fresh}
<1>1. UNCHANGED <<data, hint, htree, curr_tree, curr, write_buffer, wbuf_start_pos, flush_buffer,
                  fbuf_start_pos, flushing_bucket, flushing, buckets, building, last, skipping>>
      /\ status' = "scan" /\ i' = 0 /\ exposed' = FALSE /\ buckets_txt' = dumped(buckets)
  BY Zenon DEF LoadSnapshot, buffers
<1>2. ListOK'
  BY Zenon, <1>1, Dumped DEF TypeOK, BucketsOK, ListOK
<1>3. good # {} => Max(good) \in good
  <2>1. \A b \in Bucket : b \in Nat /\ b <= MAX_BUCKET_COUNT
    BY RestartAssumption DEF Bucket
  <2>2. good \in SUBSET Nat /\ (\A b \in good : b <= MAX_BUCKET_COUNT) /\ MAX_BUCKET_COUNT \in Nat
    BY Zenon, <2>1, RestartAssumption DEF TypeOK, HTreeOK
  <2> QED
    BY Zenon, <2>2, MaxOf
<1>4. good # {} => Max(good) \in Bucket /\ htree[Max(good)].tree \in Tree
  <2>1. \A b \in good : b \in Bucket /\ htree[b] \in [tree : Tree, fresh : BOOLEAN]
    BY Zenon DEF TypeOK, HTreeOK
  <2> QED
    BY Zenon, <1>3, <2>1
<1>5. IndexOK'
  BY Zenon, <1>1, <1>4, EmptyTreeType DEF LoadSnapshot, TypeOK, IndexOK
<1>6. 0 \in 0 .. MAX_BUCKET_COUNT
  BY RestartAssumption
<1> QED
  BY ZenonT(30), <1>1, <1>2, <1>5, <1>6
     DEF TypeOK, DataOK, HintOK, HTreeOK, BucketsOK, BuildingOK, BuffersOK, ControlOK

LEMMA TypeScanBucket ==
  ASSUME TypeOK, ScanBucket
  PROVE  TypeOK'
<1>1. UNCHANGED <<data, buckets_txt, curr_tree, curr, last_snapshot, write_buffer, wbuf_start_pos,
                  flush_buffer, fbuf_start_pos, flushing_bucket, flushing, buckets, building, status,
                  last, skipping, exposed>> /\ i' = i + 1 /\ i \in DOMAIN data
  BY Zenon DEF ScanBucket, buffers
<1>2. i \in Bucket /\ data[i] \in Seq(Block)
  BY Zenon, <1>1, SizeType DEF TypeOK
<1>3. i' \in 0 .. MAX_BUCKET_COUNT
  BY <1>1, <1>2, RestartAssumption DEF Bucket
<1>4. collect(i, data[i]) \in Tree
  BY Zenon, <1>2, CollectType
<1>5. HintOK' /\ HTreeOK' /\ tree' \in Tree
  <2>1. CASE UNCHANGED <<tree, hint, htree>>
    BY Zenon, <2>1 DEF TypeOK, HintOK, HTreeOK, IndexOK
  <2>2. CASE i \in DOMAIN hint /\ tree' = applied(i, hint[i]) /\ UNCHANGED <<hint, htree>>
    BY Zenon, <1>2, <2>2, AppliedType DEF TypeOK, HintOK, HTreeOK, IndexOK
  <2>3. CASE /\ tree' = applied(i, collect(i, data[i]))
             /\ hint' = with(hint, i, collect(i, data[i])) /\ hint_touched(i)
    BY Zenon, <1>2, <1>4, <2>3, AppliedType, HintWithType, TouchedType DEF TypeOK, IndexOK
  <2> QED
    BY Zenon, <2>1, <2>2, <2>3 DEF ScanBucket
<1> QED
  BY ZenonT(30), <1>1, <1>3, <1>5
     DEF TypeOK, DataOK, ListOK, IndexOK, BucketsOK, BuildingOK, BuffersOK, ControlOK

LEMMA TypeScanEnd ==
  ASSUME TypeOK, ScanEnd
  PROVE  TypeOK'
<1>1. UNCHANGED <<data, hint, buckets_txt, tree, curr_tree, write_buffer, wbuf_start_pos,
                  flush_buffer, fbuf_start_pos, flushing_bucket, flushing, buckets, building,
                  i, last, skipping, exposed>> /\ curr' = i /\ status' = "open"
  BY Zenon DEF ScanEnd, buffers, scan
<1>2. CASE UNCHANGED <<htree, last_snapshot>>
  BY ZenonT(30), <1>1, <1>2
     DEF TypeOK, DataOK, HintOK, HTreeOK, ListOK, IndexOK, BucketsOK, BuildingOK, BuffersOK, ControlOK
<1>3. CASE /\ i - last_snapshot > SAVE_HTREE_LIMIT
           /\ htree' = without(with(htree, i - 1, [tree |-> tree, fresh |-> TRUE]), last_snapshot)
           /\ last_snapshot' = i - 1
  <2>1. (i - 1 \in Bucket \/ i - 1 = last_snapshot) /\ i - 1 \in Bucket \cup {-1}
    BY <1>3, RestartAssumption DEF TypeOK, IndexOK, ControlOK, Bucket
  <2>2. HTreeOK'
    BY Zenon, <1>3, <2>1, SnapshotType DEF TypeOK
  <2> QED
    BY ZenonT(30), <1>1, <1>3, <2>1, <2>2
       DEF TypeOK, DataOK, HintOK, ListOK, IndexOK, BucketsOK, BuildingOK, BuffersOK, ControlOK
<1> QED
  BY Zenon, <1>2, <1>3 DEF ScanEnd

-----------------------------------------------------------------------------
(***************************************************************************)
(* Sizes and positions, one lemma per action.                              *)
(***************************************************************************)
LEMMA SameFiles ==
  ASSUME data' = data
  PROVE  /\ sizes_on_disk' = sizes_on_disk
         /\ \A b : size_on_disk(b)' = size_on_disk(b) /\ held(b)' = held(b)
BY Zenon DEF sizes_on_disk, size_on_disk, held

LEMMA StillServing ==
  ASSUME Serving, UNCHANGED <<data, curr, flushing, flushing_bucket, wbuf_start_pos, fbuf_start_pos,
                              flush_buffer, buckets>>
  PROVE  Serving'
BY Zenon, SameFiles DEF Serving

LEMMA SizesWhenOpen ==
  ASSUME status' = "open", Serving'
  PROVE  Sizes'
BY Zenon DEF Sizes, NeverExits

\* While bc_flush is idle, the sizes in memory are those of the files.
LEMMA IdleSizes ==
  ASSUME IInv, status = "open", flushing = "idle"
  PROVE  buckets = sizes_on_disk
<1>1. Serving /\ DataOK /\ BucketsOK
  BY Zenon DEF IInv, Sizes, TypeOK
<1>2. \A b \in Bucket : b # -1
  BY RestartAssumption DEF Bucket
<1>3. \A b \in Bucket : buckets[b] = size_on_disk(b)
  BY Zenon, <1>1, <1>2 DEF Serving
<1> QED
  BY Zenon, <1>1, <1>3 DEF BucketsOK, sizes_on_disk

LEMMA UpdateSize ==
  ASSUME IInv, status = "open", flushing = "idle", curr \in Bucket
  PROVE  [buckets EXCEPT ![curr] = IF curr \in DOMAIN data THEN Len(data[curr]) ELSE @] = buckets
<1>1. buckets = sizes_on_disk /\ BucketsOK
  BY Zenon, IdleSizes DEF IInv, TypeOK
<1>2. curr \in DOMAIN data => Len(data[curr]) = buckets[curr]
  BY Zenon, <1>1 DEF sizes_on_disk, size_on_disk
<1> QED
  BY Zenon, <1>1, <1>2 DEF BucketsOK

LEMMA RotateSizes ==
  ASSUME IInv, status = "open", flushing = "idle", curr \in Bucket, NEW t, bc_rotate(t)
  PROVE  /\ buckets' = buckets /\ buckets = sizes_on_disk /\ curr' = curr + 1
         /\ buckets_txt' = buckets_txt \/ buckets_txt' = dumped(sizes_on_disk)
         /\ curr + 1 \notin DOMAIN data /\ \A b \in DOMAIN data : b <= curr + 1
<1>1. buckets' = buckets /\ buckets = sizes_on_disk
  BY Zenon, UpdateSize, IdleSizes DEF bc_rotate
<1>2. \A b \in DOMAIN data : b \in Int /\ b <= curr
  <2>1. DataOK /\ Serving
    BY Zenon DEF IInv, TypeOK, Sizes
  <2>2. \A b \in Bucket : b \in Int
    BY RestartAssumption DEF Bucket
  <2> QED
    BY Zenon, <2>1, <2>2 DEF Serving, DataOK
<1>3. curr + 1 \notin DOMAIN data /\ \A b \in DOMAIN data : b <= curr + 1
  BY <1>2, RestartAssumption DEF Bucket
<1> QED
  BY Zenon, <1>1, <1>3 DEF bc_rotate

LEMMA SizesSetAppend ==
  ASSUME IInv, NEW k \in Key, NEW n \in VersionArg, SetAppend(k, n)
  PROVE  Sizes'
<1>1. Serving /\ status = "open" /\ curr \in Bucket
  BY Zenon DEF IInv, Sizes, SetAppend
<1>2. UNCHANGED <<data, flush_buffer, fbuf_start_pos, flushing_bucket, flushing, status>>
  BY Zenon DEF SetAppend
<1>3. CASE UNCHANGED <<curr, buckets, wbuf_start_pos>>
  BY Zenon, <1>1, <1>2, <1>3, StillServing, SizesWhenOpen
<1>4. CASE flushing = "idle" /\ wbuf_start_pos' = 0 /\ \E t : bc_rotate(t)
  <2>1. /\ buckets' = buckets /\ curr' = curr + 1
        /\ curr + 1 \notin DOMAIN data /\ \A b \in DOMAIN data : b <= curr + 1
    BY Zenon, <1>1, <1>4, RotateSizes
  <2>2. Serving'
    BY Zenon, <1>1, <1>2, <1>4, <2>1, SameFiles DEF Serving, held
  <2> QED
    BY Zenon, <1>1, <1>2, <2>2, SizesWhenOpen
<1> QED
  BY Zenon, <1>3, <1>4 DEF SetAppend

LEMMA SizesFlushBegin ==
  ASSUME IInv, FlushBegin
  PROVE  Sizes'
<1>1. Serving /\ status = "open" /\ flushing = "idle" /\ curr \in Bucket
  BY Zenon DEF IInv, Sizes, FlushBegin
<1>2. /\ UNCHANGED <<data, status>> /\ flushing_bucket' = curr /\ flush_buffer' = write_buffer
      /\ fbuf_start_pos' = wbuf_start_pos /\ flushing' = "new_data"
  BY Zenon DEF FlushBegin
<1>3. \A b \in Bucket : buckets[b] = size_on_disk(b)
  BY Zenon, <1>1, IdleSizes DEF sizes_on_disk
<1>4. CASE wbuf_start_pos' = wbuf_start_pos + Len(write_buffer) /\ UNCHANGED <<curr, buckets>>
  BY Zenon, <1>1, <1>2, <1>3, <1>4, SameFiles, SizesWhenOpen DEF Serving
<1>5. CASE bc_rotate(EmptyTree) /\ wbuf_start_pos' = 0
  <2>1. /\ buckets' = buckets /\ curr' = curr + 1
        /\ curr + 1 \notin DOMAIN data /\ \A b \in DOMAIN data : b <= curr + 1
    BY Zenon, <1>1, <1>5, RotateSizes
  <2> QED
    BY Zenon, <1>1, <1>2, <1>3, <1>5, <2>1, SameFiles, SizesWhenOpen DEF Serving
<1> QED
  BY Zenon, <1>4, <1>5 DEF FlushBegin

LEMMA SizesFlushNewData ==
  ASSUME IInv, FlushNewData
  PROVE  Sizes'
<1> DEFINE b == flushing_bucket
<1>1. /\ Serving /\ status = "open" /\ flushing = "new_data" /\ b \in Bucket
      /\ buckets[b] = size_on_disk(b) /\ BucketsOK
  BY Zenon DEF IInv, TypeOK, Sizes, Serving, FlushNewData
<1>2. /\ UNCHANGED <<data, curr, wbuf_start_pos, flush_buffer, fbuf_start_pos, flushing_bucket>>
      /\ flushing' = "fopen"
  BY Zenon DEF FlushNewData, index
<1>3. CASE b \in DOMAIN data
  <2>1. buckets[b] >= 0
    BY <1>1, <1>3, SizeType DEF size_on_disk, IInv, TypeOK
  <2>2. UNCHANGED <<status, buckets>>
    BY Zenon, <2>1 DEF FlushNewData
  <2> QED
    BY Zenon, <1>1, <1>2, <1>3, <2>2, SameFiles, SizesWhenOpen DEF Serving, held, size_on_disk
<1>4. CASE b \notin DOMAIN data
  <2>1. ~(buckets[b] >= 0)
    <3>1. buckets[b] = -1
      BY Zenon, <1>1, <1>4 DEF size_on_disk
    <3> QED
      BY <3>1
  <2>2. status' = status /\ buckets' = [buckets EXCEPT ![b] = 0]
    BY Zenon, <1>4, <2>1 DEF FlushNewData
  <2>3. buckets'[b] = 0 /\ \A c \in Bucket : c # b => buckets'[c] = buckets[c]
    BY Zenon, <1>1, <2>2 DEF BucketsOK
  <2> QED
    BY Zenon, <1>1, <1>2, <1>4, <2>2, <2>3, SameFiles, SizesWhenOpen DEF Serving, held
<1> QED
  BY Zenon, <1>3, <1>4

\* fopen leaves the contents of every file alone.
LEMMA FopenFiles ==
  ASSUME FlushOpen
  PROVE  /\ flushing_bucket \in DOMAIN data' /\ \A c : held(c)' = held(c)
         /\ \A c : c # flushing_bucket => size_on_disk(c)' = size_on_disk(c) /\ (c \in DOMAIN data' <=> c \in DOMAIN data)
         /\ Len(data'[flushing_bucket]) = held(flushing_bucket)
<1> DEFINE b == flushing_bucket
<1>1. CASE b \in DOMAIN data
  <2>1. data' = data
    BY Zenon, <1>1 DEF FlushOpen
  <2> QED
    BY Zenon, <1>1, <2>1, SameFiles DEF held
<1>2. CASE b \notin DOMAIN data
  <2>1. data' = with(data, b, <<>>)
    BY Zenon, <1>2 DEF FlushOpen
  <2>2. DOMAIN data' = DOMAIN data \cup {b} /\ data'[b] = <<>> /\ \A x \in DOMAIN data : data'[x] = data[x]
    BY Zenon, <1>2, <2>1 DEF with
  <2>3. Len(<<>>) = 0
    OBVIOUS
  <2>4. b \in DOMAIN data' /\ held(b) = 0 /\ Len(data'[b]) = 0
    BY Zenon, <1>2, <2>2, <2>3 DEF held
  <2>6. ASSUME NEW c, c = b
        PROVE  held(c)' = held(c)
    BY Zenon, <2>4, <2>6 DEF held
  <2>5. ASSUME NEW c, c # b
        PROVE  held(c)' = held(c) /\ size_on_disk(c)' = size_on_disk(c) /\ (c \in DOMAIN data' <=> c \in DOMAIN data)
    <3>1. c \in DOMAIN data' <=> c \in DOMAIN data
      BY Zenon, <2>2, <2>5
    <3> QED
      BY Zenon, <2>2, <2>5, <3>1 DEF held, size_on_disk
  <2> QED
    BY Zenon, <2>4, <2>5, <2>6
<1> QED
  BY Zenon, <1>1, <1>2

\* No data file is beyond the bucket that is being flushed.
LEMMA FlushingIsLast ==
  ASSUME TypeOK, Serving, flushing # "idle"
  PROVE  flushing_bucket \in Bucket /\ \A c \in DOMAIN data : c <= flushing_bucket
<1>1. /\ flushing_bucket \in Bucket /\ \A c \in DOMAIN data : c \in Bucket /\ c <= curr
      /\ curr = flushing_bucket \/ (curr = flushing_bucket + 1 /\ curr \notin DOMAIN data)
  BY Zenon DEF Serving, TypeOK, DataOK
<1> QED
  BY <1>1, RestartAssumption DEF Bucket

LEMMA SizesFlushOpen ==
  ASSUME IInv, FlushOpen
  PROVE  Sizes'
<1> DEFINE b == flushing_bucket
<1>1. /\ TypeOK /\ Serving /\ status = "open" /\ flushing = "fopen" /\ b \in Bucket
      /\ fbuf_start_pos = held(b)
  BY Zenon DEF IInv, Sizes, Serving, FlushOpen
<1>2. /\ UNCHANGED <<curr, wbuf_start_pos, flush_buffer, fbuf_start_pos, flushing_bucket, buckets>>
      /\ flushing' = "dump"
  BY Zenon DEF FlushOpen, index
<1>3. status' = "open"
  BY Zenon, <1>1, FopenFiles DEF FlushOpen
<1>4. \A c \in DOMAIN data' : c <= curr
  <2>1. b <= curr
    BY <1>1, RestartAssumption DEF Serving, Bucket
  <2> QED
    BY Zenon, <1>1, <2>1, FopenFiles DEF Serving
<1>5. curr = b + 1 => curr # b
  BY <1>1, RestartAssumption DEF Bucket
<1>6. Serving'
  BY Zenon, <1>1, <1>2, <1>4, <1>5, FopenFiles DEF Serving
<1> QED
  BY Zenon, <1>3, <1>6, SizesWhenOpen

LEMMA SizesFlushDump ==
  ASSUME IInv, FlushDump
  PROVE  Sizes'
<1> DEFINE b == flushing_bucket
<1>1. /\ Serving /\ status = "open" /\ flushing = "dump" /\ b \in Bucket /\ b \in DOMAIN data
      /\ BucketsOK
  BY Zenon DEF IInv, TypeOK, Sizes, Serving, FlushDump
<1>2. /\ UNCHANGED <<data, curr, wbuf_start_pos, flush_buffer, fbuf_start_pos, flushing_bucket, status>>
      /\ flushing' = "fclose" /\ buckets' = [buckets EXCEPT ![b] = Len(data[b]) + Len(flush_buffer)]
  BY Zenon DEF FlushDump, index
<1>3. /\ buckets'[b] = held(b) + Len(flush_buffer)
      /\ \A c \in Bucket : c # b => buckets'[c] = buckets[c]
  BY Zenon, <1>1, <1>2 DEF BucketsOK, held
<1> QED
  BY Zenon, <1>1, <1>2, <1>3, SameFiles, SizesWhenOpen DEF Serving

LEMMA SizesFlushClose ==
  ASSUME IInv, FlushClose
  PROVE  Sizes'
<1> DEFINE b == flushing_bucket
<1>1. /\ TypeOK /\ Serving /\ status = "open" /\ flushing = "fclose" /\ b \in Bucket /\ b \in DOMAIN data
      /\ BucketsOK /\ DataOK
  BY Zenon DEF IInv, TypeOK, Sizes, Serving, FlushClose
<1>2. /\ UNCHANGED <<curr, wbuf_start_pos, buckets, status>>
      /\ flushing_bucket' = -1 /\ flushing' = "idle" /\ data' = [data EXCEPT ![b] = @ \o flush_buffer]
  BY Zenon DEF FlushClose, index
<1>3. flush_buffer \in Seq(Block)
  BY Zenon, <1>1, RecordsAreBlocks DEF TypeOK, BuffersOK
<1>4. /\ DOMAIN data' = DOMAIN data /\ Len(data'[b]) = Len(data[b]) + Len(flush_buffer)
      /\ \A c \in DOMAIN data : c # b => data'[c] = data[c]
  BY Zenon, <1>1, <1>2, <1>3, DataGrows
<1>5. wbuf_start_pos = held(curr)'
  <2>1. CASE curr = b
    BY Zenon, <1>1, <1>2, <1>4, <2>1 DEF Serving, held
  <2>2. CASE curr # b
    BY Zenon, <1>1, <1>2, <1>4, <2>2 DEF Serving, held
  <2> QED
    BY Zenon, <2>1, <2>2
<1>6. \A c \in Bucket : buckets[c] = size_on_disk(c)'
  BY Zenon, <1>1, <1>4 DEF Serving, held, size_on_disk
<1>7. Serving'
  BY Zenon, <1>1, <1>2, <1>4, <1>5, <1>6 DEF Serving
<1> QED
  BY Zenon, <1>1, <1>2, <1>7, SizesWhenOpen

\* The process is gone, or starts.
LEMMA SizesDown ==
  ASSUME status' = "down", fresh_memory
  PROVE  Sizes'
BY Zenon, FreshType DEF Sizes, NeverExits

LEMMA SizesOpen ==
  ASSUME IInv, Open
  PROVE  Sizes'
<1>1. /\ Quiet /\ i = 0 /\ last = 0 /\ skipping = "data"
      /\ UNCHANGED <<data, wbuf_start_pos, flushing_bucket, flushing, i, last, skipping>>
      /\ buckets' = sizes_on_disk /\ status' \in {"refused", "skip"} /\ DataOK
  BY Zenon DEF IInv, TypeOK, Sizes, Open, disk, buffers, scan
<1>2. \A b \in Bucket : buckets'[b] = size_on_disk(b)'
  BY Zenon, <1>1, SameFiles, SizeType
<1>3. 0 <= 0 /\ \A b \in Bucket : ~(b < 0)
  BY RestartAssumption DEF Bucket
<1>4. Skipping'
  BY Zenon, <1>1, <1>2, <1>3 DEF Skipping
<1> QED
  BY Zenon, <1>1, <1>4 DEF Sizes, Quiet, NeverExits

LEMMA SizesSkip ==
  ASSUME status' = "skip", UNCHANGED <<flushing, flushing_bucket, wbuf_start_pos>>, Quiet, Skipping'
  PROVE  Sizes'
BY Zenon DEF Sizes, Quiet, NeverExits

LEMMA SizesSkipData ==
  ASSUME IInv, SkipData
  PROVE  Sizes'
<1>0. /\ TypeOK /\ DataOK /\ Quiet /\ Skipping /\ skipping = "data" /\ status = "skip" /\ i < MAX_BUCKET_COUNT
      /\ UNCHANGED <<flushing, flushing_bucket, wbuf_start_pos, buckets, status>>
  BY Zenon DEF IInv, TypeOK, Sizes, SkipData, buffers
<1>1. i \in Bucket /\ i \in Nat /\ last \in Nat /\ last <= i
  BY <1>0, RestartAssumption DEF TypeOK, ControlOK, Bucket, Skipping
<1>2. \A b \in Bucket : b \in Int /\ buckets[b] = size_on_disk(b) /\ buckets[b] \in Nat \cup {-1}
  BY <1>0, SizeType, RestartAssumption DEF Skipping, Bucket
<1>3. /\ \A b \in Bucket : b < last => buckets[b] > 0
      /\ \A b \in Bucket : last <= b /\ b < i => buckets[b] = -1
  BY Zenon, <1>0 DEF Skipping
<1>4. SUFFICES Skipping'
  BY Zenon, <1>0, SizesSkip
<1>5. CASE buckets[i] < 0
  <2>1. i' = i + 1 /\ UNCHANGED <<data, last, skipping>>
    BY Zenon, <1>5 DEF SkipData
  <2>2. buckets[i] = -1 /\ last <= i + 1 /\ \A b \in Bucket : b < i + 1 => b < i \/ b = i
    BY <1>1, <1>2, <1>5
  <2> QED
    BY Zenon, <1>0, <1>2, <1>3, <2>1, <2>2, SameFiles DEF Skipping
<1>6. CASE ~(buckets[i] < 0) /\ buckets[i] > 0 /\ i = last
  <2>1. i' = i + 1 /\ last' = last + 1 /\ UNCHANGED <<data, skipping>>
    BY Zenon, <1>6 DEF SkipData
  <2>2. /\ last + 1 <= i + 1 /\ \A b \in Bucket : b < last + 1 => b < last \/ b = i
        /\ \A b \in Bucket : ~(last + 1 <= b /\ b < i + 1)
    BY <1>1, <1>2, <1>6
  <2> QED
    BY Zenon, <1>0, <1>2, <1>3, <1>6, <2>1, <2>2, SameFiles DEF Skipping
<1>7. CASE ~(buckets[i] < 0) /\ ~(buckets[i] > 0 /\ i = last)
  <2>1. /\ UNCHANGED <<i, last>> /\ skipping' = "hint"
        /\ data' = IF buckets[i] > 0 THEN without(with(data, last, data[i]), i) ELSE without(data, i)
    BY Zenon, <1>7 DEF SkipData
  <2>2. buckets[i] >= 0 /\ i \in DOMAIN data /\ Len(data[i]) = buckets[i]
    <3>1. buckets[i] # -1 /\ buckets[i] >= 0
      BY <1>1, <1>2, <1>7
    <3> QED
      BY Zenon, <1>1, <1>2, <3>1 DEF size_on_disk
  <2>3. CASE buckets[i] > 0
    <3>1. last < i /\ last # i
      BY <1>1, <1>7, <2>3
    <3>2. data' = without(with(data, last, data[i]), i)
      BY Zenon, <2>1, <2>3
    <3>3. /\ DOMAIN data' = (DOMAIN data \cup {last}) \ {i}
          /\ \A x \in DOMAIN data' : data'[x] = IF x = last THEN data[i] ELSE data[x]
      BY Zenon, <2>2, <3>2 DEF with, without
    <3>4. buckets[i] # 0
      BY <2>3
    <3>5. size_on_disk(last)' = buckets[i] /\ i \notin DOMAIN data'
      <4>1. last \in DOMAIN data' /\ data'[last] = data[i] /\ i \notin DOMAIN data'
        BY Zenon, <3>1, <3>3
      <4> QED
        BY Zenon, <2>1, <2>2, <4>1 DEF size_on_disk
    <3>6. \A b : b # i /\ b # last => size_on_disk(b)' = size_on_disk(b)
      BY Zenon, <3>3 DEF size_on_disk
    <3> QED
      BY ZenonT(30), <1>0, <1>1, <1>2, <1>3, <2>1, <2>2, <3>1, <3>4, <3>5, <3>6 DEF Skipping
  <2>4. CASE ~(buckets[i] > 0)
    <3>1. data' = without(data, i) /\ ~(buckets[i] > 0)
      BY Zenon, <2>1, <2>4
    <3>2. \A b : b # i => size_on_disk(b)' = size_on_disk(b)
      BY ZenonT(30), <3>1, Without DEF size_on_disk
    <3>3. i \notin DOMAIN data'
      BY Zenon, <3>1, Without
    <3> QED
      BY ZenonT(30), <1>0, <1>1, <1>2, <1>3, <2>1, <2>2, <2>4, <3>2, <3>3 DEF Skipping
  <2> QED
    BY Zenon, <2>3, <2>4
<1> QED
  BY Zenon, <1>5, <1>6, <1>7

LEMMA SizesSkipHint ==
  ASSUME IInv, SkipHint
  PROVE  Sizes'
<1>1. /\ Quiet /\ Skipping /\ status = "skip" /\ skipping = "hint" /\ skipping' = "htree"
      /\ UNCHANGED <<flushing, flushing_bucket, wbuf_start_pos, data, buckets, status, i, last>>
  BY Zenon DEF IInv, Sizes, SkipHint, buffers
<1>2. Skipping'
  BY Zenon, <1>1, SameFiles DEF Skipping
<1> QED
  BY Zenon, <1>1, <1>2, SizesSkip

LEMMA SizesSkipHTree ==
  ASSUME IInv, SkipHTree
  PROVE  Sizes'
<1>0. /\ TypeOK /\ Quiet /\ Skipping /\ status = "skip" /\ skipping = "htree" /\ skipping' = "data"
      /\ UNCHANGED <<flushing, flushing_bucket, wbuf_start_pos, data, status>>
      /\ i' = i + 1 /\ BucketsOK
  BY Zenon DEF IInv, TypeOK, Sizes, SkipHTree, buffers
<1>1. /\ i \in Bucket /\ buckets[i] >= 0 /\ i \notin DOMAIN data
      /\ buckets[i] > 0 => last < i /\ size_on_disk(last) = buckets[i]
      /\ \A b \in Bucket \ {i} : b # last \/ buckets[i] = 0 => buckets[b] = size_on_disk(b)
      /\ \A b \in Bucket : b < last => buckets[b] > 0
      /\ \A b \in Bucket : last <= b /\ b < i => buckets[b] = -1
  BY Zenon, <1>0 DEF Skipping
<1>2. i \in Nat /\ last \in Nat /\ last <= i /\ (\A b \in Bucket : b \in Int) /\ buckets[i] \in Int
  BY <1>0, <1>1, RestartAssumption DEF TypeOK, ControlOK, Bucket, Skipping, BucketsOK
<1>3. SUFFICES Skipping'
  BY Zenon, <1>0, SizesSkip
<1>4. size_on_disk(i) = -1
  BY Zenon, <1>1 DEF size_on_disk
<1>5. CASE buckets[i] > 0
  <2>1. last \in Bucket /\ last # i /\ last + 1 <= i + 1
    BY <1>1, <1>2, <1>5, RestartAssumption DEF Bucket
  <2>2. buckets' = [buckets EXCEPT ![last] = buckets[i], ![i] = -1] /\ last' = last + 1
    BY Zenon, <1>5 DEF SkipHTree
  <2>3. /\ buckets'[last] = buckets[i] /\ buckets'[i] = -1
        /\ \A b \in Bucket : b # last /\ b # i => buckets'[b] = buckets[b]
    BY Zenon, <1>0, <1>1, <2>1, <2>2 DEF BucketsOK
  <2>4. /\ \A b \in Bucket : b < last + 1 => (b < last /\ b # last /\ b # i) \/ b = last
        /\ \A b \in Bucket : last + 1 <= b /\ b < i + 1 => (last <= b /\ b < i /\ b # last /\ b # i) \/ b = i
    BY <1>1, <1>2
  <2>5. \A b \in Bucket : b < last' => buckets'[b] > 0
    BY Zenon, <1>1, <1>5, <2>2, <2>3, <2>4
  <2>6. \A b \in Bucket : last' <= b /\ b < i' => buckets'[b] = -1
    BY Zenon, <1>0, <1>1, <2>2, <2>3, <2>4
  <2>7. \A b \in Bucket : buckets'[b] = size_on_disk(b)
    BY Zenon, <1>1, <1>4, <1>5, <2>3
  <2> QED
    BY ZenonT(30), <1>0, <2>1, <2>2, <2>5, <2>6, <2>7, SameFiles DEF Skipping
<1>6. CASE ~(buckets[i] > 0)
  <2>1. buckets[i] = 0 /\ last <= i + 1
    BY <1>1, <1>2, <1>6
  <2>2. buckets' = [buckets EXCEPT ![i] = -1] /\ last' = last
    BY Zenon, <1>6 DEF SkipHTree
  <2>3. buckets'[i] = -1 /\ \A b \in Bucket : b # i => buckets'[b] = buckets[b]
    BY Zenon, <1>0, <1>1, <2>2 DEF BucketsOK
  <2>4. /\ \A b \in Bucket : b < last => b # i
        /\ \A b \in Bucket : b < i + 1 => b < i \/ b = i
    BY <1>1, <1>2
  <2>5. \A b \in Bucket : b < last' => buckets'[b] > 0
    BY Zenon, <1>1, <2>2, <2>3, <2>4
  <2>6. \A b \in Bucket : last' <= b /\ b < i' => buckets'[b] = -1
    BY Zenon, <1>0, <1>1, <2>2, <2>3, <2>4
  <2>7. \A b \in Bucket : buckets'[b] = size_on_disk(b)
    BY Zenon, <1>1, <1>4, <2>1, <2>3
  <2> QED
    BY ZenonT(30), <1>0, <2>1, <2>2, <2>5, <2>6, <2>7, SameFiles DEF Skipping
<1> QED
  BY Zenon, <1>5, <1>6

\* When skip_empty_file is done, the data files are 0 .. last - 1.
LEMMA SkipDone ==
  ASSUME TypeOK, Skipping, i = MAX_BUCKET_COUNT
  PROVE  DOMAIN data = 0 .. last - 1 /\ \A b \in Bucket : buckets[b] = size_on_disk(b)
<1>1. i \notin Bucket /\ last \in Nat /\ last <= MAX_BUCKET_COUNT
  BY RestartAssumption DEF Bucket, TypeOK, ControlOK
<1>2. \A b \in Bucket : buckets[b] = size_on_disk(b)
  BY Zenon, <1>1 DEF Skipping
<1>3. \A b \in Bucket : b < last => b \in DOMAIN data
  <2>1. \A b \in Bucket : b < last => buckets[b] # -1
    BY DEF Skipping
  <2> QED
    BY Zenon, <1>2, <2>1 DEF size_on_disk
<1>4. \A b \in DOMAIN data : b \in Bucket /\ buckets[b] # -1
  BY <1>2, SizeType DEF TypeOK
<1>5. \A b \in DOMAIN data : b \in Bucket /\ ~(last <= b /\ b < i)
  BY Zenon, <1>4 DEF Skipping
<1>6. \A b \in DOMAIN data : b \in 0 .. last - 1
  BY <1>1, <1>5, RestartAssumption DEF Bucket
<1>7. \A b \in 0 .. last - 1 : b \in Bucket /\ b < last
  BY <1>1, RestartAssumption DEF Bucket
<1> QED
  BY Zenon, <1>2, <1>3, <1>6, <1>7

LEMMA SizesLoadSnapshot ==
  ASSUME IInv, LoadSnapshot
  PROVE  Sizes'
<1>1. /\ TypeOK /\ Quiet /\ Skipping /\ i = MAX_BUCKET_COUNT /\ i' = 0 /\ status' = "scan"
      /\ UNCHANGED <<flushing, flushing_bucket, wbuf_start_pos, data, buckets, last>>
  BY Zenon DEF IInv, Sizes, LoadSnapshot, buffers
<1>2. 0 <= last
  BY <1>1, RestartAssumption DEF TypeOK, ControlOK
<1>3. Scanning'
  BY Zenon, <1>1, <1>2, SkipDone, SameFiles DEF Scanning
<1> QED
  BY Zenon, <1>1, <1>3 DEF Sizes, Quiet, NeverExits

LEMMA SizesScanBucket ==
  ASSUME IInv, ScanBucket
  PROVE  Sizes'
<1>1. /\ TypeOK /\ Quiet /\ Scanning /\ i \in DOMAIN data /\ i' = i + 1 /\ status = "scan"
      /\ UNCHANGED <<flushing, flushing_bucket, wbuf_start_pos, data, buckets, last, status>>
  BY Zenon DEF IInv, Sizes, ScanBucket, buffers
<1>2. i + 1 <= last
  BY <1>1, RestartAssumption DEF Scanning, TypeOK, ControlOK
<1>3. Scanning'
  BY Zenon, <1>1, <1>2, SameFiles DEF Scanning
<1> QED
  BY Zenon, <1>1, <1>3 DEF Sizes, Quiet, NeverExits

LEMMA SizesScanEnd ==
  ASSUME IInv, ScanEnd
  PROVE  Sizes'
<1>1. /\ TypeOK /\ Quiet /\ Scanning /\ (i = MAX_BUCKET_COUNT \/ i \notin DOMAIN data)
      /\ curr' = i /\ status' = "open"
      /\ UNCHANGED <<flushing, flushing_bucket, wbuf_start_pos, data, buckets>>
  BY Zenon DEF IInv, Sizes, ScanEnd, buffers
<1>2. i \notin DOMAIN data /\ \A b \in DOMAIN data : b <= i
  BY <1>1, RestartAssumption DEF Scanning, TypeOK, ControlOK
<1>3. Serving'
  BY Zenon, <1>1, <1>2, SameFiles DEF Serving, Quiet, Scanning, held
<1> QED
  BY Zenon, <1>1, <1>3, SizesWhenOpen

-----------------------------------------------------------------------------
(***************************************************************************)
(* buckets.txt, one lemma per action.                                      *)
(***************************************************************************)
LEMMA MatchDumped ==
  ASSUME NEW s \in [Bucket -> Nat \cup {-1}]
  PROVE  sizes_match(dumped(s), s)
BY Zenon, Dumped DEF sizes_match

\* A listed file exists.
LEMMA ListedExists ==
  ASSUME TypeOK, sizes_match(buckets_txt, sizes_on_disk)
  PROVE  \A c \in DOMAIN buckets_txt : c \in DOMAIN data
<1>1. SUFFICES ASSUME NEW c \in DOMAIN buckets_txt, c \notin DOMAIN data
               PROVE  FALSE
  BY Zenon
<1>2. c \in Bucket /\ listed(buckets_txt, c) \in Nat
  BY Zenon DEF TypeOK, ListOK, listed
<1>3. sizes_on_disk[c] = -1
  BY Zenon, <1>1, <1>2 DEF sizes_on_disk, size_on_disk
<1>4. listed(buckets_txt, c) # sizes_on_disk[c] /\ ~(sizes_on_disk[c] >= 0)
  BY <1>2, <1>3
<1> QED
  BY Zenon, <1>2, <1>4 DEF sizes_match

\* The last file may grow before buckets.txt tells.
LEMMA MatchGrows ==
  ASSUME TypeOK, sizes_match(buckets_txt, sizes_on_disk),
         NEW b \in DOMAIN data, \A c \in DOMAIN data : c <= b,
         NEW x \in Seq(Block), data' = [data EXCEPT ![b] = @ \o x]
  PROVE  sizes_match(buckets_txt, sizes_on_disk')
<1>1. /\ DOMAIN data' = DOMAIN data /\ DataOK' /\ b \in Bucket
      /\ \A c \in DOMAIN data : c # b => data'[c] = data[c]
  BY Zenon, DataGrows DEF TypeOK, DataOK
<1>2. \A c \in Bucket : c # b => sizes_on_disk'[c] = sizes_on_disk[c]
  BY Zenon, <1>1 DEF sizes_on_disk, size_on_disk
<1>3. sizes_on_disk'[b] = Len(data'[b]) /\ Len(data'[b]) \in Nat
  BY Zenon, <1>1, LenProperties DEF sizes_on_disk, size_on_disk, DataOK
<1>4. sizes_on_disk'[b] >= 0
  BY <1>3
<1>5. \A c \in DOMAIN buckets_txt : b >= c
  <2>1. \A c \in DOMAIN buckets_txt : c <= b /\ c \in Bucket
    BY Zenon, ListedExists DEF TypeOK, ListOK
  <2> QED
    BY <1>1, <2>1, RestartAssumption DEF Bucket
<1> QED
  BY Zenon, <1>2, <1>4, <1>5 DEF sizes_match

\* The steps that leave the data files and buckets.txt alone.
LEMMA StillListed ==
  ASSUME Listed, UNCHANGED <<data, buckets_txt, exposed>>
  PROVE  /\ ~exposed' => sizes_match(buckets_txt, sizes_on_disk)'
         /\ status' \in {"down", "skip"} => Listed'
         /\ status' \in {"scan", "closing"} /\ ~exposed => Listed'
<1>1. sizes_match(buckets_txt, sizes_on_disk)' <=> sizes_match(buckets_txt, sizes_on_disk)
  BY Zenon, SameFiles
<1> QED
  BY Zenon, <1>1 DEF Listed, RefusedOnlyIfExposed

LEMMA StillListedOpen ==
  ASSUME Listed, status = "open",
         UNCHANGED <<data, buckets_txt, exposed, status, flushing, flushing_bucket, buckets>>
  PROVE  Listed'
<1>1. ~exposed' => sizes_match(buckets_txt, sizes_on_disk)'
  BY Zenon, StillListed
<1> QED
  BY Zenon, <1>1 DEF Listed, RefusedOnlyIfExposed

\* An open store outside the window of new_data.
LEMMA ListedWhenOpen ==
  ASSUME status' = "open", exposed' = FALSE, flushing' # "fopen" \/ flushing_bucket' \in DOMAIN data',
         sizes_match(buckets_txt, sizes_on_disk)'
  PROVE  Listed'
BY Zenon DEF Listed, RefusedOnlyIfExposed

LEMMA NotExposed ==
  ASSUME IInv, status = "open", flushing # "fopen" \/ flushing_bucket \in DOMAIN data
  PROVE  exposed = FALSE /\ sizes_match(buckets_txt, sizes_on_disk)
BY Zenon DEF IInv, TypeOK, ControlOK, Listed

LEMMA MatchRotate ==
  ASSUME IInv, sizes_match(buckets_txt, sizes_on_disk), data' = data,
         buckets_txt' = buckets_txt \/ buckets_txt' = dumped(sizes_on_disk)
  PROVE  sizes_match(buckets_txt, sizes_on_disk)'
<1>1. sizes_match(dumped(sizes_on_disk), sizes_on_disk)
  BY Zenon, SizeType, MatchDumped DEF IInv, TypeOK
<1> QED
  BY Zenon, <1>1, SameFiles

LEMMA ListedSetAppend ==
  ASSUME IInv, NEW k \in Key, NEW n \in VersionArg, SetAppend(k, n)
  PROVE  Listed'
<1>1. status = "open" /\ curr \in Bucket /\ UNCHANGED <<data, flushing, flushing_bucket, status, exposed>>
  BY Zenon DEF SetAppend
<1>2. CASE UNCHANGED <<buckets, buckets_txt>>
  BY Zenon, <1>1, <1>2, StillListedOpen DEF IInv
<1>3. CASE flushing = "idle" /\ \E t : bc_rotate(t)
  <2>1. exposed = FALSE /\ sizes_match(buckets_txt, sizes_on_disk)
    BY Zenon, <1>1, <1>3, NotExposed
  <2>2. buckets_txt' = buckets_txt \/ buckets_txt' = dumped(sizes_on_disk)
    BY Zenon, <1>1, <1>3, RotateSizes
  <2>3. sizes_match(buckets_txt, sizes_on_disk)'
    BY Zenon, <1>1, <2>1, <2>2, MatchRotate
  <2> QED
    BY Zenon, <1>1, <1>3, <2>1, <2>3, ListedWhenOpen
<1> QED
  BY Zenon, <1>2, <1>3 DEF SetAppend

LEMMA ListedFlushBegin ==
  ASSUME IInv, FlushBegin
  PROVE  Listed'
<1>1. /\ status = "open" /\ curr \in Bucket /\ flushing = "idle" /\ flushing' = "new_data"
      /\ UNCHANGED <<data, status, exposed>>
  BY Zenon DEF FlushBegin
<1>2. exposed = FALSE /\ sizes_match(buckets_txt, sizes_on_disk)
  BY Zenon, <1>1, NotExposed
<1>3. buckets_txt' = buckets_txt \/ buckets_txt' = dumped(sizes_on_disk)
  BY Zenon, <1>1, RotateSizes DEF FlushBegin
<1>4. sizes_match(buckets_txt, sizes_on_disk)'
  BY Zenon, <1>1, <1>2, <1>3, MatchRotate
<1> QED
  BY Zenon, <1>1, <1>2, <1>4, ListedWhenOpen

LEMMA ListedFlushNewData ==
  ASSUME IInv, Sizes', FlushNewData
  PROVE  Listed'
<1> DEFINE b == flushing_bucket
<1>1. /\ status = "open" /\ flushing = "new_data" /\ UNCHANGED <<data, flushing_bucket>>
      /\ flushing' = "fopen" /\ exposed' = (b \notin DOMAIN data)
      /\ buckets[b] = size_on_disk(b) /\ b \in Bucket /\ DataOK
  BY Zenon DEF FlushNewData, IInv, TypeOK, Sizes, Serving
<1>2. exposed = FALSE /\ sizes_match(buckets_txt, sizes_on_disk)
  BY Zenon, <1>1, NotExposed
<1>3. CASE b \in DOMAIN data
  <2>1. buckets[b] >= 0
    BY <1>1, <1>3, SizeType DEF size_on_disk
  <2>2. UNCHANGED <<status, buckets_txt>>
    BY Zenon, <2>1 DEF FlushNewData
  <2>3. sizes_match(buckets_txt, sizes_on_disk)'
    BY Zenon, <1>1, <1>2, <2>2, SameFiles
  <2> QED
    BY Zenon, <1>1, <1>3, <2>2, <2>3, ListedWhenOpen
<1>4. CASE b \notin DOMAIN data
  <2>1. ~(buckets[b] >= 0)
    <3>1. buckets[b] = -1
      BY Zenon, <1>1, <1>4 DEF size_on_disk
    <3> QED
      BY <3>1
  <2>2. status' = status /\ buckets_txt' = dumped(buckets')
    BY Zenon, <1>4, <2>1 DEF FlushNewData
  <2> QED
    BY Zenon, <1>1, <1>4, <2>2 DEF Listed, RefusedOnlyIfExposed
<1> QED
  BY Zenon, <1>3, <1>4

LEMMA ListedFlushOpen ==
  ASSUME IInv, TypeOK', Sizes', FlushOpen
  PROVE  Listed'
<1> DEFINE b == flushing_bucket
<1>1. /\ status = "open" /\ flushing = "fopen" /\ UNCHANGED <<flushing_bucket, buckets_txt, buckets>>
      /\ flushing' = "dump" /\ exposed' = FALSE /\ status' \in {"open", "exited"}
  BY Zenon DEF FlushOpen
<1>2. status' = "open" /\ Serving' /\ DataOK' /\ BucketsOK'
  BY Zenon, <1>1 DEF Sizes, NeverExits, TypeOK
<1>3. CASE b \in DOMAIN data
  <2>1. data' = data
    BY Zenon, <1>3 DEF FlushOpen
  <2>2. sizes_match(buckets_txt, sizes_on_disk)'
    BY ZenonT(30), <1>1, <1>3, <2>1, NotExposed, SameFiles
  <2> QED
    BY Zenon, <1>1, <1>2, <2>2, ListedWhenOpen
<1>4. CASE b \notin DOMAIN data
  <2>1. buckets_txt' = dumped(buckets')
    BY Zenon, <1>1, <1>4 DEF IInv, Listed
  <2>2. \A c \in Bucket : buckets'[c] = size_on_disk(c)'
    BY Zenon, <1>1, <1>2 DEF Serving, held, size_on_disk
  <2>3. buckets' = sizes_on_disk'
    BY Zenon, <1>2, <2>2 DEF BucketsOK, sizes_on_disk
  <2>4. sizes_match(buckets_txt, sizes_on_disk)'
    BY Zenon, <1>2, <2>1, <2>3, MatchDumped DEF BucketsOK
  <2> QED
    BY Zenon, <1>1, <1>2, <2>4, ListedWhenOpen
<1> QED
  BY Zenon, <1>3, <1>4

LEMMA ListedFlushDump ==
  ASSUME IInv, TypeOK', FlushDump
  PROVE  Listed'
<1> DEFINE b == flushing_bucket
<1>1. /\ status = "open" /\ flushing = "dump" /\ flushing' = "fclose" /\ UNCHANGED <<data, exposed, status>>
      /\ buckets_txt' = buckets_txt \/ buckets_txt' = dumped(buckets')
      /\ buckets' = [buckets EXCEPT ![b] = Len(data[b]) + Len(flush_buffer)]
  BY Zenon DEF FlushDump
<1>2. TypeOK /\ Serving /\ b \in DOMAIN data /\ b \in Bucket /\ BucketsOK' /\ BucketsOK /\ DataOK
  BY ZenonT(30), <1>1 DEF IInv, Sizes, TypeOK, Serving
<1>3. exposed = FALSE /\ sizes_match(buckets_txt, sizes_on_disk)
  BY Zenon, <1>1, NotExposed
<1>4. sizes_match(dumped(buckets'), sizes_on_disk)
  <2>1. \A c \in Bucket : c # b => buckets'[c] = sizes_on_disk[c]
    BY Zenon, <1>1, <1>2 DEF Serving, BucketsOK, sizes_on_disk
  <2>2. sizes_on_disk[b] >= 0
    BY <1>2, SizeType DEF size_on_disk
  <2>3. \A c \in Bucket : listed(dumped(buckets'), c) = buckets'[c]
    BY Zenon, <1>2, Dumped DEF BucketsOK
  <2>4. \A c \in DOMAIN dumped(buckets') : c \in Bucket /\ (c = b \/ c \in DOMAIN data)
    <3>1. \A c \in DOMAIN dumped(buckets') : c \in Bucket /\ buckets'[c] # -1
      BY Zenon, <1>2, Dumped DEF BucketsOK
    <3> QED
      BY Zenon, <2>1, <3>1 DEF sizes_on_disk, size_on_disk
  <2>5. \A c \in DOMAIN dumped(buckets') : c \in Bucket /\ (c = b \/ c <= b)
    BY Zenon, <1>1, <1>2, <2>4, FlushingIsLast
  <2>6. \A c \in DOMAIN dumped(buckets') : b >= c
    BY <1>2, <2>5, RestartAssumption DEF Bucket
  <2> QED
    BY Zenon, <2>1, <2>2, <2>3, <2>6 DEF sizes_match
<1>5. sizes_match(buckets_txt, sizes_on_disk)'
  BY Zenon, <1>1, <1>3, <1>4, SameFiles
<1> QED
  BY Zenon, <1>1, <1>3, <1>5, ListedWhenOpen

LEMMA ListedFlushClose ==
  ASSUME IInv, FlushClose
  PROVE  Listed'
<1> DEFINE b == flushing_bucket
<1>1. /\ status = "open" /\ flushing = "fclose" /\ flushing' = "idle"
      /\ UNCHANGED <<exposed, status, buckets_txt>> /\ data' = [data EXCEPT ![b] = @ \o flush_buffer]
  BY Zenon DEF FlushClose
<1>2. TypeOK /\ Serving /\ b \in DOMAIN data
  BY ZenonT(30), <1>1 DEF IInv, Sizes, Serving
<1>3. exposed = FALSE /\ sizes_match(buckets_txt, sizes_on_disk)
  BY Zenon, <1>1, NotExposed
<1>4. flush_buffer \in Seq(Block) /\ \A c \in DOMAIN data : c <= b
  BY ZenonT(30), <1>1, <1>2, RecordsAreBlocks, FlushingIsLast DEF TypeOK, BuffersOK
<1>5. sizes_match(buckets_txt, sizes_on_disk')
  BY Zenon, <1>1, <1>2, <1>3, <1>4, MatchGrows
<1>6. sizes_match(buckets_txt, sizes_on_disk)'
  BY Zenon, <1>1, <1>5
<1> QED
  BY Zenon, <1>1, <1>3, <1>6, ListedWhenOpen

LEMMA ListedCloseHint ==
  ASSUME IInv, CloseHint
  PROVE  Listed'
<1>1. /\ status = "open" /\ flushing = "idle" /\ status' = "closing" /\ curr \in Bucket
      /\ UNCHANGED <<exposed, data>>
      /\ buckets' = [buckets EXCEPT ![curr] = IF curr \in DOMAIN data THEN Len(data[curr]) ELSE @]
      /\ buckets_txt' = buckets_txt \/ buckets_txt' = dumped(buckets')
  BY Zenon DEF CloseHint
<1>2. exposed = FALSE /\ sizes_match(buckets_txt, sizes_on_disk)
  BY Zenon, <1>1, NotExposed
<1>3. buckets' = sizes_on_disk
  BY Zenon, <1>1, UpdateSize, IdleSizes
<1>4. sizes_match(buckets_txt, sizes_on_disk)'
  BY Zenon, <1>1, <1>2, <1>3, MatchRotate
<1> QED
  BY Zenon, <1>1, <1>2, <1>4 DEF Listed, RefusedOnlyIfExposed

LEMMA ListedDown ==
  ASSUME status' = "down", ~exposed' => sizes_match(buckets_txt, sizes_on_disk)'
  PROVE  Listed'
BY Zenon DEF Listed, RefusedOnlyIfExposed

LEMMA ListedCrash ==
  ASSUME IInv, Crash
  PROVE  Listed'
<1>1. status' = "down" /\ UNCHANGED <<buckets_txt, exposed>> /\ TypeOK /\ Listed
  BY Zenon DEF Crash, IInv
<1>2. CASE data' = data
  BY Zenon, <1>1, <1>2, StillListed
<1>3. CASE /\ flushing \in {"dump", "fclose"}
           /\ \E x \in torn(flush_buffer) : data' = [data EXCEPT ![flushing_bucket] = @ \o x]
  <2>1. PICK x \in torn(flush_buffer) : data' = [data EXCEPT ![flushing_bucket] = @ \o x]
    BY Zenon, <1>3
  <2>2. x \in Seq(Block)
    BY ZenonT(30), <1>1, TornType DEF TypeOK, BuffersOK
  <2>3. Serving /\ flushing_bucket \in DOMAIN data /\ flushing # "idle"
    BY ZenonT(30), <1>3 DEF IInv, Sizes, Quiet, Serving, Crash
  <2>4. \A c \in DOMAIN data : c <= flushing_bucket
    BY Zenon, <1>1, <2>3, FlushingIsLast
  <2>5. ~exposed => sizes_match(buckets_txt, sizes_on_disk')
    BY ZenonT(30), <1>1, <2>1, <2>2, <2>3, <2>4, MatchGrows DEF Listed
  <2>6. ~exposed' => sizes_match(buckets_txt, sizes_on_disk)'
    BY Zenon, <1>1, <2>5
  <2> QED
    BY Zenon, <1>1, <2>6, ListedDown
<1> QED
  BY Zenon, <1>2, <1>3 DEF Crash

LEMMA ListedCrashInDump ==
  ASSUME IInv, CrashInDump
  PROVE  Listed'
<1>1. status' = "down" /\ buckets_txt' = <<>> /\ data' = data /\ DataOK
  BY Zenon DEF CrashInDump, IInv, TypeOK
<1>2. \A b \in Bucket : sizes_on_disk[b] # -1 => sizes_on_disk[b] >= 0
  BY <1>1, SizeType
<1>3. DOMAIN <<>> = {}
  OBVIOUS
<1>4. sizes_match(<<>>, sizes_on_disk)
  BY Zenon, <1>2, <1>3 DEF sizes_match, listed
<1>5. sizes_match(buckets_txt, sizes_on_disk)'
  BY Zenon, <1>1, <1>4, SameFiles
<1> QED
  BY Zenon, <1>1, <1>5, ListedDown

LEMMA ListedOpen ==
  ASSUME IInv, Open
  PROVE  Listed'
<1>1. /\ UNCHANGED <<data, buckets_txt, exposed>> /\ status' \in {"refused", "skip"} /\ Listed
      /\ status' = "refused" => ~sizes_match(buckets_txt, sizes_on_disk)
  BY Zenon DEF Open, disk, IInv
<1>2. ~exposed' => sizes_match(buckets_txt, sizes_on_disk)'
  BY Zenon, <1>1, StillListed
<1>3. status' = "refused" => exposed
  BY Zenon, <1>1 DEF Listed
<1> QED
  BY Zenon, <1>1, <1>2, <1>3 DEF Listed, RefusedOnlyIfExposed

LEMMA ListedSkip ==
  ASSUME IInv, SkipData \/ SkipHint \/ SkipHTree
  PROVE  Listed'
<1>1. status' = "skip" /\ buckets_txt' = buckets_txt /\ Listed
  BY Zenon DEF SkipData, SkipHint, SkipHTree, IInv
<1>2. CASE UNCHANGED <<data, exposed>>
  BY Zenon, <1>1, <1>2, StillListed
<1>3. CASE exposed' = TRUE
  BY Zenon, <1>1, <1>3 DEF Listed, RefusedOnlyIfExposed
<1> QED
  BY Zenon, <1>2, <1>3 DEF SkipData, SkipHint, SkipHTree

LEMMA ListedLoadSnapshot ==
  ASSUME IInv, LoadSnapshot
  PROVE  Listed'
<1>1. /\ status' = "scan" /\ buckets_txt' = dumped(buckets) /\ exposed' = FALSE /\ data' = data
      /\ TypeOK /\ Skipping /\ i = MAX_BUCKET_COUNT
  BY Zenon DEF LoadSnapshot, IInv, Sizes
<1>2. buckets = sizes_on_disk
  BY Zenon, <1>1, SkipDone DEF TypeOK, BucketsOK, sizes_on_disk
<1>3. sizes_match(dumped(sizes_on_disk), sizes_on_disk)
  BY Zenon, <1>1, SizeType, MatchDumped DEF TypeOK
<1>4. sizes_match(buckets_txt, sizes_on_disk)'
  BY Zenon, <1>1, <1>2, <1>3, SameFiles
<1> QED
  BY Zenon, <1>1, <1>4 DEF Listed, RefusedOnlyIfExposed

LEMMA ListedScanEnd ==
  ASSUME IInv, ScanEnd
  PROVE  Listed'
<1>1. /\ status = "scan" /\ status' = "open" /\ UNCHANGED <<data, buckets_txt, exposed, flushing>>
      /\ flushing = "idle" /\ exposed = FALSE /\ Listed
  BY Zenon DEF ScanEnd, buffers, IInv, TypeOK, ControlOK, Sizes, Quiet, Listed
<1>2. sizes_match(buckets_txt, sizes_on_disk)'
  BY Zenon, <1>1, StillListed
<1> QED
  BY ZenonT(30), <1>1, <1>2, ListedWhenOpen

-----------------------------------------------------------------------------
(***************************************************************************)
(* The theorems.                                                           *)
(***************************************************************************)
LEMMA Starts ==
  ASSUME Init
  PROVE  IInv
<1>1. /\ data = <<>> /\ hint = <<>> /\ htree = <<>> /\ buckets_txt = <<>>
      /\ tree = EmptyTree /\ curr_tree = EmptyTree /\ curr = 0 /\ last_snapshot = -1
      /\ buckets = [b \in Bucket |-> -1] /\ building = {}
      /\ write_buffer = <<>> /\ wbuf_start_pos = 0 /\ flush_buffer = <<>> /\ fbuf_start_pos = 0
      /\ flushing_bucket = -1 /\ flushing = "idle"
      /\ i = 0 /\ last = 0 /\ skipping = "data" /\ status = "down" /\ exposed = FALSE
  BY Zenon DEF Init
<1>2. DOMAIN <<>> = {} /\ 0 \in 0 .. MAX_BUCKET_COUNT /\ 0 \in Nat
  BY RestartAssumption
<1>3. <<>> \in Seq(Record)
  BY Zenon, EmptySeq
<1>4. DataOK /\ HintOK /\ HTreeOK /\ ListOK
  BY Zenon, <1>1, <1>2 DEF DataOK, HintOK, HTreeOK, ListOK
<1>5. IndexOK /\ BucketsOK /\ BuildingOK /\ BuffersOK /\ ControlOK
  BY Zenon, <1>1, <1>2, <1>3, EmptyTreeType DEF IndexOK, BucketsOK, BuildingOK, BuffersOK, ControlOK
<1>6. Sizes
  BY Zenon, <1>1 DEF Sizes, Quiet, NeverExits
<1>7. \A b \in Bucket : listed(buckets_txt, b) = -1 /\ sizes_on_disk[b] = -1
  BY Zenon, <1>1, <1>2 DEF listed, sizes_on_disk, size_on_disk
<1>8. Listed
  BY Zenon, <1>1, <1>7 DEF Listed, sizes_match, RefusedOnlyIfExposed
<1> QED
  BY ZenonT(30), <1>4, <1>5, <1>6, <1>8 DEF IInv, TypeOK

LEMMA StepOpen ==
  ASSUME IInv,
         \/ \E k \in Key, n \in VersionArg : SetAppend(k, n) \/ SetRaise(k, n)
         \/ \E k \in Key : GetFails(k)
         \/ FlushBegin \/ FlushNewData \/ FlushOpen \/ FlushDump \/ FlushClose
  PROVE  IInv'
<1>0. TypeOK /\ Listed
  BY Zenon DEF IInv
<1>1. ASSUME NEW k \in Key, NEW n \in VersionArg, SetAppend(k, n) PROVE IInv'
  BY Zenon, <1>0, <1>1, TypeSetAppend, SizesSetAppend, ListedSetAppend DEF IInv
<1>2. ASSUME NEW k \in Key, NEW n \in VersionArg, SetRaise(k, n) PROVE IInv'
  <2>1. /\ UNCHANGED <<data, curr, flushing, flushing_bucket, wbuf_start_pos, fbuf_start_pos, flush_buffer,
                       buckets, buckets_txt, exposed, status>> /\ status = "open" /\ Serving
    BY Zenon, <1>2 DEF SetRaise, disk, buffers, IInv, Sizes
  <2> QED
    BY ZenonT(30), <1>0, <1>2, <2>1, TypeSetRaise, StillServing, SizesWhenOpen, StillListedOpen DEF IInv
<1>3. ASSUME NEW k \in Key, GetFails(k) PROVE IInv'
  <2>1. /\ UNCHANGED <<data, curr, flushing, flushing_bucket, wbuf_start_pos, fbuf_start_pos, flush_buffer,
                       buckets, buckets_txt, exposed, status>> /\ status = "open" /\ Serving
    BY Zenon, <1>3 DEF GetFails, disk, buffers, IInv, Sizes
  <2> QED
    BY ZenonT(30), <1>0, <1>3, <2>1, TypeGetFails, StillServing, SizesWhenOpen, StillListedOpen DEF IInv
<1>4. CASE FlushBegin
  BY Zenon, <1>0, <1>4, TypeFlushBegin, SizesFlushBegin, ListedFlushBegin DEF IInv
<1>5. CASE FlushNewData
  BY Zenon, <1>5, TypeFlushNewData, SizesFlushNewData, ListedFlushNewData DEF IInv
<1>6. CASE FlushOpen
  BY Zenon, <1>6, TypeFlushOpen, SizesFlushOpen, ListedFlushOpen DEF IInv
<1>7. CASE FlushDump
  BY Zenon, <1>7, TypeFlushDump, SizesFlushDump, ListedFlushDump DEF IInv
<1>8. CASE FlushClose
  BY Zenon, <1>8, TypeFlushClose, SizesFlushClose, ListedFlushClose DEF IInv
<1> QED
  BY ZenonT(30), <1>1, <1>2, <1>3, <1>4, <1>5, <1>6, <1>7, <1>8

LEMMA StepHintClose ==
  ASSUME IInv, (\E h \in building : build_hint(h)) \/ CloseHint \/ CloseSave \/ Crash \/ CrashInDump
  PROVE  IInv'
<1>0. TypeOK /\ Listed
  BY Zenon DEF IInv
<1>1. ASSUME NEW h \in building, build_hint(h) PROVE IInv'
  <2>1. /\ UNCHANGED <<data, curr, flushing, flushing_bucket, wbuf_start_pos, fbuf_start_pos, flush_buffer,
                       buckets, buckets_txt, exposed, status>> /\ status \in {"open", "closing"}
    BY Zenon, <1>1 DEF build_hint, index, buffers
  <2>2. TypeOK'
    BY Zenon, <1>0, <1>1, TypeBuildHint
  <2>3. CASE status = "open"
    BY ZenonT(30), <1>0, <2>1, <2>2, <2>3, StillServing, SizesWhenOpen, StillListedOpen DEF IInv, Sizes
  <2>4. CASE status = "closing"
    <3>1. Sizes'
      BY Zenon, <2>1, <2>4 DEF IInv, Sizes, NeverExits
    <3>2. ~exposed
      BY Zenon, <1>0, <2>4 DEF Listed
    <3> QED
      BY ZenonT(30), <1>0, <2>1, <2>2, <2>4, <3>1, <3>2, StillListed DEF IInv
  <2> QED
    BY Zenon, <2>1, <2>3, <2>4
<1>2. CASE CloseHint
  <2>1. Sizes'
    BY Zenon, <1>2 DEF CloseHint, index, buffers, Sizes, NeverExits
  <2> QED
    BY Zenon, <1>0, <1>2, <2>1, TypeCloseHint, ListedCloseHint DEF IInv
<1>3. CASE CloseSave
  <2>1. status' = "down" /\ fresh_memory /\ UNCHANGED <<data, buckets_txt, exposed>>
    BY Zenon, <1>3 DEF CloseSave
  <2> QED
    BY ZenonT(30), <1>0, <1>3, <2>1, TypeCloseSave, SizesDown, StillListed DEF IInv
<1>4. CASE Crash
  <2>1. status' = "down" /\ fresh_memory
    BY Zenon, <1>4 DEF Crash
  <2> QED
    BY Zenon, <1>4, <2>1, TypeCrash, SizesDown, ListedCrash DEF IInv
<1>5. CASE CrashInDump
  <2>1. status' = "down" /\ fresh_memory
    BY Zenon, <1>5 DEF CrashInDump
  <2> QED
    BY Zenon, <1>5, <2>1, TypeCrash, SizesDown, ListedCrashInDump DEF IInv
<1> QED
  BY Zenon, <1>1, <1>2, <1>3, <1>4, <1>5

LEMMA StepStart ==
  ASSUME IInv, Start
  PROVE  IInv'
<1>0. TypeOK /\ Listed
  BY Zenon DEF IInv
<1>1. CASE Open
  BY Zenon, <1>0, <1>1, TypeOpen, SizesOpen, ListedOpen DEF IInv
<1>2. CASE SkipData
  BY Zenon, <1>2, TypeSkipData, SizesSkipData, ListedSkip DEF IInv
<1>3. CASE SkipHint
  BY Zenon, <1>3, TypeSkipHint, SizesSkipHint, ListedSkip DEF IInv
<1>4. CASE SkipHTree
  BY ZenonT(30), <1>4, TypeSkipHTree, SizesSkipHTree, ListedSkip DEF IInv
<1>5. CASE LoadSnapshot
  BY Zenon, <1>0, <1>5, TypeLoadSnapshot, SizesLoadSnapshot, ListedLoadSnapshot DEF IInv
<1>6. CASE ScanBucket
  <2>1. status = "scan" /\ UNCHANGED <<data, buckets_txt, exposed, status>> /\ ~exposed
    BY ZenonT(30), <1>0, <1>6 DEF ScanBucket, Listed
  <2> QED
    BY ZenonT(30), <1>0, <1>6, <2>1, TypeScanBucket, SizesScanBucket, StillListed DEF IInv
<1>7. CASE ScanEnd
  BY Zenon, <1>0, <1>7, TypeScanEnd, SizesScanEnd, ListedScanEnd DEF IInv
<1> QED
  BY ZenonT(30), <1>1, <1>2, <1>3, <1>4, <1>5, <1>6, <1>7 DEF Start

LEMMA Stutters ==
  ASSUME IInv, UNCHANGED vars
  PROVE  IInv'
<1>1. UNCHANGED <<data, hint, htree, buckets_txt>> /\ UNCHANGED <<tree, curr_tree, curr, last_snapshot>>
      /\ UNCHANGED <<write_buffer, wbuf_start_pos, flush_buffer, fbuf_start_pos, flushing_bucket, flushing>>
      /\ UNCHANGED <<buckets, building, status>> /\ UNCHANGED <<i, last, skipping, exposed>>
  BY Zenon DEF vars, disk, index, buffers, scan
<1>2. TypeOK'
  BY ZenonT(30), <1>1 DEF IInv, TypeOK, DataOK, HintOK, HTreeOK, ListOK, IndexOK, BucketsOK, BuildingOK,
     BuffersOK, ControlOK
<1>3. Sizes'
  <2>1. (Serving => Serving') /\ (Skipping => Skipping') /\ (Scanning => Scanning') /\ (Quiet => Quiet')
    BY Zenon, <1>1, StillServing, SameFiles DEF Skipping, Scanning, Quiet
  <2> QED
    BY Zenon, <1>1, <2>1 DEF IInv, Sizes, NeverExits
<1>4. Listed'
  BY Zenon, <1>1, SameFiles DEF IInv, Listed, RefusedOnlyIfExposed
<1> QED
  BY Zenon, <1>2, <1>3, <1>4 DEF IInv

(***************************************************************************)
(* Between any two writes to the disk, crash or no crash, the sizes in     *)
(* memory, the positions of the two buffers and buckets.txt stand in the   *)
(* relation that IInv says to the data files (init_buckets,                *)
(* skip_empty_file, bc_scan, bc_flush, bc_rotate, new_data, bc_close).     *)
(***************************************************************************)
THEOREM Invariant == Spec => []IInv
<1>1. Init => IInv
  BY Zenon, Starts
<1>2. IInv /\ [Next]_vars => IInv'
  BY Zenon, StepOpen, StepHintClose, StepStart, Stutters DEF Next
<1> QED
  BY <1>1, <1>2, PTL DEF Spec

(***************************************************************************)
(* bc_flush never finds "last pos not match" and new_data never "should    *)
(* not exist", however often the process died and wherever.                *)
(***************************************************************************)
THEOREM FlushNeverExits == Spec => []NeverExits
<1>1. IInv => NeverExits
  BY Zenon DEF IInv, Sizes
<1> QED
  BY <1>1, Invariant, PTL

(***************************************************************************)
(* With -C init_buckets refuses a store only after a crash in the window   *)
(* of new_data or in that of skip_empty_file.                              *)
(***************************************************************************)
THEOREM RefusalIsExplained == Spec => []RefusedOnlyIfExposed
<1>1. IInv => RefusedOnlyIfExposed
  BY Zenon DEF IInv, Listed
<1> QED
  BY <1>1, Invariant, PTL
=============================================================================
