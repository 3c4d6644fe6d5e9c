-------------------------- MODULE BitcaskReadProofs --------------------------
(***************************************************************************)
(* Every record that the index names can be read: the proof that bc_get    *)
(* never fails while bc_set, bc_flush and rotations move records around.   *)
(* Then, for BitcaskStoreProofs, what the same moves do to a record's value*)
(* and to the records of the log that the index has yet to take in.        *)
(***************************************************************************)
EXTENDS BitcaskProofs, BitcaskRefinement

----------------------------------------------------------------------------
(***************************************************************************)
(* bc_get and bc_set find the records that they have been sent to.         *)
(***************************************************************************)
\* A step moves no record out of sight.
Kept == \A i \in Item, k \in Key : (at(i, k) => at(i, k)') /\ (in_file(i, k) => in_file(i, k)')

LEMMA ReadsInit == Init => Reads
BY ConstantsAssumption DEF Init, Reads, reads_ok, Readable, EmptyTree, NoItem, ReadLabel

\* A thread that does not move keeps what it relies on.
LEMMA ReadsOther ==
  ASSUME TypeOK, Locks, NEW u \in Client, reads_ok(u),
         Kept, curr' \in Nat, curr' >= curr,
         pc'[u] = pc[u], item'[u] = item[u], arg'[u] = arg[u], it'[u] = it[u],
         write_lock' = u => write_lock = u
  PROVE  reads_ok(u)'
<1>1. curr \in Nat /\ item[u] \in Item /\ it[u] \in Item /\ item[u].bucket \in Nat
  BY Zenon, NumberTypes DEF TypeOK, Item
<1>2. pc[u] # "idle" => arg[u].key \in Key
  BY Zenon DEF TypeOK
<1>3. write_lock = u => arg[u].key \in Key
  BY Zenon, <1>2 DEF Locks, SetLabel, ReadLabel
<1>4. write_lock' = u => (it'[u].ver # 0 => at(it[u], arg[u].key)')
  <2> SUFFICES ASSUME write_lock' = u, it'[u].ver # 0 PROVE at(it[u], arg[u].key)'
    OBVIOUS
  <2>1. PICK i \in Item, k \in Key : i = it[u] /\ k = arg[u].key
    BY Zenon, <1>1, <1>3
  <2>2. at(i, k)
    BY Zenon, <2>1 DEF reads_ok
  <2>3. at(i, k)'
    BY Zenon, <2>2 DEF Kept
  <2>4. it'[u] = i /\ arg'[u].key = k
    BY Zenon, <2>1
  <2> QED
    BY Zenon, <2>3, <2>4 DEF at, in_wbuf, in_fbuf, in_file, holds, decodes
<1>5. pc'[u] \in {"check_curr", "check_flushing", "buffers", "index_curr", "index_tree"}
        => at(item[u], arg[u].key)'
  <2> SUFFICES ASSUME pc[u] \in {"check_curr", "check_flushing", "buffers", "index_curr", "index_tree"}
               PROVE  at(item[u], arg[u].key)'
    OBVIOUS
  <2>1. PICK i \in Item, k \in Key : i = item[u] /\ k = arg[u].key
    BY Zenon, <1>1, <1>2
  <2>2. at(i, k)
    BY Zenon, <2>1 DEF reads_ok
  <2>3. at(i, k)'
    BY Zenon, <2>2 DEF Kept
  <2>4. item'[u] = i /\ arg'[u].key = k
    BY Zenon, <2>1
  <2> QED
    BY Zenon, <2>3, <2>4 DEF at, in_wbuf, in_fbuf, in_file, holds, decodes
<1>6. pc'[u] = "file" => in_file(item[u], arg[u].key)'
  <2> SUFFICES ASSUME pc[u] = "file" PROVE in_file(item[u], arg[u].key)'
    OBVIOUS
  <2>1. PICK i \in Item, k \in Key : i = item[u] /\ k = arg[u].key
    BY Zenon, <1>1, <1>2
  <2>2. in_file(i, k)'
    BY Zenon, <2>1 DEF reads_ok, Kept
  <2>3. item'[u] = i /\ arg'[u].key = k
    BY Zenon, <2>1
  <2> QED
    BY Zenon, <2>2, <2>3 DEF in_file, holds, decodes
<1>7. pc'[u] = "check_flushing" => item'[u].bucket < curr'
  BY <1>1 DEF reads_ok
<1>8. write_lock' = u => /\ arg'[u].ver # 0
                         /\ pc'[u] \in ReadLabel \cup {"lookup", "raise"} => it'[u].ver # 0
  BY Zenon DEF reads_ok
<1>9. pc'[u] \notin {"look_again", "remove"}
  BY Zenon DEF reads_ok
<1> QED
  BY Zenon, <1>4, <1>5, <1>6, <1>7, <1>8, <1>9 DEF reads_ok

\* The index keeps naming records that can be read.
LEMMA ReadableKept ==
  ASSUME TypeOK, Readable, UNCHANGED tree, curr' \in Nat, curr' >= curr,
         Kept
  PROVE  Readable'
<1> SUFFICES ASSUME curr' < MAX_BUCKET_COUNT, NEW k \in Key, tree'[k].ver # 0
             PROVE  at(tree[k], k)'
  BY Zenon DEF Readable
<1>1. curr < MAX_BUCKET_COUNT
  BY NumberTypes, ConstantsAssumption
<1>2. PICK i \in Item : i = tree[k]
  BY Zenon DEF TypeOK, Tree
<1>3. at(i, k)'
  BY Zenon, <1>1, <1>2 DEF Readable, Kept
<1>4. tree'[k] = i
  BY Zenon, <1>2
<1> QED
  BY Zenon, <1>3, <1>4 DEF at, in_wbuf, in_fbuf, in_file, holds, decodes

LEMMA KeptQuiet ==
  ASSUME UNCHANGED <<curr, write_buffer, wbuf_start_pos, flush_buffer, fbuf_start_pos,
                     flushing_bucket, data>>
  PROVE  Kept
<1>1. \A i \in Item, k \in Key : at(i, k) => at(i, k)'
  BY Zenon, AtQuiet
<1>2. \A i \in Item, k \in Key : in_file(i, k) => in_file(i, k)'
  BY Zenon DEF in_file, holds, decodes
<1> QED
  BY Zenon, <1>1, <1>2 DEF Kept

LEMMA KeptSet ==
  ASSUME TypeOK, Locks, Files, NEW t \in Client, SetStep(t)
  PROVE  Kept
<1>1. UNCHANGED data
  BY Zenon DEF SetStep, SetLookup, SetAppend, SetDouble, SetGrown, SetIndexCurr, SetIndexTree,
         SetRaise, SetUnlock, disk
<1> QED
  BY Zenon, <1>1, AtSet, FileKept DEF Kept

LEMMA KeptFlush ==
  ASSUME TypeOK, Locks, Files, NEW f \in Client \cup {Flusher}, FlushStep(f)
  PROVE  Kept
<1>1. UNCHANGED data \/ FlushWrite(f)
  BY Zenon DEF FlushStep, FlushEnter, FlushNothing, FlushBegin, FlushEnd, disk
<1> QED
  BY Zenon, <1>1, AtFlush, FileKept DEF Kept

\* A thread that moves to a label with no expectations of its own.
LEMMA ReadsPlain ==
  ASSUME TypeOK, Locks, NEW u \in Client, reads_ok(u), Kept, arg'[u] = arg[u], it'[u] = it[u],
         write_lock' = u => write_lock = u,
         pc'[u] \in {"append", "flush", "grow", "unlock", "return"}
  PROVE  reads_ok(u)'
<1>1. it[u] \in Item
  BY Zenon DEF TypeOK
<1>2. write_lock = u => arg[u].key \in Key
  BY Zenon DEF TypeOK, Locks, SetLabel, ReadLabel
<1>3. write_lock' = u => (it'[u].ver # 0 => at(it[u], arg[u].key)')
  <2> SUFFICES ASSUME write_lock' = u, it'[u].ver # 0 PROVE at(it[u], arg[u].key)'
    OBVIOUS
  <2>1. PICK i \in Item, k \in Key : i = it[u] /\ k = arg[u].key
    BY Zenon, <1>1, <1>2
  <2>2. at(i, k)'
    BY Zenon, <2>1 DEF reads_ok, Kept
  <2>3. it'[u] = i /\ arg'[u].key = k
    BY Zenon, <2>1
  <2> QED
    BY Zenon, <2>2, <2>3 DEF at, in_wbuf, in_fbuf, in_file, holds, decodes
<1>4. write_lock' = u => arg'[u].ver # 0
  BY Zenon DEF reads_ok
<1> QED
  BY Zenon, <1>3, <1>4 DEF reads_ok, ReadLabel

\* Likewise for a bc_set that finds its own value stored, or a new place for it.
LEMMA ReadsSetter ==
  ASSUME TypeOK, Locks, NEW u \in Client, reads_ok(u), Kept, arg'[u] = arg[u], it'[u] = it[u],
         write_lock = u, it[u].ver # 0 \/ pc'[u] \in {"index_curr", "index_tree"},
         \/ pc'[u] = "raise"
         \/ pc'[u] \in {"check_curr", "index_curr", "index_tree"} /\ at(item[u], arg[u].key)'
  PROVE  reads_ok(u)'
<1>1. it[u] \in Item
  BY Zenon DEF TypeOK
<1>2. arg[u].key \in Key
  BY Zenon DEF TypeOK, Locks, SetLabel, ReadLabel
<1>3. it'[u].ver # 0 => at(it[u], arg[u].key)'
  <2> SUFFICES ASSUME it'[u].ver # 0 PROVE at(it[u], arg[u].key)'
    OBVIOUS
  <2>1. PICK i \in Item, k \in Key : i = it[u] /\ k = arg[u].key
    BY Zenon, <1>1, <1>2
  <2>2. at(i, k)'
    BY Zenon, <2>1 DEF reads_ok, Kept
  <2>3. it'[u] = i /\ arg'[u].key = k
    BY Zenon, <2>1
  <2> QED
    BY Zenon, <2>2, <2>3 DEF at, in_wbuf, in_fbuf, in_file, holds, decodes
<1>4. arg'[u].ver # 0
  BY Zenon DEF reads_ok
<1> QED
  BY Zenon, <1>3, <1>4 DEF reads_ok, ReadLabel

\* The answer of bc_get.
LEMMA ReadsReturn ==
  ASSUME TypeOK, Locks, NEW t \in Client, reads_ok(t), Kept, arg'[t] = arg[t], it'[t] = it[t],
         UNCHANGED write_lock, write_lock = t => it[t].ver # 0,
         NEW found, NEW r, get_returns(t, found, r)
  PROVE  reads_ok(t)'
<1>1. CASE write_lock = t
  <2>1. pc'[t] \in {"append", "raise", "unlock"}
    BY Zenon, <1>1 DEF get_returns, goto, TypeOK
  <2> QED
    BY Zenon, <1>1, <2>1, ReadsPlain, ReadsSetter
<1>2. CASE write_lock # t
  <2>1. pc'[t] = "return"
    BY Zenon, <1>2 DEF get_returns, goto, TypeOK
  <2> QED
    BY Zenon, <2>1, ReadsPlain
<1> QED
  BY Zenon, <1>1, <1>2

LEMMA ReadsGet ==
  ASSUME TypeOK, Locks, Files, Reads, NEW t \in Client, GetStep(t)
  PROVE  Reads'
<1> USE DEF index, wbuf, fbuf, disk, threads, locals
<1>1. /\ Kept /\ reads_ok(t) /\ Readable
      /\ UNCHANGED <<curr, wbuf, fbuf, disk, write_lock>>
      /\ curr' \in Nat /\ curr' >= curr
  BY GetFrame, KeptQuiet, NumberTypes DEF Reads
<1>2. UNCHANGED tree
  BY Zenon, <1>1, GetFrame DEF reads_ok
<1>3. Readable'
  BY Zenon, <1>1, <1>2, ReadableKept
<1>4. \A u \in Client \ {t} : reads_ok(u)'
  BY Zenon, <1>1, GetFrame, ReadsOther DEF Reads
<1>5. arg[t].key \in Key /\ item[t] \in Item /\ it[t] \in Item /\ curr \in Nat
  BY Zenon, GetFrame, NumberTypes DEF TypeOK, ReadLabel
\* Where the record is, from the labels that say it is somewhere.
<1>6. ASSUME at(item[t], arg[t].key)
      PROVE  /\ item[t].bucket <= curr
             /\ LET w == item[t].bucket = curr /\ item[t].off >= wbuf_start_pos
                    f == item[t].bucket = flushing_bucket /\ item[t].off >= fbuf_start_pos
                IN /\ w => in_wbuf(item[t], arg[t].key)
                   /\ ~w /\ f => in_fbuf(item[t], arg[t].key)
                   /\ ~w /\ ~f => in_file(item[t], arg[t].key)
  BY Zenon, <1>5, <1>6, WhereItIs
<1>7. pc[t] \in ReadLabel => arg'[t] = arg[t] /\ it'[t] = it[t]
  BY Zenon, GetFrame
<1>8. pc[t] \in ReadLabel => (write_lock = t => it[t].ver # 0)
  BY Zenon, <1>1 DEF reads_ok
<1>9. reads_ok(t)'
  <2>1. CASE CheckCurr(t)
    <3>1. at(item[t], arg[t].key) /\ item[t].bucket <= curr
      BY Zenon, <1>1, <1>6, <2>1 DEF CheckCurr, reads_ok
    <3>2. item[t].bucket \in Nat
      BY Zenon, <1>5 DEF Item
    <3>3. \/ pc'[t] = "buffers"
          \/ pc'[t] = "check_flushing" /\ item[t].bucket < curr
      <4>1. pc'[t] = IF item[t].bucket > curr THEN "remove"
                     ELSE IF item[t].bucket = curr THEN "buffers"
                     ELSE "check_flushing"
        <5>1. pc \in [Client -> Label]
          BY Zenon DEF TypeOK
        <5> QED
          BY Zenon, <2>1, <5>1 DEF CheckCurr, goto
      <4>a. \A m, n \in Nat : m <= n => (m = n \/ m < n) /\ ~(m > n)
        OBVIOUS
      <4>b. curr \in Nat
        BY Zenon, <1>5
      <4>2. item[t].bucket = curr \/ item[t].bucket < curr
        BY Zenon, <3>1, <3>2, <4>a, <4>b
      <4>3. ~(item[t].bucket > curr)
        BY Zenon, <3>1, <3>2, <4>a, <4>b
      <4> QED
        BY Zenon, <4>1, <4>2, <4>3
    <3> QED
      BY Zenon, <1>1, <2>1, <3>1, <3>3 DEF CheckCurr, reads_ok, at, in_wbuf, in_fbuf, in_file, holds, decodes, ReadLabel
  <2>2. CASE CheckFlushing(t)
    <3>1. at(item[t], arg[t].key) /\ item[t].bucket < curr
      BY Zenon, <1>1, <2>2 DEF CheckFlushing, reads_ok
    <3>2. item[t].bucket \in Nat
      BY <1>5 DEF Item
    <3>3. \/ pc'[t] = "buffers"
          \/ pc'[t] = "file" /\ in_file(item[t], arg[t].key)
      <4>1. CASE item[t].bucket = flushing_bucket
        BY Zenon, <2>2, <4>1 DEF CheckFlushing, goto, TypeOK
      <4>2. CASE item[t].bucket # flushing_bucket
        <5>1. pc'[t] = "file"
          BY Zenon, <2>2, <4>2 DEF CheckFlushing, goto, TypeOK
        <5>2. item[t].bucket # curr
          BY <1>5, <3>1, <3>2
        <5>3. in_file(item[t], arg[t].key)
          BY Zenon, <1>6, <3>1, <4>2, <5>2
        <5> QED
          BY Zenon, <5>1, <5>3
      <4> QED
        BY Zenon, <4>1, <4>2
    <3> QED
      BY ZenonT(30), <1>1, <2>2, <3>1, <3>3 DEF CheckFlushing, reads_ok, at, in_wbuf, in_fbuf, in_file, holds, decodes, ReadLabel
  <2>3. CASE ReadBuffers(t)
    <3>1. at(item[t], arg[t].key) /\ pc[t] \in ReadLabel
      BY Zenon, <1>1, <2>3 DEF ReadBuffers, reads_ok, ReadLabel
    <3>2. CASE \E r : get_returns(t, TRUE, r)
      BY ZenonT(30), <1>1, <1>7, <1>8, <3>1, <3>2, ReadsReturn
    <3>3. CASE /\ goto(t, "file")
               /\ LET w == item[t].bucket = curr /\ item[t].off >= wbuf_start_pos
                      f == ~w /\ item[t].bucket = flushing_bucket /\ item[t].off >= fbuf_start_pos
                  IN ~((w \/ f) /\ decodes(IF w THEN write_buffer ELSE flush_buffer,
                                           item[t].off - (IF w THEN wbuf_start_pos ELSE fbuf_start_pos)))
      <4>1. in_file(item[t], arg[t].key)
        BY Zenon, <1>6, <3>1, <3>3 DEF in_wbuf, in_fbuf, holds
      <4>2. pc'[t] = "file"
        BY Zenon, <3>3 DEF goto, TypeOK
      <4> QED
        BY Zenon, <1>1, <2>3, <3>1, <4>1, <4>2 DEF ReadBuffers, reads_ok, at, in_wbuf, in_fbuf, in_file, holds, decodes, ReadLabel
    <3> QED
      BY Zenon, <2>3, <3>2, <3>3 DEF ReadBuffers
  <2>4. CASE ReadFile(t)
    <3>1. in_file(item[t], arg[t].key) /\ pc[t] \in ReadLabel
      BY Zenon, <1>1, <2>4 DEF ReadFile, reads_ok, ReadLabel
    <3>2. \E r : get_returns(t, TRUE, r)
      BY Zenon, <2>4, <3>1 DEF ReadFile, in_file, holds
    <3> QED
      BY Zenon, <1>1, <1>7, <1>8, <3>1, <3>2, ReadsReturn
  <2>5. CASE LookAgain(t) \/ RemoveKey(t)
    BY Zenon, <1>1, <2>5 DEF LookAgain, RemoveKey, reads_ok
  <2>6. CASE Return(t)
    <3>1. write_lock # t /\ pc'[t] = "idle"
      BY Zenon, <2>6 DEF Return, finish, goto, TypeOK, Locks, SetLabel, ReadLabel
    <3> QED
      BY Zenon, <1>1, <3>1 DEF reads_ok
  <2> QED
    BY Zenon, <2>1, <2>2, <2>3, <2>4, <2>5, <2>6 DEF GetStep
<1> QED
  BY Zenon, <1>3, <1>4, <1>9 DEF Reads

LEMMA ReadsSet ==
  ASSUME NoWrap, TypeOK, Locks, Buffers, Files, Reads, NEW t \in Client, SetStep(t),
         curr < MAX_BUCKET_COUNT, curr' < MAX_BUCKET_COUNT
  PROVE  Reads'
<1> USE DEF index, wbuf, fbuf, disk, threads, locals
<1>1. Kept /\ reads_ok(t) /\ Readable
  BY Zenon, KeptSet DEF Reads
<1>2. /\ pc[t] \in SetLabel /\ write_lock = t /\ arg[t].key \in Key /\ arg[t].ver # 0
      /\ it[t] \in Item /\ item[t] \in Item
  <2>1. pc[t] \in SetLabel /\ pc[t] # "idle"
    BY Zenon DEF SetStep, SetLookup, SetAppend, SetDouble, SetGrown, SetIndexCurr, SetIndexTree,
           SetRaise, SetUnlock, SetLabel
  <2>2. write_lock = t
    BY Zenon, <2>1 DEF Locks
  <2> QED
    BY Zenon, <1>1, <2>1, <2>2 DEF TypeOK, reads_ok
<1>3. curr' \in Nat /\ curr' >= curr
  <2>1. curr' = curr \/ curr' = curr + 1
    BY Zenon DEF SetStep, SetLookup, SetAppend, SetDouble, SetGrown, SetIndexCurr, SetIndexTree,
           SetRaise, SetUnlock, bc_rotate
  <2> QED
    BY <2>1, NumberTypes
<1>4. ASSUME \A u \in Client \ {t} : /\ pc'[u] = pc[u] /\ item'[u] = item[u]
                                     /\ arg'[u] = arg[u] /\ it'[u] = it[u],
             UNCHANGED write_lock \/ write_lock' = None,
             reads_ok(t)', Readable'
      PROVE  Reads'
  <2>1. \A u \in Client \ {t} : write_lock' = u => write_lock = u
    BY Zenon, <1>4, ConstantsAssumption
  <2>2. \A u \in Client \ {t} : reads_ok(u)'
    BY Zenon, <1>1, <1>3, <1>4, <2>1, ReadsOther DEF Reads
  <2> QED
    BY Zenon, <1>4, <2>2 DEF Reads
<1>5. ASSUME UNCHANGED tree
      PROVE  Readable'
  BY Zenon, <1>1, <1>3, <1>5, ReadableKept
\* A call that ends relies on nothing.
<1>6. ASSUME finish(t), write_lock' = None
      PROVE  reads_ok(t)' /\ \A u \in Client \ {t} : /\ pc'[u] = pc[u] /\ item'[u] = item[u]
                                                     /\ arg'[u] = arg[u] /\ it'[u] = it[u]
  <2>1. pc'[t] = "idle"
    BY Zenon, <1>6 DEF finish, goto, TypeOK
  <2>2. reads_ok(t)'
    BY Zenon, <1>6, <2>1, ConstantsAssumption DEF reads_ok
  <2> QED
    BY Zenon, <1>6, <2>2 DEF finish, goto, TypeOK
<1>7. CASE SetLookup(t)
  <2>1. it[t].ver # 0 /\ UNCHANGED <<curr, wbuf, fbuf, disk, arg, it, write_lock, tree>>
    BY Zenon, <1>1, <1>2, <1>7 DEF SetLookup, reads_ok
  <2>2. ASSUME get_returns(t, FALSE, Nothing)
        PROVE  reads_ok(t)'
    BY Zenon, <1>1, <2>1, <2>2, ReadsReturn
  <2>3. ASSUME item' = [item EXCEPT ![t] = tree[arg[t].key]],
               goto(t, "check_curr"), tree[arg[t].key].ver # 0
        PROVE  reads_ok(t)'
    <3>1. PICK i \in Item, k \in Key : i = tree[arg[t].key] /\ k = arg[t].key
      BY Zenon, <1>2 DEF TypeOK, Tree
    <3>2. at(i, k)
      BY Zenon, <1>1, <2>3, <3>1 DEF Readable
    <3>3. at(i, k)' /\ item'[t] = i /\ arg'[t].key = k /\ pc'[t] = "check_curr"
      BY Zenon, <1>1, <2>1, <2>3, <3>1, <3>2 DEF Kept, goto, TypeOK
    <3>4. at(item[t], arg[t].key)'
      BY Zenon, <3>3 DEF at, in_wbuf, in_fbuf, in_file, holds, decodes
    <3> QED
      BY ZenonT(30), <1>1, <1>2, <2>1, <3>3, <3>4, ReadsSetter
  <2>4. reads_ok(t)'
    BY Zenon, <1>7, <2>2, <2>3 DEF SetLookup, ht_lookup
  <2>5. \A u \in Client \ {t} : pc'[u] = pc[u] /\ item'[u] = item[u]
    BY Zenon, <1>7, LookupFrame DEF SetLookup
  <2> QED
    BY Zenon, <1>4, <1>5, <2>1, <2>4, <2>5
<1>8. CASE SetAppend(t)
  <2>1. UNCHANGED <<arg, it, write_lock, tree>>
    BY Zenon, <1>8 DEF SetAppend
  <2>2. CASE goto(t, "flush") /\ UNCHANGED <<write_buffer, item>>
    <3>1. pc'[t] = "flush" /\ \A u \in Client \ {t} : pc'[u] = pc[u]
      BY Zenon, <2>2 DEF goto, TypeOK
    <3>2. reads_ok(t)'
      BY Zenon, <1>1, <2>1, <3>1, ReadsPlain
    <3> QED
      BY Zenon, <1>4, <1>5, <2>1, <2>2, <3>1, <3>2
  <2>3. CASE append_record(t, curr, wbuf_start_pos)
    <3>1. pc'[t] = "index_curr" /\ \A u \in Client \ {t} : pc'[u] = pc[u] /\ item'[u] = item[u]
      BY Zenon, <2>3 DEF append_record, goto, TypeOK
    <3>2. at(item[t], arg[t].key)'
      BY Zenon, <1>2, <1>8, <3>1, AtAppended
    <3>3. reads_ok(t)'
      BY Zenon, <1>1, <1>2, <2>1, <3>1, <3>2, ReadsSetter
    <3> QED
      BY Zenon, <1>4, <1>5, <2>1, <3>1, <3>3
  <2> QED
    BY Zenon, <1>8, <2>2, <2>3 DEF SetAppend
<1>9. CASE SetDouble(t)
  <2>1. reads_ok(t)'
    BY Zenon, <1>1, <1>2, <1>9, ReadsPlain DEF SetDouble
  <2> QED
    BY Zenon, <1>4, <1>5, <1>9, <2>1 DEF SetDouble
<1>10. CASE SetGrown(t)
  <2>1. UNCHANGED <<arg, it, write_lock, tree>> /\ \E x, start : append_record(t, x, start)
    BY Zenon, <1>10 DEF SetGrown
  <2>2. pc'[t] = "index_curr" /\ \A u \in Client \ {t} : pc'[u] = pc[u] /\ item'[u] = item[u]
    BY Zenon, <2>1 DEF append_record, goto, TypeOK
  <2>3. at(item[t], arg[t].key)'
    BY Zenon, <1>2, <1>10, <2>2, AtAppended
  <2>4. reads_ok(t)'
    BY Zenon, <1>1, <1>2, <2>1, <2>2, <2>3, ReadsSetter
  <2> QED
    BY Zenon, <1>4, <1>5, <2>1, <2>2, <2>4
<1>11. CASE SetIndexCurr(t)
  <2>1. UNCHANGED <<arg, it, item, write_lock, tree>>
    BY Zenon, <1>11 DEF SetIndexCurr
  <2>2. pc'[t] = "index_tree" /\ \A u \in Client \ {t} : pc'[u] = pc[u]
    BY Zenon, <1>11 DEF SetIndexCurr, goto, TypeOK
  <2>3. at(item[t], arg[t].key)'
    <3>1. PICK i \in Item, k \in Key : i = item[t] /\ k = arg[t].key
      BY Zenon, <1>2
    <3>2. at(i, k)'
      BY Zenon, <1>1, <1>11, <3>1 DEF Kept, SetIndexCurr, reads_ok
    <3>3. item'[t] = i /\ arg'[t].key = k
      BY Zenon, <2>1, <3>1
    <3> QED
      BY Zenon, <3>2, <3>3 DEF at, in_wbuf, in_fbuf, in_file, holds, decodes
  <2>4. reads_ok(t)'
    BY Zenon, <1>1, <1>2, <2>1, <2>2, <2>3, ReadsSetter
  <2> QED
    BY Zenon, <1>4, <1>5, <2>1, <2>2, <2>4
<1>12. CASE SetIndexTree(t)
  <2>1. finish(t) /\ write_lock' = None /\ tree' = [tree EXCEPT ![arg[t].key] = item[t]]
    BY Zenon, <1>12 DEF SetIndexTree
  <2>2. Readable'
    <3> SUFFICES ASSUME NEW k \in Key, tree'[k].ver # 0 PROVE at(tree[k], k)'
      BY Zenon DEF Readable
    <3>1. PICK i \in Item : i = tree'[k] /\ at(i, k)
      <4>1. tree[k] \in Item /\ tree'[k] = IF k = arg[t].key THEN item[t] ELSE tree[k]
        BY Zenon, <2>1 DEF TypeOK, Tree
      <4>2. at(item[t], arg[t].key)
        BY Zenon, <1>1, <1>12 DEF SetIndexTree, reads_ok
      <4> QED
        BY Zenon, <1>1, <1>2, <4>1, <4>2 DEF Readable
    <3>2. at(i, k)'
      BY Zenon, <1>1, <3>1 DEF Kept
    <3> QED
      BY Zenon, <3>1, <3>2 DEF at, in_wbuf, in_fbuf, in_file, holds, decodes
  <2> QED
    BY Zenon, <1>4, <1>6, <2>1, <2>2
<1>13. CASE SetRaise(t)
  <2>1. UNCHANGED <<arg, it, write_lock, tree>> /\ it[t].ver # 0
    BY Zenon, <1>1, <1>2, <1>13 DEF SetRaise, reads_ok
  <2>2. /\ pc'[t] \in {"index_curr", "index_tree"}
        /\ \A u \in Client \ {t} : pc'[u] = pc[u] /\ item'[u] = item[u]
    BY Zenon, <1>13 DEF SetRaise, goto, TypeOK
  <2>3. at(item[t], arg[t].key)'
    <3>1. PICK i \in Item, k \in Key : i = it[t] /\ k = arg[t].key
      BY Zenon, <1>2
    <3>2. at(i, k)'
      BY Zenon, <1>1, <1>2, <2>1, <3>1 DEF Kept, reads_ok
    <3>3. item'[t].bucket = i.bucket /\ item'[t].off = i.off /\ arg'[t].key = k
      BY Zenon, <1>13, <2>1, <3>1 DEF SetRaise, TypeOK, Item
    <3> QED
      BY Zenon, <3>2, <3>3 DEF at, in_wbuf, in_fbuf, in_file, holds, decodes
  <2>4. reads_ok(t)'
    BY Zenon, <1>1, <1>2, <2>1, <2>2, <2>3, ReadsSetter
  <2> QED
    BY Zenon, <1>4, <1>5, <2>1, <2>2, <2>4
<1>14. CASE SetUnlock(t)
  BY Zenon, <1>4, <1>5, <1>6, <1>14 DEF SetUnlock
<1> QED
  BY Zenon, <1>7, <1>8, <1>9, <1>10, <1>11, <1>12, <1>13, <1>14 DEF SetStep

LEMMA ReadsFlush ==
  ASSUME TypeOK, Locks, Files, Reads, NEW f \in Client \cup {Flusher}, FlushStep(f)
  PROVE  Reads'
<1> USE DEF index, wbuf, fbuf, disk, threads, locals
<1>1. Kept /\ Readable /\ \A u \in Client : reads_ok(u)
  BY Zenon, KeptFlush DEF Reads
<1>2. UNCHANGED <<tree, write_lock, arg, it, item>>
  BY Zenon DEF FlushStep, FlushEnter, FlushNothing, FlushBegin, FlushWrite, FlushEnd
<1>3. curr' \in Nat /\ curr' >= curr
  <2>1. curr' = curr \/ curr' = curr + 1
    BY Zenon DEF FlushStep, FlushEnter, FlushNothing, FlushBegin, FlushWrite, FlushEnd, bc_rotate
  <2> QED
    BY <2>1, NumberTypes
<1>4. \A u \in Client : pc'[u] = pc[u] \/ pc'[u] = "grow"
  BY Zenon DEF FlushStep, FlushEnter, FlushNothing, FlushBegin, FlushWrite, FlushEnd, goto, TypeOK
<1>5. Readable'
  BY Zenon, <1>1, <1>2, <1>3, ReadableKept
<1>6. \A u \in Client : reads_ok(u)'
  BY Zenon, <1>1, <1>2, <1>3, <1>4, ReadsOther, ReadsPlain
<1> QED
  BY Zenon, <1>5, <1>6 DEF Reads

LEMMA ReadsBegin ==
  ASSUME TypeOK, Locks, Files, Reads, curr < MAX_BUCKET_COUNT, NEW t \in Client, NEW k \in Key,
         GetBegin(t, k) \/ \E v \in Value, n \in VersionArg : SetBegin(t, k, v, n)
  PROVE  Reads'
<1> USE DEF index, wbuf, fbuf, disk, threads, locals
<1>0. pc[t] = "idle" /\ write_lock # t
  BY Zenon DEF GetBegin, SetBegin, Locks, SetLabel, ReadLabel
<1>1. /\ UNCHANGED <<tree, curr, write_buffer, wbuf_start_pos, flush_buffer, fbuf_start_pos,
                     flushing_bucket, data>>
      /\ write_lock' \in {write_lock, t}
  BY Zenon DEF GetBegin, SetBegin
<1>2. Kept /\ Readable /\ curr' \in Nat /\ curr' >= curr
  BY <1>1, KeptQuiet, NumberTypes DEF Reads
<1>3. Readable'
  BY Zenon, <1>1, <1>2, ReadableKept
<1>4. ASSUME \A u \in Client \ {t} : /\ pc'[u] = pc[u] /\ item'[u] = item[u]
                                     /\ arg'[u] = arg[u] /\ it'[u] = it[u],
             reads_ok(t)'
      PROVE  Reads'
  <2>1. \A u \in Client \ {t} : reads_ok(u)'
    BY Zenon, <1>1, <1>2, <1>4, ReadsOther DEF Reads
  <2> QED
    BY Zenon, <1>3, <1>4, <2>1 DEF Reads
\* The key's record, if the index has the key.
<1>5. tree[k] \in Item /\ (tree[k].ver # 0 => at(tree[k], k))
  BY Zenon, <1>2 DEF TypeOK, Tree, Readable
<1>6. PICK i \in Item : i = tree[k] /\ (i.ver # 0 => at(i, k)')
  BY Zenon, <1>2, <1>5 DEF Kept
<1>7. CASE GetBegin(t, k)
  <2>1. /\ arg'[t].key = k /\ UNCHANGED <<it, write_lock>>
        /\ \A u \in Client \ {t} : arg'[u] = arg[u]
    <3>1. arg \in [Client -> Arg] /\ arg' = [arg EXCEPT ![t].key = k]
      BY Zenon, <1>7 DEF GetBegin, TypeOK
    <3>2. UNCHANGED <<it, write_lock>>
      BY Zenon, <1>7 DEF GetBegin
    <3> QED
      BY Zenon, <3>1, <3>2 DEF Arg
  <2>2. \A u \in Client \ {t} : pc'[u] = pc[u] /\ item'[u] = item[u]
    BY Zenon, <1>7, LookupFrame DEF GetBegin
  <2>3. \/ pc'[t] = "return"
        \/ pc'[t] = "check_curr" /\ item'[t] = i /\ i.ver # 0
    <3>1. CASE tree[k].ver = 0
      BY Zenon, <1>0, <1>7, <3>1 DEF GetBegin, ht_lookup, get_returns, goto, TypeOK
    <3>2. CASE tree[k].ver # 0
      BY Zenon, <1>6, <1>7, <3>2 DEF GetBegin, ht_lookup, goto, TypeOK
    <3> QED
      BY Zenon, <3>1, <3>2
  <2>4. pc'[t] = "check_curr" => at(item[t], arg[t].key)'
    BY Zenon, <1>6, <2>1, <2>3 DEF at, in_wbuf, in_fbuf, in_file, holds, decodes
  <2>5. reads_ok(t)'
    BY Zenon, <1>0, <2>1, <2>3, <2>4 DEF reads_ok
  <2> QED
    BY Zenon, <1>4, <2>1, <2>2, <2>5
<1>8. ASSUME NEW v \in Value, NEW n \in VersionArg, SetBegin(t, k, v, n)
      PROVE  Reads'
  <2>1. /\ arg'[t].key = k /\ arg'[t].ver # 0 /\ it'[t] = i
        /\ (pc'[t] = "lookup" /\ i.ver # 0) \/ pc'[t] = "append"
        /\ \A u \in Client \ {t} : /\ pc'[u] = pc[u] /\ item'[u] = item[u]
                                   /\ arg'[u] = arg[u] /\ it'[u] = it[u]
    <3>1. pc \in [Client -> Label] /\ arg \in [Client -> Arg] /\ it \in [Client -> Item]
      BY Zenon DEF TypeOK
    <3> QED
      BY ZenonT(30), <1>6, <1>8, <3>1 DEF SetBegin, goto
  <2>2. it'[t].ver # 0 => at(it[t], arg[t].key)'
    BY Zenon, <1>6, <2>1 DEF at, in_wbuf, in_fbuf, in_file, holds, decodes
  <2>3. reads_ok(t)'
    BY Zenon, <2>1, <2>2 DEF reads_ok, ReadLabel
  <2> QED
    BY Zenon, <1>4, <2>1, <2>3
<1> QED
  BY Zenon, <1>7, <1>8

----------------------------------------------------------------------------
(***************************************************************************)
(* The inductive invariant.  Each action is taken once; the conjuncts it   *)
(* cannot disturb follow from the frame lemmas.                            *)
(***************************************************************************)
\* curr only grows, so the buckets had not run out before the step either.
LEMMA CurrGrows ==
  ASSUME TypeOK, [Next]_vars
  PROVE  curr' \in Nat /\ curr <= curr'
<1>1. curr' = curr \/ curr' = curr + 1
  <2>1. CASE UNCHANGED vars
    BY Zenon, <2>1 DEF vars
  <2>2. ASSUME NEW t \in Client, GetStep(t) \/ SetStep(t)
        PROVE  curr' = curr \/ curr' = curr + 1
    <3>1. CASE GetStep(t)
      BY Zenon, <3>1, GetFrame
    <3>2. CASE SetGrown(t)
      BY Zenon, <3>2 DEF SetGrown, bc_rotate
    <3>3. CASE SetStep(t) /\ ~SetGrown(t)
      BY Zenon, <3>3 DEF SetStep, SetLookup, SetAppend, SetDouble, SetIndexCurr, SetIndexTree, SetRaise,
                  SetUnlock
    <3> QED
      BY Zenon, <2>2, <3>1, <3>2, <3>3
  <2>3. ASSUME NEW f \in Client \cup {Flusher}, FlushStep(f)
        PROVE  curr' = curr \/ curr' = curr + 1
    BY Zenon, <2>3 DEF FlushStep, FlushEnter, FlushNothing, FlushBegin, FlushWrite, FlushEnd, bc_rotate
  <2>4. ASSUME \/ \E t \in Client, k \in Key : GetBegin(t, k)
               \/ \E t \in Client, k \in Key, v \in Value, n \in VersionArg : SetBegin(t, k, v, n)
               \/ \E h \in building : build_hint(h)
        PROVE  curr' = curr
    <3>1. CASE \E t \in Client, k \in Key : GetBegin(t, k)
      BY Zenon, <3>1 DEF GetBegin
    <3>2. CASE \E t \in Client, k \in Key, v \in Value, n \in VersionArg : SetBegin(t, k, v, n)
      <4>1. PICK t \in Client, k \in Key, v \in Value, n \in VersionArg : SetBegin(t, k, v, n)
        BY Zenon, <3>2
      <4> QED
        BY <4>1, Zenon DEF SetBegin
    <3>3. CASE \E h \in building : build_hint(h)
      BY Zenon, <3>3 DEF build_hint
    <3> QED
      BY Zenon, <2>4, <3>1, <3>2, <3>3
  <2> QED
    BY Zenon, <2>1, <2>2, <2>3, <2>4 DEF Next
<1> QED
  BY <1>1, NumberTypes

\* Steps that leave the buffers, the files and the labels "grow" alone.
LEMMA QuietStep ==
  ASSUME Buffers, Files, NoBadFile, UNCHANGED <<status, curr, wbuf, fbuf, buckets, data>>,
         \A u \in Client : pc[u] = "grow" => pc'[u] = "grow"
  PROVE  Buffers' /\ Files' /\ NoBadFile'
BY Zenon, BuffersQuiet, FilesQuiet DEF wbuf, fbuf, NoBadFile

\* Steps that leave alone all that a reader relies on.
LEMMA ReadsQuiet ==
  ASSUME TypeOK, Locks, Reads,
         UNCHANGED <<tree, curr, write_buffer, wbuf_start_pos, flush_buffer, fbuf_start_pos,
                     flushing_bucket, data, pc, arg, it, item, write_lock>>
  PROVE  Reads'
<1>1. Kept /\ Readable /\ curr' \in Nat /\ curr' >= curr
  BY KeptQuiet, NumberTypes DEF Reads
<1>2. Readable'
  BY Zenon, <1>1, ReadableKept
<1>3. \A u \in Client : reads_ok(u)'
  BY Zenon, <1>1, ReadsOther DEF Reads
<1> QED
  BY Zenon, <1>2, <1>3 DEF Reads

LEMMA IInvInit == Init => IInv
BY Zenon, TypeInit, LocksInit, BuffersInit, FilesInit, ReadsInit DEF IInv, Init, NoBadFile

LEMMA IInvNext ==
  ASSUME NoWrap, IInv, [Next]_vars
  PROVE  IInv'
<1> USE DEF index, wbuf, fbuf, disk, threads, locals
<1>1. /\ TypeOK /\ Locks /\ Buffers /\ Files /\ NoBadFile
      /\ TypeOK' /\ Locks'
  BY Zenon, TypeNext, LocksNext DEF IInv
<1>2. curr' < MAX_BUCKET_COUNT => curr < MAX_BUCKET_COUNT /\ Reads
  BY SMTT(30), <1>1, CurrGrows, NumberTypes, ConstantsAssumption DEF IInv
<1>3. ASSUME Buffers' /\ Files' /\ NoBadFile', curr' < MAX_BUCKET_COUNT => Reads'
      PROVE  IInv'
  BY Zenon, <1>1, <1>3 DEF IInv
<1>4. CASE UNCHANGED vars
  <2>1. UNCHANGED <<status, tree, curr, wbuf, fbuf, buckets, data, pc, arg, it, item, write_lock>>
    BY Zenon, <1>4 DEF vars
  <2>2. Buffers' /\ Files' /\ NoBadFile'
    BY Zenon, <1>1, <2>1, QuietStep
  <2>3. curr' < MAX_BUCKET_COUNT => Reads'
    BY Zenon, <1>1, <1>2, <2>1, ReadsQuiet
  <2> QED
    BY Zenon, <1>3, <2>2, <2>3
<1>5. ASSUME NEW h \in building, build_hint(h)
      PROVE  IInv'
  <2>1. UNCHANGED <<status, tree, curr, wbuf, fbuf, buckets, data, pc, arg, it, item, write_lock>>
    BY Zenon, <1>5 DEF build_hint
  <2>2. Buffers' /\ Files' /\ NoBadFile'
    BY Zenon, <1>1, <2>1, QuietStep
  <2>3. curr' < MAX_BUCKET_COUNT => Reads'
    BY Zenon, <1>1, <1>2, <2>1, ReadsQuiet
  <2> QED
    BY Zenon, <1>3, <2>2, <2>3
<1>6. ASSUME NEW t \in Client, NEW k \in Key,
             GetBegin(t, k) \/ \E v \in Value, n \in VersionArg : SetBegin(t, k, v, n)
      PROVE  IInv'
  <2>1. UNCHANGED <<status, curr, wbuf, fbuf, buckets, data>> /\ pc[t] = "idle"
    BY Zenon, <1>6 DEF GetBegin, SetBegin
  <2>2. \A u \in Client \ {t} : pc'[u] = pc[u]
    <3>1. pc \in [Client -> Label]
      BY Zenon, <1>1 DEF IInv, TypeOK
    <3>2. CASE GetBegin(t, k)
      BY Zenon, <1>1, <3>2, LookupFrame DEF GetBegin, IInv
    <3>3. CASE \E v \in Value, n \in VersionArg : SetBegin(t, k, v, n)
      BY ZenonT(30), <3>1, <3>3 DEF SetBegin, goto
    <3> QED
      BY Zenon, <1>6, <3>2, <3>3
  <2>3. Buffers' /\ Files' /\ NoBadFile'
    BY Zenon, <1>1, <2>1, <2>2, QuietStep
  <2>4. curr' < MAX_BUCKET_COUNT => Reads'
    BY Zenon, <1>1, <1>2, <1>6, ReadsBegin
  <2> QED
    BY Zenon, <1>3, <2>3, <2>4
<1>7. ASSUME NEW t \in Client, GetStep(t)
      PROVE  IInv'
  <2>1. /\ UNCHANGED <<status, curr, wbuf, fbuf, buckets, data>>
        /\ pc[t] # "grow" /\ \A u \in Client \ {t} : pc'[u] = pc[u]
    BY Zenon, <1>1, <1>7, GetFrame DEF ReadLabel
  <2>2. Buffers' /\ Files' /\ NoBadFile'
    BY Zenon, <1>1, <2>1, QuietStep
  <2>3. curr' < MAX_BUCKET_COUNT => Reads'
    BY Zenon, <1>1, <1>2, <1>7, ReadsGet
  <2> QED
    BY Zenon, <1>3, <2>2, <2>3
<1>8. ASSUME NEW t \in Client, SetStep(t)
      PROVE  IInv'
  <2>1. Buffers' /\ Files'
    BY Zenon, <1>1, <1>8, BuffersSet, FilesSet
  <2>2. NoBadFile'
    BY Zenon, <1>1, <1>8 DEF SetStep, SetLookup, SetAppend, SetDouble, SetGrown, SetIndexCurr,
                      SetIndexTree, SetRaise, SetUnlock, NoBadFile
  <2>3. curr' < MAX_BUCKET_COUNT => Reads'
    BY Zenon, <1>1, <1>2, <1>8, ReadsSet
  <2> QED
    BY Zenon, <1>3, <2>1, <2>2, <2>3
<1>9. ASSUME NEW f \in Client \cup {Flusher}, FlushStep(f)
      PROVE  IInv'
  <2>1. Buffers'
    BY Zenon, <1>1, <1>9, BuffersFlush
  <2>2. Files'
    <3>1. CASE FlushEnter(f) \/ FlushNothing(f)
      BY Zenon, <1>1, <3>1, FilesQuiet DEF FlushEnter, FlushNothing
    <3> QED
      BY Zenon, <1>1, <1>9, <3>1, FilesFlushBegin, FilesFlushWrite, FilesFlushEnd DEF FlushStep
  <2>3. NoBadFile'
    <3>1. CASE FlushWrite(f)
      <4>1. CASE flushing_bucket \in Bucket
        BY Zenon, <1>1, <3>1, <4>1, FlushWriteData DEF NoBadFile
      <4>2. CASE flushing_bucket \notin Bucket
        BY Zenon, <3>1, <4>2 DEF FlushWrite, NoBadFile
      <4> QED
        BY Zenon, <4>1, <4>2
    <3> QED
      BY Zenon, <1>1, <1>9, <3>1 DEF FlushStep, FlushEnter, FlushNothing, FlushBegin, FlushEnd, NoBadFile
  <2>4. curr' < MAX_BUCKET_COUNT => Reads'
    BY Zenon, <1>1, <1>2, <1>9, ReadsFlush
  <2> QED
    BY Zenon, <1>3, <2>1, <2>2, <2>3, <2>4
<1> QED
  BY Zenon, <1>4, <1>5, <1>6, <1>7, <1>8, <1>9 DEF Next

\* bc_set, bc_get, bc_flush and bc_rotate keep the inductive invariant for
\* any number of keys, values, threads and buckets, and any sizes that do not
\* overflow a 32-bit position.
THEOREM Invariant == ASSUME NoWrap PROVE Spec => []IInv
<1>1. Init => IInv
  BY Zenon, IInvInit
<1>2. IInv /\ [Next]_vars => IInv'
  BY Zenon, IInvNext
<1> QED
  BY <1>1, <1>2, PTL DEF Spec

\* Every key of the index can be read from a buffer or a file at every moment
\* of a flush or a rotation.
THEOREM AlwaysReadable == ASSUME NoWrap PROVE Spec => []Readable
<1>1. IInv => Readable
  BY Zenon DEF IInv, Reads, Readable
<1> QED
  BY <1>1, Invariant, PTL

\* bc_get never fails to find a record it looked up, whatever bc_set and
\* bc_flush do between its unlocked reads.
THEOREM GetNeverFails == ASSUME NoWrap PROVE Spec => []NoFailedGet
<1>1. IInv => NoFailedGet
  BY Zenon DEF IInv, Reads, reads_ok, NoFailedGet
<1> QED
  BY <1>1, Invariant, PTL

\* bc_flush never finds a data file that does not end where its buffer starts.
THEOREM FlushNeverExits == ASSUME NoWrap PROVE Spec => []NoBadFile
<1>1. IInv => NoBadFile
  BY Zenon DEF IInv
<1> QED
  BY <1>1, Invariant, PTL

\* bc_set never copies past the end of the write buffer, nor frees one that
\* still holds records.
THEOREM BufferNeverOverrun == ASSUME NoWrap PROVE Spec => []WriteBufferSafe
<1>1. IInv => WriteBufferSafe
  BY Zenon DEF IInv, Locks, Buffers, WriteBufferSafe
<1> QED
  BY <1>1, Invariant, PTL

----------------------------------------------------------------------------
(***************************************************************************)
(* A record keeps its value wherever it goes.                              *)
(***************************************************************************)
\* The block of a buffer that a position in its file is.
LEMMA OffsetWithin ==
  ASSUME NEW off \in Nat, NEW start \in Nat, NEW len \in Nat, off - start \in 0 .. len - 1
  PROVE  off - start + 1 \in 1 .. len /\ start + (off - start + 1) = off + 1
OBVIOUS

LEMMA OffsetBeyond ==
  ASSUME NEW off \in Nat, NEW start \in Nat, NEW len \in Nat, off \in 0 .. (start + len) - 1,
         off >= start
  PROVE  off - start + 1 \in 1 .. len /\ start + (off - start + 1) = off + 1
OBVIOUS

\* The place where the record of an item is found determines its value: what is
\* in two places at a time is the same.
Located ==
  \A i \in Item, k \in Key :
    /\ in_wbuf(i, k) => value_at(i) = write_buffer[i.off - wbuf_start_pos + 1].val
    /\ in_fbuf(i, k) => value_at(i) = flush_buffer[i.off - fbuf_start_pos + 1].val
    /\ in_file(i, k) => value_at(i) = data[i.bucket][i.off + 1].val

LEMMA ValueWhere == TypeOK /\ Locks /\ Files => Located
<1> SUFFICES ASSUME TypeOK, Locks, Files, NEW i \in Item, NEW k \in Key
             PROVE  /\ in_wbuf(i, k) => value_at(i) = write_buffer[i.off - wbuf_start_pos + 1].val
                    /\ in_fbuf(i, k) => value_at(i) = flush_buffer[i.off - fbuf_start_pos + 1].val
                    /\ in_file(i, k) => value_at(i) = data[i.bucket][i.off + 1].val
  BY Zenon DEF Located
<1>0. /\ i.bucket \in Nat /\ i.off \in Nat /\ wbuf_start_pos \in Nat /\ fbuf_start_pos \in Nat
      /\ Len(flush_buffer) \in Nat /\ flush_buffer \in Seq(Block)
      /\ \A x \in DOMAIN data : Len(data[x]) \in Nat /\ data[x] \in Seq(Block)
  BY Zenon, NumberTypes DEF Item, TypeOK
<1>1. in_wbuf(i, k) => value_at(i) = write_buffer[i.off - wbuf_start_pos + 1].val
  BY Zenon DEF in_wbuf, value_at
<1>2. ASSUME in_fbuf(i, k)
      PROVE  value_at(i) = flush_buffer[i.off - fbuf_start_pos + 1].val
  <2>1. i.bucket = flushing_bucket /\ i.off >= fbuf_start_pos
    BY Zenon, <1>2 DEF in_fbuf
  <2>2. i.off - fbuf_start_pos \in 0 .. Len(flush_buffer) - 1
    BY Zenon, <1>0, <1>2, HoldsRange DEF in_fbuf
  <2>3. ~(i.bucket = curr /\ i.off >= wbuf_start_pos)
    BY SMTT(30), <1>0, <2>1, <2>2 DEF Files
  <2> QED
    BY Zenon, <2>1, <2>3 DEF value_at
<1>3. ASSUME in_file(i, k)
      PROVE  value_at(i) = data[i.bucket][i.off + 1].val
  <2>1. i.bucket \in DOMAIN data /\ i.off \in 0 .. Len(data[i.bucket]) - 1
    BY Zenon, <1>0, <1>3, HoldsRange DEF in_file
  <2>2. file_size(i.bucket) = Len(data[i.bucket])
    BY Zenon, <2>1 DEF file_size, file
  <2>3. i.bucket = flushing_bucket => flush_lock # None
    <3>1. flush_lock = None => flushing_bucket = -1
      BY Zenon DEF TypeOK, NoBucket
    <3> QED
      BY SMTT(30), <1>0, <3>1
  <2>4. i.bucket = flushing_bucket /\ ~flushed => fbuf_start_pos = Len(data[i.bucket])
    BY Zenon, <2>2, <2>3 DEF Files
  <2>5. i.bucket = flushing_bucket /\ flushed =>
          /\ Len(data[i.bucket]) = fbuf_start_pos + Len(flush_buffer)
          /\ \A n \in 1 .. Len(flush_buffer) : data[i.bucket][fbuf_start_pos + n] = flush_buffer[n]
    BY Zenon, <2>3 DEF Files
  <2>6. ~(i.bucket = curr /\ i.off >= wbuf_start_pos)
    BY SMTT(30), <1>0, <2>1, <2>2, <2>4, <2>5 DEF Files
  <2>7. CASE i.bucket = flushing_bucket /\ i.off >= fbuf_start_pos
    <3> DEFINE n == i.off - fbuf_start_pos + 1
    <3>0. flushed
      BY SMTT(30), <1>0, <2>1, <2>4, <2>7
    <3>1. n \in 1 .. Len(flush_buffer) /\ fbuf_start_pos + n = i.off + 1
      <4>1. i.off \in 0 .. (fbuf_start_pos + Len(flush_buffer)) - 1
        BY Zenon, <2>1, <2>5, <2>7, <3>0
      <4> QED
        BY Zenon, <1>0, <2>7, <4>1, OffsetBeyond
    <3>2. data[i.bucket][fbuf_start_pos + n] = flush_buffer[n]
      BY Zenon, <2>5, <2>7, <3>0, <3>1
    <3> QED
      BY Zenon, <2>6, <2>7, <3>1, <3>2 DEF value_at
  <2>8. CASE ~(i.bucket = flushing_bucket /\ i.off >= fbuf_start_pos)
    BY Zenon, <2>6, <2>8 DEF value_at
  <2> QED
    BY Zenon, <2>7, <2>8
<1> QED
  BY Zenon, <1>1, <1>2, <1>3

LEMMA ValueWhereNext == (TypeOK /\ Locks /\ Files => Located)'
BY ValueWhere, PTL

\* A step leaves the value of every record as it is.
ValuesKept == \A i \in Item, k \in Key : at(i, k) => value_at(i)' = value_at(i)

LEMMA ValuesQuiet ==
  ASSUME UNCHANGED <<curr, write_buffer, wbuf_start_pos, flush_buffer, fbuf_start_pos,
                     flushing_bucket, data>>
  PROVE  ValuesKept
BY Zenon DEF ValuesKept, value_at

LEMMA ValuesFlush ==
  ASSUME TypeOK, Locks, Files, TypeOK', Locks', Files',
         NEW f \in Client \cup {Flusher}, FlushStep(f)
  PROVE  ValuesKept
<1> USE DEF index, wbuf, fbuf, disk, threads, locals
<1> SUFFICES ASSUME NEW i \in Item, NEW k \in Key, at(i, k) PROVE value_at(i)' = value_at(i)
  BY Zenon DEF ValuesKept
<1>0. Located /\ Located'
  BY Zenon, ValueWhere, ValueWhereNext
<1>t. /\ i.bucket \in Nat /\ i.off \in Nat /\ wbuf_start_pos \in Nat /\ fbuf_start_pos \in Nat
      /\ write_buffer \in Seq(Block) /\ flush_buffer \in Seq(Block) /\ Len(flush_buffer) \in Nat
      /\ \A x \in DOMAIN data : data[x] \in Seq(Block)
  BY Zenon, NumberTypes DEF Item, TypeOK
<1>1. CASE FlushEnter(f) \/ FlushNothing(f)
  BY Zenon, <1>1 DEF FlushEnter, FlushNothing, value_at
<1>2. CASE FlushBegin(f)
  <2>1. /\ flush_buffer = <<>> /\ flushing_bucket' = curr /\ fbuf_start_pos' = wbuf_start_pos
        /\ flush_buffer' = write_buffer /\ UNCHANGED data
    BY Zenon, <1>2 DEF FlushBegin, Locks
  <2>2. ~in_fbuf(i, k)
    BY Zenon, <1>t, <2>1, HoldsRange DEF in_fbuf
  <2>3. in_wbuf(i, k) => in_fbuf(i, k)'
    BY Zenon, <2>1 DEF in_wbuf, in_fbuf, holds, decodes
  <2>4. in_file(i, k) => in_file(i, k)'
    BY Zenon, <2>1, FileKept
  <2> QED
    BY ZenonT(30), <1>0, <2>1, <2>2, <2>3, <2>4 DEF at, Located
<1>3. CASE FlushWrite(f)
  <2>1. UNCHANGED <<write_buffer, wbuf_start_pos, flush_buffer, fbuf_start_pos>>
    BY Zenon, <1>3 DEF FlushWrite
  <2>2. (in_wbuf(i, k) => in_wbuf(i, k)') /\ (in_fbuf(i, k) => in_fbuf(i, k)')
    BY Zenon, <1>3 DEF FlushWrite, in_wbuf, in_fbuf, holds, decodes
  <2>3. ASSUME in_file(i, k)
        PROVE  in_file(i, k)' /\ data'[i.bucket][i.off + 1] = data[i.bucket][i.off + 1]
    <3>1. in_file(i, k)'
      BY Zenon, <1>3, <2>3, FileKept
    <3>2. CASE flushing_bucket \in Bucket /\ i.bucket = flushing_bucket
      <4>1. /\ data'[i.bucket] = data[i.bucket] \o flush_buffer
            /\ i.bucket \in DOMAIN data /\ holds(data[i.bucket], i.off, k)
        BY Zenon, <1>3, <2>3, <3>2, FlushWriteData DEF file, in_file
      <4>2. PICK s \in Seq(Block) : s = data[i.bucket]
        BY Zenon, <1>t, <4>1
      <4>3. holds(s, i.off, k) /\ i.off \in Int /\ flush_buffer \in Seq(Block)
        BY SMTT(30), <1>t, <4>1, <4>2
      <4>4. (s \o flush_buffer)[i.off + 1] = s[i.off + 1]
        BY Zenon, <4>3, HoldsAppend
      <4> QED
        BY Zenon, <3>1, <4>1, <4>2, <4>4
    <3>3. CASE ~(flushing_bucket \in Bucket /\ i.bucket = flushing_bucket)
      BY Zenon, <1>3, <2>3, <3>1, <3>3, FlushWriteData DEF in_file, FlushWrite
    <3> QED
      BY Zenon, <3>2, <3>3
  <2> QED
    BY Zenon, <1>0, <2>1, <2>2, <2>3 DEF at, Located
<1>4. CASE FlushEnd(f)
  <2>1. UNCHANGED <<curr, wbuf_start_pos, write_buffer, data>> /\ flushing_bucket' = NoBucket
    BY Zenon, <1>4 DEF FlushEnd
  <2>2. (in_wbuf(i, k) => in_wbuf(i, k)') /\ (in_file(i, k) => in_file(i, k)')
    BY Zenon, <2>1 DEF in_wbuf, in_file, holds, decodes
  <2>3. ASSUME in_fbuf(i, k)
        PROVE  value_at(i)' = value_at(i)
    <3>1. i.bucket = flushing_bucket /\ i.off - fbuf_start_pos \in 0 .. Len(flush_buffer) - 1
      BY Zenon, <1>t, <2>3, HoldsRange DEF in_fbuf
    <3>2. ~(i.bucket = curr /\ i.off >= wbuf_start_pos)
      BY SMTT(30), <1>t, <3>1 DEF Files
    <3>3. value_at(i)' = data[i.bucket][i.off + 1].val
      BY <1>t, <2>1, <3>2 DEF value_at, NoBucket
    <3>4. flush_lock # None /\ flushed
      BY Zenon, <1>4, ConstantsAssumption DEF FlushEnd
    <3> DEFINE n == i.off - fbuf_start_pos + 1
    <3>5. n \in 1 .. Len(flush_buffer) /\ fbuf_start_pos + n = i.off + 1
      BY Zenon, <1>t, <3>1, OffsetWithin
    <3>6. \A m \in 1 .. Len(flush_buffer) :
            data[flushing_bucket][fbuf_start_pos + m] = flush_buffer[m]
      BY <3>4, Zenon DEF Files
    <3>7. data[flushing_bucket][i.off + 1] = flush_buffer[i.off - fbuf_start_pos + 1]
      BY <3>5, <3>6
    <3> QED
      BY Zenon, <1>0, <2>3, <3>1, <3>3, <3>7 DEF Located
  <2> QED
    BY Zenon, <1>0, <2>1, <2>2, <2>3 DEF at, Located
<1> QED
  BY Zenon, <1>1, <1>2, <1>3, <1>4 DEF FlushStep

LEMMA ValuesSet ==
  ASSUME TypeOK, Locks, Files, TypeOK', Locks', Files', NEW t \in Client, SetStep(t)
  PROVE  ValuesKept
<1> USE DEF index, wbuf, fbuf, disk, threads, locals
<1>q. CASE SetLookup(t) \/ SetIndexCurr(t) \/ SetIndexTree(t) \/ SetRaise(t) \/ SetUnlock(t)
  BY Zenon, <1>q, ValuesQuiet DEF SetLookup, SetIndexCurr, SetIndexTree, SetRaise, SetUnlock
<1> SUFFICES ASSUME SetAppend(t) \/ SetDouble(t) \/ SetGrown(t),
                    NEW i \in Item, NEW k \in Key, at(i, k)
             PROVE  value_at(i)' = value_at(i)
  BY Zenon, <1>q DEF ValuesKept, SetStep
<1>0. Located /\ Located'
  BY Zenon, ValueWhere, ValueWhereNext
<1>1. UNCHANGED <<flush_buffer, fbuf_start_pos, flushing_bucket, data>>
  BY Zenon DEF SetAppend, SetDouble, SetGrown
<1>2. (in_fbuf(i, k) => in_fbuf(i, k)') /\ (in_file(i, k) => in_file(i, k)')
  BY Zenon, <1>1 DEF in_fbuf, in_file, holds, decodes
<1>3. ASSUME in_wbuf(i, k)
      PROVE  /\ in_wbuf(i, k)' /\ wbuf_start_pos' = wbuf_start_pos
             /\ write_buffer'[i.off - wbuf_start_pos + 1] = write_buffer[i.off - wbuf_start_pos + 1]
  <2>1. /\ i.off - wbuf_start_pos \in Int /\ write_buffer \in Seq(Block) /\ write_buffer # <<>>
        /\ i.bucket = curr /\ i.off >= wbuf_start_pos
        /\ holds(write_buffer, i.off - wbuf_start_pos, k)
    <3>1. i.off \in Nat /\ wbuf_start_pos \in Nat /\ write_buffer \in Seq(Block)
      BY Zenon, NumberTypes DEF Item, TypeOK
    <3> QED
      BY SMTT(30), <1>3, <3>1, HoldsRange DEF in_wbuf
  <2>2. SetAppend(t)
    BY Zenon, <2>1 DEF SetDouble, SetGrown, Locks
  <2>3. UNCHANGED <<curr, wbuf_start_pos>>
    BY Zenon, <2>2 DEF SetAppend
  <2>4. CASE UNCHANGED write_buffer
    BY Zenon, <1>3, <2>3, <2>4 DEF in_wbuf, holds, decodes
  <2>5. CASE append_record(t, curr, wbuf_start_pos)
    <3>1. arg[t].key \in Key /\ arg[t].val \in Value /\ arg[t].ver \in Int
      BY Zenon, <2>2 DEF SetAppend, TypeOK, Arg
    <3>2. PICK x \in Seq(Block) : write_buffer' = write_buffer \o x
      BY Zenon, <2>5, <3>1, EncodeType DEF append_record
    <3>3. /\ holds(write_buffer', i.off - wbuf_start_pos, k)
          /\ write_buffer'[i.off - wbuf_start_pos + 1] = write_buffer[i.off - wbuf_start_pos + 1]
      BY Zenon, <2>1, <3>2, HoldsAppend
    <3> QED
      BY ZenonT(30), <2>1, <2>3, <3>3 DEF in_wbuf, holds, decodes
  <2> QED
    BY Zenon, <2>2, <2>4, <2>5 DEF SetAppend
<1> QED
  BY ZenonT(30), <1>0, <1>1, <1>2, <1>3 DEF at, Located

----------------------------------------------------------------------------
(***************************************************************************)
(* The index against the log, thread by thread.                            *)
(***************************************************************************)
indexing(u) == write_lock = u /\ pc[u] \in {"index_curr", "index_tree"}

\* A step that adds no record and leaves the index alone, and whoever is about
\* to change it.
LEMMA IndexedKept ==
  ASSUME Indexed, starts' \subseteq starts, UNCHANGED tree,
         \A u \in Client : indexing(u) => indexing(u)' /\ arg'[u] = arg[u] /\ item'[u] = item[u]
  PROVE  Indexed'
<1> SUFFICES ASSUME NEW p \in starts'
             PROVE  being_indexed(p.rec.key, p)' \/ settled(p, tree[p.rec.key])'
  BY Zenon DEF Indexed
<1>1. p \in starts
  BY Zenon
<1>2. CASE settled(p, tree[p.rec.key])
  BY Zenon, <1>2 DEF settled, before, same_place, hash_of, Abs, Wrap
<1>3. CASE being_indexed(p.rec.key, p)
  BY Zenon, <1>3 DEF being_indexed, indexing, same_place
<1> QED
  BY Zenon, <1>1, <1>2, <1>3 DEF Indexed

LEMMA LogOther ==
  ASSUME NEW u \in Client, log_ok(u), Stays(u), starts' \subseteq starts
  PROVE  /\ log_ok(u)'
         /\ indexing(u) => indexing(u)' /\ arg'[u] = arg[u] /\ item'[u] = item[u]
<1>1. indexing(u) => indexing(u)' /\ arg'[u] = arg[u] /\ item'[u] = item[u]
  BY Zenon DEF Stays, indexing
<1>2. indexing(u)' => indexing(u)
  BY Zenon DEF Stays, indexing
<1>3. ASSUME indexing(u)', NEW p \in starts', p.rec.key = arg'[u].key
      PROVE  settled(p, item[u])'
  <2>1. settled(p, item[u])
    BY Zenon, <1>2, <1>3 DEF log_ok, indexing, Stays
  <2> QED
    BY Zenon, <1>1, <1>2, <1>3, <2>1 DEF settled, before, same_place, hash_of, Abs, Wrap
<1>4. ASSUME write_lock' = u, pc'[u] \in ReadLabel \cup {"lookup", "raise"}
      PROVE  it'[u].hash = hash_of(arg'[u].val, arg'[u].ver)
  <2>1. write_lock = u /\ pc[u] \in ReadLabel \cup {"lookup", "raise"}
    BY Zenon, <1>4 DEF Stays, ReadLabel
  <2> QED
    BY Zenon, <2>1 DEF Stays, log_ok
<1>5. log_ok(u)'
  BY Zenon, <1>3, <1>4 DEF log_ok, indexing, hash_of
<1> QED
  BY Zenon, <1>1, <1>5

LEMMA LogBegin ==
  ASSUME TypeOK, Locks, NEW t \in Client, Begin(t)
  PROVE  log_ok(t)' /\ ~indexing(t)
<1> USE DEF index, wbuf, fbuf, disk, threads, locals
<1>t. /\ pc \in [Client -> Label] /\ arg \in [Client -> Arg] /\ it \in [Client -> Item]
  BY Zenon DEF TypeOK
<1>0. pc[t] = "idle" /\ ~indexing(t) /\ write_lock # t
  <2>1. pc[t] = "idle"
    BY Zenon DEF Begin, GetBegin, SetBegin
  <2> QED
    BY Zenon, <2>1 DEF indexing, Locks, SetLabel, ReadLabel
<1>1. ASSUME NEW k \in Key, GetBegin(t, k)
      PROVE  log_ok(t)'
  BY Zenon, <1>0, <1>1 DEF GetBegin, log_ok
<1>2. ASSUME NEW k \in Key, NEW v \in Value, NEW n \in VersionArg, SetBegin(t, k, v, n)
      PROVE  log_ok(t)'
  <2> DEFINE ver == NewVersion(n, tree[k].ver)
  <2>1. /\ arg' = [arg EXCEPT ![t] = [key |-> k, val |-> v, version |-> n, ver |-> ver]]
        /\ it' = [it EXCEPT ![t] = tree[k]]
        /\ goto(t, IF tree[k].ver # 0 /\ tree[k].hash = hash_of(v, ver) THEN "lookup" ELSE "append")
    BY Zenon, <1>2 DEF SetBegin
  <2> HIDE DEF ver
  <2>2. arg'[t] = [key |-> k, val |-> v, version |-> n, ver |-> ver] /\ it'[t] = tree[k]
    BY Zenon, <1>t, <2>1
  <2>3. arg'[t].val = v /\ arg'[t].ver = ver
    BY <2>2
  <2>4. pc'[t] = "append" \/ (pc'[t] = "lookup" /\ it'[t].hash = hash_of(arg'[t].val, arg'[t].ver))
    BY Zenon, <1>t, <2>1, <2>2, <2>3 DEF goto
  <2> QED
    BY Zenon, <2>4 DEF log_ok, ReadLabel, hash_of
<1> QED
  BY Zenon, <1>0, <1>1, <1>2 DEF Begin

\* A raised version belongs to the last record, as the version before it did.
LEMMA LogRaise ==
  ASSUME TypeOK, Locks, HashesMatch, NEW t \in Client, SetRaise(t), set_ok(t), log_ok(t), reads_ok(t),
         Indexed, starts' \subseteq starts, \A p \in starts : p.rec \in Block
  PROVE  log_ok(t)'
<1> USE DEF index, wbuf, fbuf, disk, threads, locals
<1>t. pc \in [Client -> Label] /\ it[t] \in Item /\ item \in [Client -> Item] /\ arg[t].key \in Key
  BY Zenon DEF TypeOK, SetRaise
<1>w. write_lock = t /\ pc[t] = "raise"
  BY Zenon DEF SetRaise, Locks, SetLabel
<1>1. /\ UNCHANGED <<tree, write_lock, arg, it>> /\ pc'[t] \in {"index_curr", "index_tree"}
  BY Zenon, <1>t DEF SetRaise, goto
<1>2. /\ item'[t].ver = arg[t].ver /\ item'[t].bucket = it[t].bucket
      /\ item'[t].off = it[t].off /\ item'[t].hash = it[t].hash
  <2>1. item'[t] = [it[t] EXCEPT !.ver = arg[t].ver]
    BY Zenon, <1>t DEF SetRaise
  <2> QED
    BY Zenon, <1>t, <2>1 DEF Item
<1>3. /\ arg[t].version # 0 /\ it[t].ver > 0 /\ value_at(it[t]) = arg[t].val
      /\ it[t] = tree[arg[t].key] /\ arg[t].version \in VersionArg
      /\ arg[t].version < 0 => arg[t].val = Empty
      /\ arg[t].ver = NewVersion(arg[t].version, it[t].ver) /\ arg[t].ver # 0
      /\ it[t].hash = hash_of(arg[t].val, arg[t].ver)
  BY Zenon, <1>w DEF set_ok, log_ok, reads_ok
<1>4. it[t].hash = HashOf[arg[t].val]
  BY Zenon, <1>t, <1>3 DEF HashesMatch
<1>5. arg[t].version \in CInt /\ arg[t].version \in Int /\ it[t].ver \in Int /\ arg[t].ver \in Int
  <2>1. arg[t].version \in CInt /\ arg[t].ver \in Int
    BY Zenon, <1>3, ConstantsAssumption DEF TypeOK, Arg
  <2> QED
    BY SMTT(30), <1>t, <2>1, IntMaxAssumption DEF CInt, IntMin, Item
<1>6. /\ arg[t].version < 0 => arg[t].ver < 0
      /\ arg[t].version > 0 => arg[t].ver = arg[t].version /\ Abs(arg[t].ver) > Abs(it[t].ver)
  BY Zenon, <1>3, <1>5, RaisedVersion
<1>7. ~(arg[t].version < 0)
  <2> SUFFICES ASSUME arg[t].version < 0 PROVE FALSE
    OBVIOUS
  <2>1. arg[t].val = Empty /\ ~(arg[t].ver > 0)
    BY SMTT(30), <1>3, <1>5, <1>6
  <2>2. hash_of(arg[t].val, arg[t].ver) = 0
    BY ZenonT(30), <2>1 DEF hash_of
  <2> QED
    BY Zenon, <1>3, <1>4, <2>1, <2>2, ConstantsAssumption
<1>8. arg[t].ver > 0 /\ arg[t].ver \in Int /\ Abs(arg[t].ver) > Abs(it[t].ver)
  BY SMTT(30), <1>3, <1>5, <1>6, <1>7
<1>9. ASSUME NEW p \in starts, p.rec.key = arg[t].key
      PROVE  settled(p, item'[t])
  <2>1. ~being_indexed(arg[t].key, p)
    BY Zenon, <1>w DEF being_indexed
  <2>2. settled(p, it[t])
    BY Zenon, <1>3, <1>9, <2>1 DEF Indexed
  <2>3. CASE before(p, it[t])
    BY Zenon, <1>2, <2>3 DEF settled, before
  <2>4. CASE ~before(p, it[t])
    <3>1. /\ same_place(p, it[t]) /\ it[t].hash = hash_of(p.rec.val, p.rec.ver)
          /\ it[t].ver > 0 <=> p.rec.ver > 0
          /\ Abs(p.rec.ver) <= Abs(it[t].ver)
      BY Zenon, <2>2, <2>4 DEF settled
    <3>2. Abs(p.rec.ver) \in Int /\ Abs(it[t].ver) \in Int /\ Abs(arg[t].ver) \in Int
      BY SMTT(30), <1>5, <1>8, AbsInt DEF Block
    <3>3. Abs(p.rec.ver) <= Abs(arg[t].ver)
      BY SMTT(30), <1>8, <3>1, <3>2
    <3>4. same_place(p, item'[t])
      BY Zenon, <1>2, <3>1 DEF same_place
    <3> QED
      BY Zenon, <1>2, <1>3, <1>8, <3>1, <3>3, <3>4 DEF settled
  <2> QED
    BY Zenon, <2>3, <2>4
<1>10. ASSUME NEW p \in starts', p.rec.key = arg'[t].key
       PROVE  settled(p, item[t])'
  <2>1. settled(p, item'[t])
    BY Zenon, <1>1, <1>9, <1>10
  <2> QED
    BY Zenon, <2>1 DEF settled, before, same_place, hash_of, Abs, Wrap
<1> QED
  BY Zenon, <1>1, <1>10 DEF log_ok, ReadLabel

\* What bc_set has appended is the last record, whatever key it is of.
LEMMA LogAppend ==
  ASSUME TypeOK, NEW t \in Client, arg[t].key \in Key, write_lock = t,
         pc[t] \in {"append", "grow"}, pc'[t] = "index_curr", UNCHANGED <<tree, arg, write_lock>>,
         starts' \subseteq starts \cup {appended(t)'},
         item'[t].hash = hash_of(arg[t].val, arg[t].ver), item'[t].ver = arg[t].ver,
         \A p \in starts : before(p, item'[t]),
         Indexed
  PROVE  log_ok(t)' /\ Indexed'
<1>1. /\ appended(t)'.bucket = item'[t].bucket /\ appended(t)'.off = item'[t].off
      /\ appended(t)'.rec.key = arg[t].key /\ appended(t)'.rec.ver = arg[t].ver
      /\ appended(t)'.rec.val = arg[t].val
  BY DEF appended
<1>2. arg[t].ver \in Int /\ Abs(arg[t].ver) \in Int
  BY Zenon, AbsInt DEF TypeOK, Arg
<1>3. settled(appended(t)', item'[t])
  <2>1. Abs(arg[t].ver) <= Abs(arg[t].ver)
    BY <1>2
  <2> QED
    BY Zenon, <1>1, <2>1 DEF settled, same_place
<1>4. ASSUME NEW p \in starts'
      PROVE  settled(p, item[t])'
  <2>1. settled(p, item'[t])
    BY Zenon, <1>3, <1>4 DEF settled
  <2> QED
    BY Zenon, <2>1 DEF settled, before, same_place, hash_of, Abs, Wrap
<1>5. log_ok(t)'
  BY Zenon, <1>4 DEF log_ok, ReadLabel
<1>6. ASSUME NEW p \in starts'
      PROVE  being_indexed(p.rec.key, p)' \/ settled(p, tree[p.rec.key])'
  <2>1. CASE p = appended(t)'
    <3>1. being_indexed(p.rec.key, p)'
      BY Zenon, <1>1, <2>1 DEF being_indexed, same_place
    <3> QED
      BY Zenon, <3>1
  <2>2. CASE p \in starts
    <3>1. ~being_indexed(p.rec.key, p)
      BY Zenon DEF being_indexed
    <3>2. settled(p, tree[p.rec.key])
      BY Zenon, <2>2, <3>1 DEF Indexed
    <3> QED
      BY Zenon, <3>2 DEF settled, before, same_place, hash_of, Abs, Wrap
  <2> QED
    BY Zenon, <1>6, <2>1, <2>2
<1>7. Indexed'
  BY Zenon, <1>6 DEF Indexed
<1> QED
  BY ZenonT(30), <1>5, <1>7

\* The records of the log are first blocks.
LEMMA LogStarts ==
  ASSUME TypeOK, NEW k \in Key, NEW p \in log_of(k)
  PROVE  p \in starts /\ p.rec.key = k
<1>0. /\ wbuf_start_pos \in Nat /\ fbuf_start_pos \in Nat /\ 0 \in Nat
      /\ write_buffer \in Seq(Block) /\ flush_buffer \in Seq(Block)
      /\ \A x \in DOMAIN data : data[x] \in Seq(Block)
  BY Zenon, NumberTypes DEF TypeOK
<1>1. ASSUME NEW b, NEW start \in Nat, NEW s \in Seq(Block), p \in found_in(b, start, s, k)
      PROVE  p \in starts_in(b, start, s) /\ p.rec.key = k
  <2>1. PICK o \in 0 .. Len(s) - 1 : /\ holds(s, o, k)
                                    /\ p = [bucket |-> b, off |-> start + o, rec |-> s[o + 1]]
    BY Zenon, <1>1 DEF found_in
  <2>2. Len(s) \in Nat /\ DOMAIN s = 1 .. Len(s)
    BY Zenon, LenProperties
  <2>3. PICK n \in DOMAIN s : n = o + 1 /\ start + n - 1 = start + o
    BY <2>2
  <2>4. s[n].ver # 0 /\ s[n].key = k /\ p = [bucket |-> b, off |-> start + n - 1, rec |-> s[n]]
    BY Zenon, <2>1, <2>3 DEF holds, decodes
  <2>5. p.rec = s[n]
    BY Zenon, <2>4
  <2> QED
    BY Zenon, <2>4, <2>5 DEF starts_in
<1>2. CASE p \in found_in(curr, wbuf_start_pos, write_buffer, k)
  BY Zenon, <1>0, <1>1, <1>2, StartsParts
<1>3. CASE p \in found_in(flushing_bucket, fbuf_start_pos, flush_buffer, k)
  BY Zenon, <1>0, <1>1, <1>3, StartsParts
<1>4. ASSUME NEW b \in DOMAIN data, p \in found_in(b, 0, data[b], k)
      PROVE  p \in starts /\ p.rec.key = k
  BY Zenon, <1>0, <1>1, <1>4, StartsParts
<1> QED
  BY Zenon, <1>2, <1>3, <1>4 DEF log_of

LEMMA LogInit == Init => LogInv
<1> SUFFICES ASSUME Init PROVE Indexed /\ \A t \in Client : log_ok(t)
  BY Zenon DEF LogInv
<1>1. write_buffer = <<>> /\ flush_buffer = <<>> /\ DOMAIN data = {}
  BY Zenon DEF Init, NoFile
<1>2. starts = {}
  BY Zenon, <1>1, StartsEmpty DEF starts
<1>3. \A t \in Client : write_lock # t
  BY Zenon, ConstantsAssumption DEF Init
<1> QED
  BY Zenon, <1>2, <1>3 DEF Indexed, log_ok

=============================================================================
