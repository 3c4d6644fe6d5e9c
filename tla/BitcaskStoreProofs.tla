------------------------- MODULE BitcaskStoreProofs --------------------------
(***************************************************************************)
(* Bitcask implements VersionedStore, its versions never go back and its   *)
(* index names the latest record of the log, for any number of keys,       *)
(* values, threads and buckets.                                            *)
(***************************************************************************)
EXTENDS BitcaskReadProofs

----------------------------------------------------------------------------
(***************************************************************************)
(* The invariant StoreInv, thread by thread.                               *)
(***************************************************************************)
\* The value of what bc_set found, and of what a thread has looked up or will
\* index, stays as it is.
LEMMA ValueOfItems ==
  ASSUME TypeOK, Locks, NEW u \in Client, reads_ok(u), ValuesKept,
         item'[u] = item[u], it'[u] = it[u]
  PROVE  /\ write_lock = u /\ it[u].ver # 0 => value_at(it[u])' = value_at(it[u])
         /\ pc[u] \in {"check_curr", "check_flushing", "buffers", "file", "index_curr", "index_tree"}
              => value_at(item[u])' = value_at(item[u])
<1>1. it[u] \in Item /\ item[u] \in Item
  BY Zenon DEF TypeOK
<1>2. pc[u] # "idle" => arg[u].key \in Key
  BY Zenon DEF TypeOK
<1>3. ASSUME write_lock = u, it[u].ver # 0
      PROVE  value_at(it[u])' = value_at(it[u])
  <2>1. PICK i \in Item, k \in Key : i = it[u] /\ k = arg[u].key
    BY Zenon, <1>1, <1>2, <1>3 DEF Locks, SetLabel, ReadLabel
  <2>2. value_at(i)' = value_at(i)
    BY Zenon, <1>3, <2>1 DEF ValuesKept, reads_ok
  <2> QED
    BY Zenon, <2>1, <2>2 DEF value_at
<1>4. ASSUME pc[u] \in {"check_curr", "check_flushing", "buffers", "file", "index_curr", "index_tree"}
      PROVE  value_at(item[u])' = value_at(item[u])
  <2>1. PICK i \in Item, k \in Key : i = item[u] /\ k = arg[u].key
    BY Zenon, <1>1, <1>2, <1>4
  <2>2. at(i, k)
    BY Zenon, <1>4, <2>1 DEF reads_ok, at
  <2>3. value_at(i)' = value_at(i)
    BY Zenon, <2>2 DEF ValuesKept
  <2> QED
    BY Zenon, <2>1, <2>3 DEF value_at
<1> QED
  BY Zenon, <1>3, <1>4

\* A thread that does not move, or only leaves bc_flush, keeps what it relies on.
LEMMA StoreOther ==
  ASSUME TypeOK, Locks, NEW u \in Client, reads_ok(u), set_ok(u), get_ok(u), ValuesKept,
         pc'[u] = pc[u] \/ (pc[u] = "flush" /\ pc'[u] = "grow"),
         item'[u] = item[u], arg'[u] = arg[u], it'[u] = it[u],
         write_lock' = u => write_lock = u,
         write_lock = u => tree'[arg[u].key] = tree[arg[u].key]
  PROVE  set_ok(u)' /\ get_ok(u)'
<1>1. /\ write_lock = u /\ it[u].ver # 0 => value_at(it[u])' = value_at(it[u])
      /\ pc[u] \in {"index_curr", "index_tree"} => value_at(item[u])' = value_at(item[u])
  BY Zenon, ValueOfItems
<1>2. write_lock = u /\ ~same(u) => ~same(u)'
  BY <1>1 DEF same
<1>3. get_ok(u)'
  BY Zenon DEF get_ok, ReadLabel
<1>4. set_ok(u)'
  BY <1>1, <1>2 DEF set_ok, ReadLabel
<1> QED
  BY Zenon, <1>3, <1>4

\* The hashes of the index match as long as it does not change.
LEMMA HashesKept ==
  ASSUME TypeOK, Readable, curr < MAX_BUCKET_COUNT, HashesMatch, ValuesKept, UNCHANGED tree
  PROVE  HashesMatch'
<1> SUFFICES ASSUME NEW k \in Key, tree[k].ver > 0
             PROVE  tree[k].hash = HashOf[value_at(tree[k])']
  BY Zenon DEF HashesMatch, value_at
<1>1. PICK i \in Item : i = tree[k]
  BY Zenon DEF TypeOK, Tree
<1>2. i.ver # 0
  BY <1>1
<1>3. value_at(i)' = value_at(i)
  BY Zenon, <1>1, <1>2 DEF Readable, ValuesKept
<1>4. value_at(tree[k])' = value_at(tree[k])
  BY Zenon, <1>1, <1>3 DEF value_at
<1> QED
  BY Zenon, <1>4 DEF HashesMatch

\* bc_get moves on, or returns the record of its item, or is back with the client.
Moves(t) ==
  /\ pc[t] \in {"check_curr", "check_flushing", "buffers"}
  /\ pc'[t] \in {"check_flushing", "buffers", "file"}
  /\ UNCHANGED <<arg, it, item, ret>>

Finds(t) ==
  /\ pc[t] \in {"buffers", "file"}
  /\ \E r : r.val = value_at(item[t]) /\ get_returns(t, TRUE, r)
  /\ UNCHANGED <<arg, it, item>>

LEMMA GetOutcome ==
  ASSUME TypeOK, Locks, Files, Reads, Reads', NEW t \in Client, GetStep(t)
  PROVE  Moves(t) \/ Finds(t) \/ Return(t)
<1> USE DEF index, wbuf, fbuf, disk, threads, locals
<1>1. reads_ok(t) /\ reads_ok(t)'
  BY Zenon DEF Reads
<1>2. pc \in [Client -> Label] /\ item[t] \in Item
  BY Zenon DEF TypeOK
<1>3. CASE CheckCurr(t)
  BY Zenon, <1>1, <1>2, <1>3 DEF CheckCurr, Moves, goto, reads_ok
<1>4. CASE CheckFlushing(t)
  BY Zenon, <1>2, <1>4 DEF CheckFlushing, Moves, goto
<1>5. CASE ReadBuffers(t)
  <2>1. CASE goto(t, "file") /\ UNCHANGED ret
    BY Zenon, <1>2, <1>5, <2>1 DEF ReadBuffers, Moves, goto
  <2>2. CASE ~(goto(t, "file") /\ UNCHANGED ret)
    BY Zenon, <1>5, <2>2 DEF ReadBuffers, Finds, value_at
  <2> QED
    BY Zenon, <2>1, <2>2
<1>6. CASE ReadFile(t)
  <2>1. in_file(item[t], arg[t].key) /\ arg[t].key \in Key
    BY Zenon, <1>1, <1>6 DEF ReadFile, reads_ok, TypeOK
  <2>2. value_at(item[t]) = data[item[t].bucket][item[t].off + 1].val
    BY Zenon, <1>2, <2>1, ValueWhere DEF Located
  <2> QED
    BY Zenon, <1>6, <2>1, <2>2 DEF ReadFile, Finds, in_file, holds
<1>7. CASE LookAgain(t) \/ RemoveKey(t)
  BY Zenon, <1>1, <1>7 DEF LookAgain, RemoveKey, reads_ok
<1> QED
  BY Zenon, <1>3, <1>4, <1>5, <1>6, <1>7 DEF GetStep

\* bc_set learns from bc_get whether the value it was given is there already.
LEMMA StoreGet ==
  ASSUME TypeOK, Locks, Files, Reads, Reads', NEW t \in Client, GetStep(t), set_ok(t), get_ok(t),
         ValuesKept
  PROVE  set_ok(t)' /\ get_ok(t)'
<1>1. /\ UNCHANGED <<write_lock, tree>> /\ pc \in [Client -> Label]
      /\ pc[t] \in ReadLabel => UNCHANGED <<arg, it>>
      /\ reads_ok(t)
  BY Zenon, GetFrame DEF Reads, reads_ok, TypeOK
<1>2. CASE Return(t)
  <2>1. pc'[t] = "idle" /\ write_lock' # t
    BY Zenon, <1>1, <1>2 DEF Return, finish, goto, Locks, SetLabel, ReadLabel
  <2> QED
    BY Zenon, <2>1 DEF set_ok, get_ok, ReadLabel
<1>3. CASE Moves(t)
  BY Zenon, <1>1, <1>3 DEF Moves, set_ok, get_ok, ReadLabel
<1>4. CASE Finds(t)
  <2>1. PICK r : r.val = value_at(item[t]) /\ get_returns(t, TRUE, r)
    BY Zenon, <1>4 DEF Finds
  <2>2. UNCHANGED <<arg, it, item>> /\ pc[t] \in ReadLabel /\ pc[t] \in {"buffers", "file"}
    BY Zenon, <1>4 DEF Finds, ReadLabel
  <2>3. CASE write_lock # t
    <3>1. pc'[t] = "return"
      BY Zenon, <1>1, <2>1, <2>3 DEF get_returns, goto
    <3> QED
      BY Zenon, <1>1, <2>3, <3>1 DEF set_ok, get_ok, ReadLabel
  <2>4. CASE write_lock = t
    <3>1. /\ pc'[t] \in {"append", "raise", "unlock"}
          /\ pc'[t] = "append" => r.val # arg[t].val
          /\ pc'[t] = "raise" => r.val = arg[t].val /\ arg[t].version # 0
      BY Zenon, <1>1, <2>1, <2>4 DEF get_returns, goto
    <3>2. item[t] = it[t] /\ it[t].ver > 0 /\ it[t].ver # 0
      <4>1. item[t] = it[t] /\ it[t].ver > 0
        BY Zenon, <2>2, <2>4 DEF set_ok
      <4> QED
        BY <4>1
    <3>3. value_at(it[t])' = r.val
      BY Zenon, <1>1, <2>1, <2>2, <2>4, <3>2, ValueOfItems
    <3>4. pc'[t] = "append" => ~same(t)'
      BY Zenon, <2>2, <3>1, <3>3 DEF same
    <3>5. set_ok(t)'
      BY Zenon, <1>1, <2>2, <2>4, <3>1, <3>2, <3>3, <3>4 DEF set_ok, ReadLabel
    <3> QED
      BY Zenon, <3>1, <3>5 DEF get_ok, ReadLabel
  <2> QED
    BY Zenon, <2>3, <2>4
<1> QED
  BY Zenon, <1>2, <1>3, <1>4, GetOutcome

\* bc_set starts from the item that the index has: a value of another hash is
\* another value.
LEMMA StoreBegin ==
  ASSUME TypeOK, Locks, HashesMatch, NEW t \in Client, NEW k \in Key,
         GetBegin(t, k) \/ \E v \in Value, n \in VersionArg : SetBegin(t, k, v, n)
  PROVE  set_ok(t)' /\ get_ok(t)'
<1> USE DEF index, wbuf, fbuf, disk, threads, locals
<1>t. /\ pc \in [Client -> Label] /\ arg \in [Client -> Arg] /\ it \in [Client -> Item]
      /\ item \in [Client -> Item] /\ tree[k] \in Item
  BY Zenon DEF TypeOK, Tree
<1>1. CASE GetBegin(t, k)
  <2>1. write_lock # t /\ write_lock' = write_lock
    BY Zenon, <1>1 DEF GetBegin, Locks, SetLabel, ReadLabel
  <2>2. pc'[t] = "return" \/ (pc'[t] = "check_curr" /\ item'[t] = tree[k] /\ tree[k].ver # 0)
    BY Zenon, <1>t, <1>1, <2>1 DEF GetBegin, ht_lookup, get_returns, goto
  <2> QED
    BY Zenon, <2>1, <2>2 DEF set_ok, get_ok, ReadLabel
<1>2. ASSUME NEW v \in Value, NEW n \in VersionArg, SetBegin(t, k, v, n)
      PROVE  set_ok(t)' /\ get_ok(t)'
  <2> DEFINE ver == NewVersion(n, tree[k].ver)
  <2>1. /\ arg'[t] = [key |-> k, val |-> v, version |-> n, ver |-> ver] /\ it'[t] = tree[k]
        /\ n < 0 => v = Empty
        /\ pc'[t] \in {"lookup", "append"}
        /\ pc'[t] = "append" => ~(tree[k].ver # 0 /\ tree[k].hash = hash_of(v, ver))
        /\ UNCHANGED <<tree, curr, wbuf, fbuf, data>>
    BY ZenonT(30), <1>t, <1>2 DEF SetBegin, goto
  <2>2. value_at(it[t])' = value_at(tree[k])
    BY Zenon, <2>1 DEF value_at
  <2>3. /\ arg'[t].key = k /\ arg'[t].val = v /\ arg'[t].version = n /\ arg'[t].ver = ver
    BY <2>1
  <2>4. pc'[t] = "append" => ~same(t)'
    <3> SUFFICES ASSUME pc'[t] = "append", same(t)' PROVE FALSE
      OBVIOUS
    <3>1. tree[k].ver > 0 /\ ver > 0 /\ value_at(tree[k]) = v
      BY Zenon, <2>1, <2>2, <2>3 DEF same
    <3>2. tree[k].ver # 0 /\ tree[k].hash = hash_of(v, ver)
      BY <3>1 DEF HashesMatch, hash_of
    <3> QED
      BY Zenon, <2>1, <3>2
  <2> QED
    BY Zenon, <2>1, <2>3, <2>4 DEF set_ok, get_ok, ReadLabel
<1> QED
  BY Zenon, <1>1, <1>2

\* What bc_set has appended is what it was given.
LEMMA StoreAppended ==
  ASSUME NoWrap, TypeOK, Locks, Buffers, Files, Reads, TypeOK', Locks', Files',
         NEW t \in Client, SetAppend(t) \/ SetGrown(t),
         curr' < MAX_BUCKET_COUNT, pc'[t] = "index_curr"
  PROVE  /\ item'[t].ver = arg[t].ver /\ value_at(item[t])' = arg[t].val
         /\ item'[t].ver > 0 => item'[t].hash = HashOf[arg[t].val]
<1>1. write_lock = t /\ arg[t].ver # 0
  <2>1. pc[t] \in SetLabel
    BY Zenon DEF SetAppend, SetGrown, SetLabel
  <2> QED
    BY Zenon, <2>1 DEF Locks, Reads, reads_ok
<1>2. /\ item'[t].bucket = curr' /\ item'[t].off = wbuf_start_pos' + Len(write_buffer)
      /\ item'[t].ver = arg[t].ver /\ item'[t].hash = hash_of(arg[t].val, arg[t].ver)
      /\ write_buffer'[Len(write_buffer) + 1] =
           [key |-> arg[t].key, ver |-> arg[t].ver, val |-> arg[t].val]
  BY Zenon, <1>1, AtAppended
<1>3. /\ item'[t].off >= wbuf_start_pos'
      /\ item'[t].off - wbuf_start_pos' + 1 = Len(write_buffer) + 1
  <2>1. wbuf_start_pos' \in Nat /\ Len(write_buffer) \in Nat
    BY Zenon, NumberTypes DEF TypeOK
  <2> QED
    BY SMTT(30), <1>2, <2>1
<1>4. value_at(item[t])' = write_buffer'[Len(write_buffer) + 1].val
  BY Zenon, <1>2, <1>3 DEF value_at
<1> QED
  BY <1>2, <1>4 DEF hash_of

\* bc_set appends only what differs, and what it indexes is what it was given.
LEMMA StoreSet ==
  ASSUME NoWrap, TypeOK, Locks, Buffers, Files, Reads, HashesMatch, TypeOK', Locks', Files',
         NEW t \in Client, SetStep(t), set_ok(t), get_ok(t), ValuesKept,
         curr' < MAX_BUCKET_COUNT
  PROVE  set_ok(t)' /\ get_ok(t)'
<1> USE DEF index, wbuf, fbuf, disk, threads, locals
<1>t. /\ pc \in [Client -> Label] /\ it \in [Client -> Item] /\ item \in [Client -> Item]
      /\ reads_ok(t)
  BY ZenonT(30) DEF TypeOK, Reads
<1>w. write_lock = t /\ arg[t].key \in Key
  <2>1. pc[t] \in SetLabel /\ pc[t] # "idle"
    BY Zenon DEF SetStep, SetLookup, SetAppend, SetDouble, SetGrown, SetIndexCurr, SetIndexTree,
           SetRaise, SetUnlock, SetLabel
  <2> QED
    BY Zenon, <2>1 DEF Locks, TypeOK
<1>1. CASE SetLookup(t)
  <2>1. UNCHANGED <<tree, write_lock, arg, it>>
    BY Zenon, <1>1 DEF SetLookup
  <2>2. it[t] = tree[arg[t].key]
    BY Zenon, <1>w DEF set_ok
  <2>3. \/ pc'[t] = "append" /\ (it[t].ver = 0 \/ it[t].ver < 0)
        \/ pc'[t] = "check_curr" /\ item'[t] = it[t] /\ it[t].ver # 0 /\ ~(it[t].ver < 0)
    BY Zenon, <1>t, <1>w, <1>1, <2>2 DEF SetLookup, ht_lookup, get_returns, goto
  <2>4. it[t].ver \in Int
    BY Zenon, <1>t DEF Item
  <2>5. pc'[t] = "append" => ~same(t)'
    BY SMTT(30), <2>1, <2>3, <2>4 DEF same
  <2>6. pc'[t] = "check_curr" => it[t].ver > 0
    BY <2>3, <2>4
  <2>7. set_ok(t)'
    BY Zenon, <1>w, <2>1, <2>3, <2>5, <2>6 DEF set_ok, ReadLabel
  <2> QED
    BY Zenon, <2>1, <2>3, <2>7 DEF get_ok, ReadLabel
<1>2. CASE SetAppend(t) \/ SetGrown(t)
  <2>1. /\ UNCHANGED <<tree, write_lock, arg, it>> /\ pc[t] \in {"append", "grow"}
        /\ pc'[t] \in {"flush", "index_curr"}
    BY Zenon, <1>t, <1>2 DEF SetAppend, SetGrown, append_record, goto
  <2>2. ~same(t)
    BY Zenon, <1>w, <2>1 DEF set_ok
  <2>3. ~same(t)'
    <3>1. it[t].ver > 0 => it[t].ver # 0
      OBVIOUS
    <3>2. CASE it[t].ver # 0
      <4>1. PICK i \in Item : i = it[t]
        BY Zenon, <1>t
      <4>2. value_at(i)' = value_at(i)
        BY Zenon, <1>t, <1>w, <3>2, <4>1 DEF ValuesKept, reads_ok
      <4> QED
        BY Zenon, <2>1, <2>2, <4>1, <4>2 DEF same, value_at
    <3> QED
      BY Zenon, <2>1, <3>1, <3>2 DEF same
  <2>4. set_ok(t)'
    BY Zenon, <1>w, <1>2, <2>1, <2>3, StoreAppended DEF set_ok, ReadLabel
  <2> QED
    BY Zenon, <2>1, <2>4 DEF get_ok, ReadLabel
<1>3. CASE SetDouble(t)
  BY Zenon, <1>t, <1>3, StoreOther DEF SetDouble
<1>4. CASE SetIndexCurr(t)
  <2>1. /\ UNCHANGED <<tree, write_lock, arg, it, item>>
        /\ pc[t] = "index_curr" /\ pc'[t] = "index_tree"
    BY Zenon, <1>t, <1>4 DEF SetIndexCurr, goto
  <2>2. /\ it[t].ver # 0 => value_at(it[t])' = value_at(it[t])
        /\ value_at(item[t])' = value_at(item[t])
    BY ZenonT(30), <1>t, <1>w, <2>1, ValueOfItems
  <2>3. ~same(t)'
    BY SMTT(30), <1>w, <2>1, <2>2 DEF set_ok, same
  <2> QED
    BY Zenon, <1>w, <2>1, <2>2, <2>3 DEF set_ok, get_ok, ReadLabel
<1>5. CASE SetIndexTree(t) \/ SetUnlock(t)
  <2>1. pc'[t] = "idle" /\ write_lock' # t
    BY Zenon, <1>t, <1>5, ConstantsAssumption DEF SetIndexTree, SetUnlock, finish, goto
  <2> QED
    BY Zenon, <2>1 DEF set_ok, get_ok, ReadLabel
<1>6. CASE SetRaise(t)
  <2>1. /\ UNCHANGED <<tree, write_lock, arg, it>> /\ pc[t] = "raise"
        /\ pc'[t] \in {"index_curr", "index_tree"}
        /\ UNCHANGED <<curr, wbuf, fbuf, data>>
    BY Zenon, <1>t, <1>6 DEF SetRaise, goto
  <2>2. /\ item'[t].ver = arg[t].ver /\ item'[t].bucket = it[t].bucket
        /\ item'[t].off = it[t].off /\ item'[t].hash = it[t].hash
    <3>1. item'[t] = [it[t] EXCEPT !.ver = arg[t].ver]
      BY Zenon, <1>t, <1>6 DEF SetRaise
    <3>2. it[t] \in Item
      BY Zenon, <1>t
    <3> QED
      BY Zenon, <3>1, <3>2 DEF Item
  <2>3. /\ arg[t].version # 0 /\ it[t].ver > 0 /\ value_at(it[t]) = arg[t].val
        /\ it[t] = tree[arg[t].key]
    BY Zenon, <1>w, <2>1 DEF set_ok
  <2>4. value_at(item[t])' = arg[t].val
    BY Zenon, <2>1, <2>2, <2>3 DEF value_at
  <2>5. it[t].hash = HashOf[arg[t].val]
    BY Zenon, <1>w, <2>3 DEF HashesMatch
  <2>6. ~same(t)'
    BY Zenon, <2>1, <2>3 DEF same
  <2>7. set_ok(t)'
    BY Zenon, <1>w, <2>1, <2>2, <2>4, <2>5, <2>6 DEF set_ok, ReadLabel
  <2> QED
    BY Zenon, <2>1, <2>7 DEF get_ok, ReadLabel
<1> QED
  BY Zenon, <1>1, <1>2, <1>3, <1>4, <1>5, <1>6 DEF SetStep

\* The index gets the hash of the value it points to.
LEMMA HashesIndexed ==
  ASSUME TypeOK, Locks, Reads, HashesMatch, NEW t \in Client, SetIndexTree(t), set_ok(t)
  PROVE  HashesMatch'
<1>1. /\ write_lock = t /\ pc[t] = "index_tree" /\ arg[t].key \in Key
      /\ UNCHANGED <<curr, wbuf, fbuf, data>>
      /\ tree' = [tree EXCEPT ![arg[t].key] = item[t]] /\ tree \in [Key -> Item]
  BY Zenon DEF SetIndexTree, Locks, SetLabel, TypeOK, Tree, disk
<1>2. /\ value_at(item[t]) = arg[t].val
      /\ item[t].ver > 0 => item[t].hash = HashOf[arg[t].val]
  BY Zenon, <1>1 DEF set_ok
<1> SUFFICES ASSUME NEW k \in Key, tree'[k].ver > 0
             PROVE  tree'[k].hash = HashOf[value_at(tree[k])']
  BY Zenon DEF HashesMatch
<1>3. CASE k = arg[t].key
  <2>1. tree'[k] = item[t]
    BY Zenon, <1>1, <1>3
  <2>2. value_at(tree[k])' = value_at(item[t])
    BY Zenon, <1>1, <2>1 DEF value_at, wbuf, fbuf
  <2> QED
    BY Zenon, <1>2, <2>1, <2>2
<1>4. CASE k # arg[t].key
  <2>1. tree'[k] = tree[k]
    BY Zenon, <1>1, <1>4
  <2>2. value_at(tree[k])' = value_at(tree[k])
    BY Zenon, <1>1, <2>1 DEF value_at, wbuf, fbuf
  <2> QED
    BY Zenon, <2>1, <2>2 DEF HashesMatch
<1> QED
  BY ZenonT(30), <1>3, <1>4

----------------------------------------------------------------------------
(***************************************************************************)
(* Every step keeps StoreInv.                                              *)
(***************************************************************************)
LEMMA QuietOthers ==
  ASSUME UNCHANGED vars \/ \E h \in building : build_hint(h)
  PROVE  UNCHANGED tree /\ Quiet /\ \A u \in Client : Stays(u)
BY Zenon DEF vars, build_hint, index, wbuf, fbuf, disk, threads, locals, Quiet, Stays

\* One client's thread at a time, or the flush of one, or the hint of a bucket.
LEMMA StepCases ==
  ASSUME [Next]_vars
  PROVE  \/ \E t \in Client : GetStep(t) \/ Begin(t) \/ SetStep(t)
         \/ \E f \in Client \cup {Flusher} : FlushStep(f)
         \/ UNCHANGED vars \/ \E h \in building : build_hint(h)
BY Zenon DEF Next, Begin

\* No step changes the value of a record.
LEMMA ValuesNext ==
  ASSUME IInv, IInv', [Next]_vars, curr < MAX_BUCKET_COUNT
  PROVE  ValuesKept
<1>1. TypeOK /\ Locks /\ Files /\ Reads /\ TypeOK' /\ Locks' /\ Files'
  BY Zenon DEF IInv
<1>2. Quiet => ValuesKept
  BY Zenon, ValuesQuiet DEF Quiet
<1> QED
  BY Zenon, <1>1, <1>2, StepCases, GetOthers, QuietOthers, ValuesSet, ValuesFlush

\* The tree changes where bc_set indexes its record, and nowhere else.
LEMMA TreeNext ==
  ASSUME IInv, [Next]_vars, curr < MAX_BUCKET_COUNT
  PROVE  UNCHANGED tree \/ \E t \in Client : SetIndexTree(t)
<1>1. TypeOK /\ Locks /\ Reads
  BY Zenon DEF IInv
<1>2. ASSUME NEW t \in Client, SetStep(t), ~SetIndexTree(t)
      PROVE  UNCHANGED tree
  BY Zenon, <1>2 DEF SetStep, SetLookup, SetAppend, SetDouble, SetGrown, SetIndexCurr, SetRaise,
              SetUnlock, index
<1> QED
  BY Zenon, <1>1, <1>2, StepCases, GetOthers, QuietOthers, FlushOthers

LEMMA StoreNext ==
  ASSUME NoWrap, IInv, IInv', StoreInv, [Next]_vars
  PROVE  StoreInv'
<1> SUFFICES ASSUME curr' < MAX_BUCKET_COUNT
             PROVE  HashesMatch' /\ \A t \in Client : set_ok(t)' /\ get_ok(t)'
  BY Zenon DEF StoreInv
<1>c. curr < MAX_BUCKET_COUNT
  <2>1. TypeOK /\ curr \in Nat /\ MAX_BUCKET_COUNT \in Nat
    BY Zenon, ConstantsAssumption DEF IInv, TypeOK
  <2>2. curr' \in Nat /\ curr <= curr'
    BY Zenon, <2>1, CurrGrows
  <2> QED
    BY SMTT(30), <2>1, <2>2
<1>1. /\ TypeOK /\ Locks /\ Buffers /\ Files /\ Reads /\ Readable
      /\ TypeOK' /\ Locks' /\ Files' /\ Reads'
      /\ HashesMatch /\ \A u \in Client : set_ok(u) /\ get_ok(u) /\ reads_ok(u)
  BY Zenon, <1>c DEF IInv, Reads, StoreInv
<1>2. ValuesKept
  BY Zenon, <1>c, ValuesNext
<1>3. HashesMatch'
  <2>1. CASE UNCHANGED tree
    BY Zenon, <1>c, <1>1, <1>2, <2>1, HashesKept
  <2>2. CASE \E t \in Client : SetIndexTree(t)
    BY Zenon, <1>1, <2>2, HashesIndexed
  <2> QED
    BY Zenon, <1>c, <2>1, <2>2, TreeNext
<1>4. ASSUME NEW u \in Client, Stays(u), write_lock = u => UNCHANGED tree
      PROVE  set_ok(u)' /\ get_ok(u)'
  BY Zenon, <1>1, <1>2, <1>4, StoreOther DEF Stays
<1>5. ASSUME NEW t \in Client, GetStep(t) \/ Begin(t), NEW u \in Client
      PROVE  set_ok(u)' /\ get_ok(u)'
  <2>1. CASE u # t
    BY Zenon, <1>1, <1>4, <1>5, <2>1, GetOthers
  <2>2. CASE GetStep(u)
    BY Zenon, <1>1, <1>2, <2>2, StoreGet
  <2>3. CASE Begin(u)
    BY Zenon, <1>1, <2>3, StoreBegin DEF Begin
  <2> QED
    BY Zenon, <1>5, <2>1, <2>2, <2>3
<1>6. ASSUME NEW t \in Client, SetStep(t), NEW u \in Client
      PROVE  set_ok(u)' /\ get_ok(u)'
  <2>1. CASE u # t
    <3>1. Stays(u) /\ (~SetIndexTree(t) => UNCHANGED tree)
      BY Zenon, <1>1, <1>6, <2>1, SetOthers
    <3>2. SetIndexTree(t) => write_lock = t
      BY Zenon, <1>1 DEF SetIndexTree, Locks, SetLabel
    <3> QED
      BY Zenon, <1>4, <2>1, <3>1, <3>2
  <2>2. CASE u = t
    BY Zenon, <1>1, <1>2, <1>6, <2>2, StoreSet
  <2> QED
    BY Zenon, <2>1, <2>2
<1>7. ASSUME NEW u \in Client, Stays(u), UNCHANGED tree
      PROVE  set_ok(u)' /\ get_ok(u)'
  BY Zenon, <1>4, <1>7
<1> QED
  BY Zenon, <1>1, <1>3, <1>5, <1>6, <1>7, StepCases, FlushOthers, QuietOthers

LEMMA StoreInit == Init => StoreInv
<1> SUFFICES ASSUME Init PROVE HashesMatch /\ \A t \in Client : set_ok(t) /\ get_ok(t)
  BY Zenon DEF StoreInv
<1>1. \A k \in Key : ~(tree[k].ver > 0)
  BY DEF Init, EmptyTree, NoItem
<1>2. \A t \in Client : pc[t] = "idle" /\ write_lock # t
  BY Zenon, ConstantsAssumption DEF Init
<1> QED
  BY Zenon, <1>1, <1>2 DEF HashesMatch, set_ok, get_ok, ReadLabel

\* While it runs, bc_set relies on the value, the version and the hash that
\* the index gives its key, and they are right.
THEOREM StoreInvariant == ASSUME NoWrap PROVE Spec => [](IInv /\ StoreInv)
<1>1. Init => IInv /\ StoreInv
  BY Zenon, IInvInit, StoreInit
<1>2. IInv /\ StoreInv /\ [Next]_vars => IInv' /\ StoreInv'
  BY Zenon, IInvNext, StoreNext
<1> QED
  BY <1>1, <1>2, PTL DEF Spec

----------------------------------------------------------------------------
(***************************************************************************)
(* Versions.                                                               *)
(***************************************************************************)
\* Two racing sets never undo each other, however bc_set is interrupted by
\* flushes and rotations, as long as the versions fit a C int.
THEOREM VersionsNeverGoBack ==
  ASSUME NoWrap
  PROVE  Spec /\ [](\A k \in Key : NoOverflow(tree[k].ver)) => VersionsIncrease
<1> DEFINE Fits == \A k \in Key : NoOverflow(tree[k].ver)
           Grows == \A k \in Key : tree'[k].ver # tree[k].ver /\ curr < MAX_BUCKET_COUNT
                                     => Abs(tree'[k].ver) > Abs(tree[k].ver)
<1>1. ASSUME IInv, StoreInv, Fits, [Next]_vars
      PROVE  [Grows]_vars
  <2> SUFFICES ASSUME NEW k \in Key, tree'[k].ver # tree[k].ver, curr < MAX_BUCKET_COUNT
               PROVE  Abs(tree'[k].ver) > Abs(tree[k].ver)
    OBVIOUS
  <2>1. PICK t \in Client : SetIndexTree(t)
    BY Zenon, <1>1, TreeNext
  <2>2. /\ pc[t] = "index_tree" /\ arg[t].key \in Key
        /\ tree' = [tree EXCEPT ![arg[t].key] = item[t]] /\ tree \in [Key -> Item]
    BY Zenon, <1>1, <2>1 DEF SetIndexTree, IInv, TypeOK, Tree
  <2>3. k = arg[t].key /\ tree'[k] = item[t]
    BY Zenon, <2>2
  <2>4. write_lock = t
    BY Zenon, <1>1, <2>2 DEF IInv, Locks, SetLabel
  <2>5. /\ item[t].ver = NewVersion(arg[t].version, tree[k].ver) /\ arg[t].version \in CInt
        /\ arg[t].ver # 0 /\ item[t].ver = arg[t].ver
    <3>1. set_ok(t) /\ reads_ok(t)
      BY Zenon, <1>1 DEF StoreInv, IInv, Reads
    <3>2. /\ item[t].ver = NewVersion(arg[t].version, tree[k].ver)
          /\ arg[t].version \in VersionArg /\ item[t].ver = arg[t].ver
      BY Zenon, <2>2, <2>3, <2>4, <3>1 DEF set_ok
    <3> QED
      BY Zenon, <2>4, <3>1, <3>2, ConstantsAssumption DEF reads_ok
  <2>6. tree[k].ver \in Int
    BY Zenon, <2>2 DEF Item
  <2> QED
    BY Zenon, <1>1, <2>3, <2>5, <2>6, VersionGrows
<1>2. IInv /\ StoreInv /\ Fits /\ [Next]_vars => [Grows]_vars
  BY Zenon, <1>1
<1> HIDE DEF Fits, Grows
<1>3. Spec /\ []Fits => [][Grows]_vars
  BY <1>2, StoreInvariant, PTL DEF Spec
<1> QED
  BY Zenon, <1>3 DEF Fits, Grows, VersionsIncrease

----------------------------------------------------------------------------
(***************************************************************************)
(* Refinement of VersionedStore.                                           *)
(***************************************************************************)
\* What a key holds is what it held, where the index is not changed.
LEMMA EntryKept ==
  ASSUME TypeOK, Readable, curr < MAX_BUCKET_COUNT, ValuesKept, NEW k \in Key, tree'[k] = tree[k]
  PROVE  entry(tree[k])' = entry(tree[k])
<1>1. PICK i \in Item : i = tree[k]
  BY Zenon DEF TypeOK, Tree
<1>2. i.ver # 0 => value_at(i)' = value_at(i)
  BY Zenon, <1>1 DEF Readable, ValuesKept
<1> QED
  BY ZenonT(30), <1>1, <1>2 DEF entry, value_at

\* What a thread's get has seen is what it had seen, if the thread stays.
LEMMA GotKept ==
  ASSUME TypeOK, Locks, NEW u \in Client, reads_ok(u), ValuesKept, Stays(u)
  PROVE  got_of(u)' = got_of(u)
<1>1. reading(u)' <=> reading(u)
  BY Zenon DEF reading, Stays
<1>2. ASSUME reading(u)
      PROVE  entry(item[u])' = entry(item[u])
  <2>1. value_at(item[u])' = value_at(item[u]) /\ item'[u] = item[u]
    BY Zenon, <1>2, ValueOfItems DEF reading, Stays
  <2> QED
    BY Zenon, <2>1 DEF entry
<1>3. pc'[u] = "return" <=> pc[u] = "return"
  BY Zenon DEF Stays
<1> QED
  BY Zenon, <1>1, <1>2, <1>3 DEF got_of, Stays

\* bc_get: the thread has seen the value before it returns it; bc_set sees none.
LEMMA GotGet ==
  ASSUME TypeOK, Locks, Files, Reads, Reads', NEW t \in Client, GetStep(t), get_ok(t), ValuesKept,
         ~Return(t)
  PROVE  got_of(t)' = got_of(t)
<1>1. /\ UNCHANGED write_lock /\ pc \in [Client -> Label] /\ reads_ok(t)
      /\ ret \in [Client -> [ver : Int, val : Value]]
  BY Zenon, GetFrame DEF Reads, TypeOK
<1>2. CASE Moves(t)
  <2>1. value_at(item[t])' = value_at(item[t]) /\ item'[t] = item[t]
    BY Zenon, <1>1, <1>2, ValueOfItems DEF Moves
  <2>2. entry(item[t])' = entry(item[t])
    BY Zenon, <2>1 DEF entry
  <2> QED
    BY Zenon, <1>1, <1>2, <2>2 DEF Moves, got_of, reading
<1>3. CASE Finds(t)
  <2>1. PICK r : r.val = value_at(item[t]) /\ get_returns(t, TRUE, r)
    BY Zenon, <1>3 DEF Finds
  <2>2. pc[t] \in {"buffers", "file"} /\ item[t].ver # 0
    BY Zenon, <1>3 DEF Finds, get_ok, ReadLabel
  <2>3. CASE write_lock = t
    <3>1. pc'[t] \in {"append", "raise", "unlock"}
      BY Zenon, <1>1, <2>1, <2>3 DEF get_returns, goto
    <3> QED
      BY Zenon, <1>1, <2>2, <2>3, <3>1 DEF got_of, reading
  <2>4. CASE write_lock # t
    <3>1. pc'[t] = "return" /\ ret'[t] = [ver |-> item[t].ver, val |-> value_at(item[t])]
      BY Zenon, <1>1, <2>1, <2>4 DEF get_returns, goto
    <3>2. got_of(t) = [ver |-> item[t].ver, val |-> value_at(item[t])]
      BY Zenon, <2>2, <2>4 DEF got_of, reading, entry
    <3> QED
      BY Zenon, <3>1, <3>2 DEF got_of, reading
  <2> QED
    BY Zenon, <2>3, <2>4
<1> QED
  BY ZenonT(30), <1>2, <1>3, GetOutcome

\* bc_set never counts as a get.
LEMMA GotSet ==
  ASSUME TypeOK, Locks, Locks', NEW t \in Client,
         SetStep(t) \/ \E k \in Key, v \in Value, n \in VersionArg : SetBegin(t, k, v, n)
  PROVE  got_of(t)' = got_of(t)
<1> USE DEF index, wbuf, fbuf, disk, threads, locals
<1>t. pc \in [Client -> Label] /\ None # t
  BY Zenon, ConstantsAssumption DEF TypeOK
<1>1. pc[t] \in SetLabel \cup {"idle"}
  BY Zenon DEF SetStep, SetBegin, SetLookup, SetAppend, SetDouble, SetGrown, SetIndexCurr, SetIndexTree,
         SetRaise, SetUnlock, SetLabel
<1>2. got_of(t) = Nothing
  BY Zenon, <1>1 DEF got_of, reading, SetLabel
<1>3. ASSUME SetStep(t)
      PROVE  write_lock' = t \/ pc'[t] = "idle"
  <2>1. write_lock = t
    BY ZenonT(30), <1>3 DEF SetStep, SetLookup, SetAppend, SetDouble, SetGrown, SetIndexCurr, SetIndexTree,
                SetRaise, SetUnlock, SetLabel, Locks
  <2>2. CASE SetIndexTree(t) \/ SetUnlock(t)
    BY ZenonT(30), <1>t, <2>2 DEF SetIndexTree, SetUnlock, finish, goto
  <2>3. CASE ~(SetIndexTree(t) \/ SetUnlock(t))
    BY ZenonT(30), <1>3, <2>1, <2>3 DEF SetStep, SetLookup, SetAppend, SetDouble, SetGrown, SetIndexCurr, SetRaise
  <2> QED
    BY ZenonT(30), <2>2, <2>3
<1>4. write_lock' = t \/ pc'[t] = "idle"
  BY Zenon, <1>3 DEF SetBegin
<1>5. ~reading(t)' /\ pc'[t] # "return"
  BY Zenon, <1>4 DEF reading, Locks, SetLabel, ReadLabel
<1> QED
  BY ZenonT(30), <1>2, <1>5 DEF got_of

\* The store counts its versions as bc_set does.
LEMMA SameVersions ==
  /\ \A n, o : VS!NewVersion(n, o) = NewVersion(n, o)
  /\ VS!Nothing = Nothing
BY Zenon DEF VS!NewVersion, NewVersion, VS!Refused, Refused, VS!Abs, Abs, VS!Wrap, Wrap, VS!Nothing, Nothing

\* Indexing the record is the set of the store.
LEMMA IndexIsSet ==
  ASSUME IInv, IInv', StoreInv, curr < MAX_BUCKET_COUNT, ValuesKept,
         NEW t \in Client, SetIndexTree(t), UNCHANGED got_map
  PROVE  VS!Set(arg[t].key, arg[t].val, arg[t].version)
         /\ arg[t].key \in Key /\ arg[t].val \in Value /\ arg[t].version \in VersionArg
<1>1. /\ TypeOK /\ Locks /\ Readable /\ reads_ok(t) /\ set_ok(t)
  BY Zenon DEF IInv, Reads, StoreInv
<1>k. PICK k \in Key : k = arg[t].key
  BY ZenonT(30), <1>1 DEF SetIndexTree, TypeOK
<1>2. /\ pc[t] = "index_tree" /\ write_lock = t /\ arg[t].val \in Value
      /\ tree' = [tree EXCEPT ![k] = item[t]] /\ tree \in [Key -> Item]
      /\ UNCHANGED <<curr, wbuf, fbuf, data>>
  BY ZenonT(30), <1>1, <1>k DEF SetIndexTree, Locks, SetLabel, TypeOK, Tree, Arg, disk
<1>3. /\ item[t].ver = arg[t].ver /\ value_at(item[t]) = arg[t].val /\ arg[t].ver # 0
      /\ it[t] = tree[k] /\ arg[t].ver = NewVersion(arg[t].version, it[t].ver)
      /\ arg[t].version \in VersionArg /\ (arg[t].version < 0 => arg[t].val = Empty)
      /\ ~same(t)
  BY Zenon, <1>1, <1>2, <1>k DEF set_ok, reads_ok
<1>4. entry(tree[k])' = [ver |-> arg[t].ver, val |-> arg[t].val]
  <2>1. tree'[k] = item[t]
    BY Zenon, <1>2
  <2>2. value_at(tree[k])' = value_at(item[t])
    BY Zenon, <1>2, <2>1 DEF value_at, wbuf, fbuf
  <2> QED
    BY Zenon, <1>3, <2>1, <2>2 DEF entry
<1>5. \A x \in Key \ {k} : entry(tree[x])' = entry(tree[x])
  BY Zenon, <1>1, <1>2, EntryKept
<1>6. store_map' = [store_map EXCEPT ![k] = [ver |-> arg[t].ver, val |-> arg[t].val]]
  BY Zenon, <1>2, <1>4, <1>5 DEF store_map
<1>7. store_map[k].ver = tree[k].ver /\ (tree[k].ver # 0 => store_map[k].val = value_at(tree[k]))
  BY Zenon, <1>2 DEF store_map, entry, Nothing
<1>8. NewVersion(arg[t].version, store_map[k].ver) = arg[t].ver
  BY Zenon, <1>3, <1>7
<1>9. ~VS!SameContent(k, arg[t].val, arg[t].version)
  <2>1. tree[k].ver > 0 => tree[k].ver # 0
    OBVIOUS
  <2> QED
    BY Zenon, <1>k, <1>3, <1>7, <1>8, <2>1, SameVersions DEF VS!SameContent, same
<1> QED
  BY Zenon, <1>k, <1>2, <1>3, <1>6, <1>8, <1>9, SameVersions DEF VS!Set

\* The lookup of bc_get is the get of the store, ...
LEMMA LookupIsGet ==
  ASSUME TypeOK, Locks, NEW t \in Client, NEW k \in Key, GetBegin(t, k), UNCHANGED store_map,
         \A u \in Client \ {t} : got_of(u)' = got_of(u)
  PROVE  VS!Get(t, k)
<1> USE DEF index, wbuf, fbuf, disk, threads, locals
<1>t. /\ pc \in [Client -> Label] /\ item \in [Client -> Item]
      /\ ret \in [Client -> [ver : Int, val : Value]]
  BY Zenon DEF TypeOK
<1>1. pc[t] = "idle" /\ write_lock # t /\ UNCHANGED <<write_lock, tree, curr, wbuf, fbuf, data>>
  BY Zenon DEF GetBegin, Locks, SetLabel, ReadLabel
<1>2. got_of(t) = Nothing
  BY Zenon, <1>1 DEF got_of, reading
<1>3. got_of(t)' = entry(tree[k])
  <2>1. CASE tree[k].ver = 0
    <3>1. pc'[t] = "return" /\ ret'[t] = Nothing
      BY Zenon, <1>t, <1>1, <2>1 DEF GetBegin, ht_lookup, get_returns, goto
    <3> QED
      BY Zenon, <2>1, <3>1 DEF got_of, reading, entry
  <2>2. CASE tree[k].ver # 0
    <3>1. pc'[t] = "check_curr" /\ item'[t] = tree[k]
      BY Zenon, <1>t, <1>1, <2>2 DEF GetBegin, ht_lookup, goto
    <3>2. entry(item[t])' = entry(tree[k])
      BY Zenon, <1>1, <3>1 DEF entry, value_at
    <3> QED
      BY Zenon, <1>1, <3>1, <3>2 DEF got_of, reading
  <2> QED
    BY Zenon, <2>1, <2>2
<1>4. got_map' = [got_map EXCEPT ![t] = store_map[k]]
  BY Zenon, <1>3 DEF got_map, store_map
<1> QED
  BY ZenonT(30), <1>2, <1>4, SameVersions DEF VS!Get, got_map

\* ... and its return the answer, unless there was nothing to see.
LEMMA ReturnIsAnswer ==
  ASSUME TypeOK, Locks, NEW t \in Client, Return(t), UNCHANGED store_map,
         \A u \in Client \ {t} : got_of(u)' = got_of(u)
  PROVE  VS!Answer(t) \/ UNCHANGED <<store_map, got_map>>
<1>1. pc'[t] = "idle"
  BY Zenon DEF Return, finish, goto, TypeOK
<1>2. got_of(t)' = Nothing
  BY Zenon, <1>1 DEF got_of, reading
<1>3. got_map' = [got_map EXCEPT ![t] = Nothing]
  BY Zenon, <1>2 DEF got_map
<1>4. CASE got_of(t) = Nothing
  <2>1. UNCHANGED got_map
    BY Zenon, <1>2, <1>4 DEF got_map
  <2> QED
    BY Zenon, <2>1
<1>5. CASE got_of(t) # Nothing
  <2>1. got_map[t] # VS!Nothing
    BY Zenon, <1>5, SameVersions DEF got_map
  <2> QED
    BY Zenon, <1>3, <2>1, SameVersions DEF VS!Answer
<1> QED
  BY ZenonT(30), <1>4, <1>5

LEMMA RefineInit == Init => VS!VSInit
<1> SUFFICES ASSUME Init PROVE VS!VSInit
  OBVIOUS
<1>1. \A k \in Key : entry(tree[k]) = Nothing
  BY Zenon DEF Init, EmptyTree, NoItem, entry
<1>2. \A t \in Client : got_of(t) = Nothing
  BY Zenon DEF Init, got_of, reading
<1> QED
  BY Zenon, <1>1, <1>2, SameVersions DEF VS!VSInit, store_map, got_map

\* Every other step leaves the store and what the gets have seen as they are.
LEMMA RefineNext ==
  ASSUME IInv, IInv', StoreInv, [Next]_vars, curr < MAX_BUCKET_COUNT, curr' < MAX_BUCKET_COUNT
  PROVE  [VS!VSNext]_(VS!vsvars)
<1> SUFFICES VS!VSNext \/ UNCHANGED <<store_map, got_map>>
  BY Zenon DEF VS!vsvars
<1>1. /\ TypeOK /\ Locks /\ Files /\ Reads /\ Readable /\ Locks' /\ Reads'
      /\ \A u \in Client : reads_ok(u) /\ get_ok(u)
  BY Zenon DEF IInv, Reads, StoreInv
<1>2. ValuesKept
  BY Zenon, ValuesNext
<1>3. UNCHANGED tree => UNCHANGED store_map
  BY Zenon, <1>1, <1>2, EntryKept DEF store_map
<1>4. (\A u \in Client : got_of(u)' = got_of(u)) => UNCHANGED got_map
  BY Zenon DEF got_map
<1>5. \A u \in Client : Stays(u) => got_of(u)' = got_of(u)
  BY Zenon, <1>1, <1>2, GotKept
<1>6. ASSUME NEW t \in Client, GetStep(t)
      PROVE  VS!VSNext \/ UNCHANGED <<store_map, got_map>>
  <2>1. UNCHANGED store_map /\ \A u \in Client \ {t} : got_of(u)' = got_of(u)
    BY Zenon, <1>1, <1>3, <1>5, <1>6, GetOthers
  <2>2. CASE Return(t)
    BY Zenon, <1>1, <2>1, <2>2, ReturnIsAnswer DEF VS!VSNext
  <2>3. CASE ~Return(t)
    BY Zenon, <1>1, <1>2, <1>4, <1>6, <2>1, <2>3, GotGet
  <2> QED
    BY Zenon, <2>2, <2>3
<1>7. ASSUME NEW t \in Client, Begin(t)
      PROVE  VS!VSNext \/ UNCHANGED <<store_map, got_map>>
  <2>1. UNCHANGED store_map /\ \A u \in Client \ {t} : got_of(u)' = got_of(u)
    BY Zenon, <1>1, <1>3, <1>5, <1>7, GetOthers
  <2>2. ASSUME NEW k \in Key, GetBegin(t, k)
        PROVE  VS!VSNext
    BY Zenon, <1>1, <2>1, <2>2, LookupIsGet DEF VS!VSNext
  <2>3. ASSUME NEW k \in Key, NEW v \in Value, NEW n \in VersionArg, SetBegin(t, k, v, n)
        PROVE  UNCHANGED <<store_map, got_map>>
    BY Zenon, <1>1, <1>4, <2>1, <2>3, GotSet
  <2> QED
    BY Zenon, <1>7, <2>2, <2>3 DEF Begin
<1>8. ASSUME NEW t \in Client, SetStep(t)
      PROVE  VS!VSNext \/ UNCHANGED <<store_map, got_map>>
  <2>1. UNCHANGED got_map
    BY Zenon, <1>1, <1>4, <1>5, <1>8, SetOthers, GotSet
  <2>2. CASE SetIndexTree(t)
    BY Zenon, <1>2, <2>1, <2>2, IndexIsSet DEF VS!VSNext
  <2>3. CASE ~SetIndexTree(t)
    BY Zenon, <1>3, <1>8, <2>1, <2>3 DEF SetStep, SetLookup, SetAppend, SetDouble, SetGrown,
                                  SetIndexCurr, SetRaise, SetUnlock, index
  <2> QED
    BY <2>2, <2>3
<1> QED
  BY ZenonT(30), <1>1, <1>3, <1>4, <1>5, <1>6, <1>7, <1>8, StepCases, FlushOthers, QuietOthers

\* Until the bucket numbers run out, a bitcask is a versioned store, for any
\* number of clients, keys and buckets: a set takes effect in one step, and a get
\* answers with what the key held when it was looked up, however flushes and
\* rotations move the record meanwhile.
THEOREM ImplementsVersionedStore ==
  ASSUME NoWrap
  PROVE  Spec /\ [](curr < MAX_BUCKET_COUNT) => Implements
<1> DEFINE Room == curr < MAX_BUCKET_COUNT
<1>1. IInv /\ IInv' /\ StoreInv /\ Room /\ Room' /\ [Next]_vars => [VS!VSNext]_(VS!vsvars)
  BY Zenon, RefineNext
<1> HIDE DEF Room
<1>2. Spec /\ []Room => VS!VSSpec
  BY <1>1, RefineInit, StoreInvariant, PTL DEF Spec, VS!VSSpec
<1> QED
  BY Zenon, <1>2 DEF Room, Implements

----------------------------------------------------------------------------
(***************************************************************************)
(* The index against the log.                                              *)
(***************************************************************************)
\* bc_get leaves the log alone.
LEMMA LogGet ==
  ASSUME TypeOK, Locks, Files, Reads, Reads', NEW t \in Client, GetStep(t), log_ok(t)
  PROVE  log_ok(t)' /\ ~indexing(t)
<1>1. /\ write_lock' = write_lock /\ pc \in [Client -> Label]
      /\ pc[t] \in ReadLabel => UNCHANGED <<arg, it>>
      /\ pc[t] \in ReadLabel \cup {"return"}
  BY ZenonT(30), GetFrame DEF TypeOK
<1>2. CASE pc[t] = "return" \/ write_lock # t
  BY Zenon, <1>1, <1>2 DEF log_ok, indexing, Locks, SetLabel, ReadLabel
<1>3. CASE pc[t] \in ReadLabel /\ write_lock = t
  <2>1. pc'[t] \notin {"index_curr", "index_tree"}
    BY Zenon, <1>1, <1>3, GetOutcome DEF Moves, Finds, Return, ReadLabel, get_returns, goto
  <2>2. it'[t].hash = hash_of(arg'[t].val, arg'[t].ver)
    BY Zenon, <1>1, <1>3 DEF log_ok
  <2> QED
    BY Zenon, <1>3, <2>1, <2>2 DEF log_ok, indexing, ReadLabel, hash_of
<1> QED
  BY ZenonT(30), <1>1, <1>2, <1>3

LEMMA LogSet ==
  ASSUME NoWrap, TypeOK, Locks, Buffers, Files, Reads, HashesMatch, NEW t \in Client, SetStep(t),
         set_ok(t), Indexed, \A u \in Client : log_ok(u), curr' < MAX_BUCKET_COUNT
  PROVE  Indexed' /\ \A u \in Client : log_ok(u)'
<1> USE DEF index, wbuf, fbuf, disk, threads, locals
<1>t. pc \in [Client -> Label] /\ reads_ok(t)
  BY ZenonT(30) DEF TypeOK, Reads
<1>w. write_lock = t /\ arg[t].key \in Key
  <2>1. pc[t] \in SetLabel /\ pc[t] # "idle"
    BY Zenon DEF SetStep, SetLookup, SetAppend, SetDouble, SetGrown, SetIndexCurr, SetIndexTree,
           SetRaise, SetUnlock, SetLabel
  <2> QED
    BY ZenonT(30), <2>1 DEF Locks, TypeOK
<1>o. \A u \in Client \ {t} : Stays(u) /\ ~indexing(u)
  BY Zenon, <1>w, SetOthers DEF indexing
<1>u. ASSUME NEW u \in Client \ {t}
      PROVE  log_ok(u)'
  BY Zenon, <1>w, <1>o DEF Stays, log_ok
<1>1. CASE (SetAppend(t) \/ SetGrown(t)) /\ pc'[t] = "index_curr"
  <2>1. /\ starts' \subseteq starts \cup {appended(t)'}
        /\ item'[t].hash = hash_of(arg[t].val, arg[t].ver) /\ item'[t].ver = arg[t].ver
        /\ \A p \in starts : before(p, item'[t])
    BY Zenon, <1>t, <1>1, StartsAppend
  <2>2. UNCHANGED <<tree, arg, write_lock>> /\ pc[t] \in {"append", "grow"}
    BY Zenon, <1>1 DEF SetAppend, SetGrown
  <2>3. log_ok(t)' /\ Indexed'
    BY Zenon, <1>w, <1>1, <2>1, <2>2, LogAppend
  <2> QED
    BY Zenon, <1>u, <2>3
<1>2. CASE starts' \subseteq starts /\ ~((SetAppend(t) \/ SetGrown(t)) /\ pc'[t] = "index_curr")
  <2>1. CASE SetIndexTree(t)
    <3>1. /\ pc[t] = "index_tree" /\ tree' = [tree EXCEPT ![arg[t].key] = item[t]]
          /\ write_lock' = None /\ tree \in [Key -> Item]
      BY ZenonT(30), <2>1 DEF SetIndexTree, TypeOK, Tree
    <3>2. log_ok(t)'
      BY Zenon, <3>1, ConstantsAssumption DEF log_ok
    <3>3. ASSUME NEW p \in starts'
          PROVE  settled(p, tree[p.rec.key])'
      <4>1. p \in starts /\ p.rec.key \in Key
        <5>1. p.rec \in Block
          BY Zenon, <1>2, StartsBelow
        <5> QED
          BY Zenon, <1>2, <5>1 DEF Block
      <4>2. settled(p, tree'[p.rec.key])
        <5>1. CASE p.rec.key = arg[t].key
          BY Zenon, <1>w, <3>1, <4>1, <5>1 DEF log_ok
        <5>2. CASE p.rec.key # arg[t].key
          <6>1. ~being_indexed(p.rec.key, p)
            BY Zenon, <1>w, <5>2 DEF being_indexed
          <6> QED
            BY Zenon, <3>1, <4>1, <5>2, <6>1 DEF Indexed
        <5> QED
          BY Zenon, <5>1, <5>2
      <4> QED
        BY Zenon, <4>2 DEF settled, before, same_place, hash_of, Abs, Wrap
    <3>4. Indexed'
      BY Zenon, <3>3 DEF Indexed
    <3> QED
      BY Zenon, <1>u, <3>2, <3>4
  <2>2. CASE SetIndexCurr(t)
    <3>1. /\ UNCHANGED <<tree, write_lock, arg, it, item>>
          /\ pc[t] = "index_curr" /\ pc'[t] = "index_tree"
      BY Zenon, <1>t, <2>2 DEF SetIndexCurr, goto
    <3>2. indexing(t) /\ indexing(t)'
      BY Zenon, <1>w, <3>1 DEF indexing
    <3>3. Indexed'
      BY Zenon, <1>2, <1>o, <3>1, <3>2, IndexedKept
    <3>4. ASSUME NEW p \in starts', p.rec.key = arg'[t].key
          PROVE  settled(p, item[t])'
      <4>1. settled(p, item[t])
        BY Zenon, <1>2, <1>w, <3>1, <3>4 DEF log_ok
      <4> QED
        BY Zenon, <3>1, <4>1 DEF settled, before, same_place, hash_of, Abs, Wrap
    <3>5. log_ok(t)'
      BY Zenon, <3>1, <3>4 DEF log_ok, ReadLabel
    <3> QED
      BY Zenon, <1>u, <3>3, <3>5
  <2>3. CASE ~SetIndexTree(t) /\ ~SetIndexCurr(t)
    <3>1. UNCHANGED tree /\ ~indexing(t)
      BY Zenon, <2>3 DEF SetStep, SetLookup, SetAppend, SetDouble, SetGrown, SetRaise, SetUnlock,
                         indexing
    <3>2. Indexed'
      BY Zenon, <1>2, <1>o, <3>1, IndexedKept
    <3>3. log_ok(t)'
      <4>1. CASE SetLookup(t)
        <5>1. /\ UNCHANGED <<write_lock, arg, it>> /\ pc[t] = "lookup"
              /\ pc'[t] \in {"append", "check_curr"}
          BY Zenon, <1>t, <1>w, <4>1 DEF SetLookup, ht_lookup, get_returns, goto
        <5> QED
          BY Zenon, <1>w, <5>1 DEF log_ok, hash_of
      <4>2. CASE SetAppend(t) \/ SetGrown(t)
        <5>1. pc'[t] \in {"flush", "index_curr"}
          BY Zenon, <1>t, <4>2 DEF SetAppend, SetGrown, append_record, goto
        <5> QED
          BY Zenon, <1>2, <4>2, <5>1 DEF log_ok, ReadLabel
      <4>3. CASE SetDouble(t)
        <5>1. pc'[t] = "grow"
          BY Zenon, <4>3 DEF SetDouble
        <5> QED
          BY Zenon, <5>1 DEF log_ok, ReadLabel
      <4>4. CASE SetUnlock(t)
        BY Zenon, <4>4, ConstantsAssumption DEF SetUnlock, log_ok
      <4>5. CASE SetRaise(t)
        <5>1. \A p \in starts : p.rec \in Block
          BY Zenon, StartsBelow
        <5> QED
          BY Zenon, <1>2, <1>t, <4>5, <5>1, LogRaise
      <4> QED
        BY Zenon, <2>3, <4>1, <4>2, <4>3, <4>4, <4>5 DEF SetStep
    <3> QED
      BY Zenon, <1>u, <3>2, <3>3
  <2> QED
    BY Zenon, <2>1, <2>2, <2>3
<1> QED
  BY Zenon, <1>1, <1>2, StartsSet

\* Every step keeps LogInv.
LEMMA LogNext ==
  ASSUME NoWrap, IInv, IInv', StoreInv, LogInv, [Next]_vars
  PROVE  LogInv'
<1> SUFFICES ASSUME curr' < MAX_BUCKET_COUNT
             PROVE  Indexed' /\ \A u \in Client : log_ok(u)'
  BY Zenon DEF LogInv
<1>c. curr < MAX_BUCKET_COUNT
  <2>1. TypeOK /\ curr \in Nat /\ MAX_BUCKET_COUNT \in Nat
    BY ZenonT(30), ConstantsAssumption DEF IInv, TypeOK
  <2>2. curr' \in Nat /\ curr <= curr'
    BY Zenon, <2>1, CurrGrows
  <2> QED
    BY SMTT(30), <2>1, <2>2
<1>1. /\ TypeOK /\ Locks /\ Buffers /\ Files /\ Reads /\ Reads' /\ HashesMatch
      /\ Indexed /\ \A u \in Client : set_ok(u) /\ log_ok(u)
  BY Zenon, <1>c DEF IInv, StoreInv, LogInv
<1>2. ASSUME starts' \subseteq starts, UNCHANGED tree, \A u \in Client : Stays(u)
      PROVE  Indexed' /\ \A u \in Client : log_ok(u)'
  BY Zenon, <1>1, <1>2, LogOther, IndexedKept
<1>3. ASSUME NEW t \in Client, GetStep(t) \/ Begin(t)
      PROVE  Indexed' /\ \A u \in Client : log_ok(u)'
  <2>1. UNCHANGED tree /\ Quiet /\ \A u \in Client \ {t} : Stays(u)
    BY Zenon, <1>1, <1>3, GetOthers
  <2>2. starts' \subseteq starts
    BY Zenon, <2>1, StartsQuiet
  <2>3. log_ok(t)' /\ ~indexing(t)
    BY Zenon, <1>1, <1>3, LogGet, LogBegin
  <2>4. \A u \in Client \ {t} :
          /\ log_ok(u)'
          /\ indexing(u) => indexing(u)' /\ arg'[u] = arg[u] /\ item'[u] = item[u]
    BY Zenon, <1>1, <2>1, <2>2, LogOther
  <2>5. Indexed'
    BY Zenon, <1>1, <2>1, <2>2, <2>3, <2>4, IndexedKept
  <2> QED
    BY Zenon, <2>3, <2>4, <2>5
<1>4. ASSUME NEW t \in Client, SetStep(t)
      PROVE  Indexed' /\ \A u \in Client : log_ok(u)'
  BY Zenon, <1>1, <1>4, LogSet
<1>5. ASSUME NEW f \in Client \cup {Flusher}, FlushStep(f)
      PROVE  Indexed' /\ \A u \in Client : log_ok(u)'
  BY Zenon, <1>1, <1>2, <1>5, FlushOthers, StartsFlush
<1>6. ASSUME UNCHANGED vars \/ \E h \in building : build_hint(h)
      PROVE  Indexed' /\ \A u \in Client : log_ok(u)'
  BY Zenon, <1>2, <1>6, QuietOthers, StartsQuiet
<1> QED
  BY Zenon, <1>3, <1>4, <1>5, <1>6, StepCases

\* At every moment the index names the last record of each key in the buffers
\* and files, or bc_set is about to make it so: but for versions raised in memory,
\* bc_scan would rebuild from the records what is in the index.
THEOREM IndexNamesLatest == ASSUME NoWrap PROVE Spec => []IndexIsLatest
<1>1. Init => LogInv
  BY Zenon, LogInit
<1>2. IInv /\ IInv' /\ StoreInv /\ LogInv /\ [Next]_vars => LogInv'
  BY Zenon, LogNext
<1>3. IInv /\ LogInv => IndexIsLatest
  <2> SUFFICES ASSUME IInv, LogInv, curr < MAX_BUCKET_COUNT, NEW k \in Key, NEW p \in log_of(k)
               PROVE  being_indexed(k, p) \/ settled(p, tree[k])
    BY Zenon DEF IndexIsLatest
  <2>1. p \in starts /\ p.rec.key = k
    BY Zenon, LogStarts DEF IInv
  <2> QED
    BY Zenon, <2>1 DEF LogInv, Indexed
<1> QED
  BY <1>1, <1>2, <1>3, StoreInvariant, PTL DEF Spec

=============================================================================
