---------------------------- MODULE HStoreProofs ----------------------------
(***************************************************************************)
(* Proofs about HStore, for any number of keys, locks and threads.         *)
(***************************************************************************)
EXTENDS HStore, TLAPS

USE HStoreAssumption, IntMaxAssumption

LEMMA VersionType == \A n, v \in Int : NewVersion(n, v) \in Int
  BY DEF NewVersion, Refused, Wrap, Abs

LEMMA RecordType ==
  ASSUME NEW r \in Record, NEW body \in Body, NEW f \in Flag, NEW n \in Int
  PROVE  bc_set(r, body, f, n) \in Record
  BY VersionType DEF bc_set, Record

LEMMA ValueType ==
  ASSUME NEW c \in Command, NEW r \in Record
  PROVE  /\ value(c, r) \in Body /\ flag(c) \in Flag
         /\ c.op = "incr" => Len(value(c, r)) = 1 /\ value(c, r)[1] \in Int
  <1>1. c.body \in Body /\ r.body \in Body /\ c.flag \in Flag
    BY DEF Record
  <1>2. flag(c) \in Flag
    BY <1>1 DEF flag
  <1>3. CASE c.op = "append"
    BY <1>1, <1>2, <1>3 DEF value, Body
  <1>4. CASE c.op = "incr"
    <2>1. c.body[1] \in Int
      BY <1>1, <1>4 DEF Body
    <2>2. \A b \in Body : strtoll(b) \in Int
      BY DEF strtoll, Body
    <2>3. \A x \in Int : clip(wrap64(x)) \in Int
      BY DEF clip, wrap64
    <2> DEFINE b == IF live(r) THEN r.body ELSE <<>>
    <2>4. b \in Body /\ value(c, r) = <<clip(wrap64(strtoll(b) + c.body[1]))>>
      BY <1>1, <1>4 DEF value, Body
    <2> HIDE DEF b
    <2>5. strtoll(b) + c.body[1] \in Int
      BY <2>1, <2>2, <2>4
    <2>6. PICK n \in Int : value(c, r) = <<n>>
      BY <2>3, <2>4, <2>5
    <2> QED
      BY <1>2, <2>6 DEF Body
  <1>5. CASE c.op \notin {"append", "incr"}
    BY Zenon, <1>1, <1>2, <1>5 DEF value
  <1> QED
    BY <1>3, <1>4, <1>5

-----------------------------------------------------------------------------
LEMMA InitInv == Init => IInv
  <1> SUFFICES ASSUME Init PROVE IInv
    OBVIOUS
  <1>1. Nothing \in Record
    BY DEF Nothing, Record, Body
  <1>2. TypeOK
    BY <1>1 DEF Init, TypeOK, Label
  <1> QED
    BY <1>2 DEF Init, IInv, Locks, Matching, Fresh, holding, updating

\* Two threads that work on one key under its lock are the same.
LEMMA OneUpdater ==
  ASSUME Locks, NEW t \in Thread, NEW u \in Thread,
         holding(t), holding(u), cmd[t].key = cmd[u].key
  PROVE  t = u
  BY DEF Locks, mutex

\* The type invariant is inductive together with Locks.
LEMMA TypeStep == TypeOK /\ Locks /\ [Next]_vars => TypeOK'
  <1> SUFFICES ASSUME TypeOK, Locks, [Next]_vars PROVE TypeOK'
    OBVIOUS
  <1>1. CASE UNCHANGED vars
    BY <1>1 DEF vars, TypeOK
  <1>2. ASSUME NEW t \in Thread, NEW c \in Command, Call(t, c) PROVE TypeOK'
    BY <1>2 DEF Call, TypeOK, goto, Label
  <1>3. ASSUME NEW t \in Thread, Lock(t) PROVE TypeOK'
    BY Zenon, <1>3 DEF Lock, TypeOK, goto, Label
  <1>4. ASSUME NEW t \in Thread, Get(t) PROVE TypeOK'
    <2>1. cmd[t] \in Command
      BY <1>4 DEF Get, Locks
    <2> QED
      BY <1>4, <2>1 DEF Get, TypeOK, goto, Label
  <1>5. ASSUME NEW t \in Thread, Set(t) PROVE TypeOK'
    <2> DEFINE c == cmd[t]
               r == records[c.key]
               body == value(c, got[t])
    <2>1. c \in Command /\ c.key \in Key /\ c.ver \in Int
      BY <1>5 DEF Set, Locks
    <2>2. r \in Record /\ got[t] \in Record
      BY <2>1 DEF TypeOK
    <2>3. body \in Body /\ flag(c) \in Flag
      BY <2>1, <2>2, ValueType
    <2>4. bc_set(r, body, flag(c), c.ver) \in Record
      BY <2>1, <2>2, <2>3, RecordType
    <2>5. returns(c, r, body) \in Int
      BY <2>1, <2>2, ValueType DEF returns
    <2>6. /\ records' = [records EXCEPT ![c.key] = bc_set(r, body, flag(c), c.ver)]
          /\ reply' = [reply EXCEPT ![t] = returns(c, r, body)]
          /\ pc' = [pc EXCEPT ![t] = IF locking(c.op) THEN "unlock" ELSE "return"]
          /\ UNCHANGED <<locks, cmd, got>>
      BY <1>5 DEF Set, goto
    <2>7. overtaken' \in [Thread -> BOOLEAN]
      BY <1>5 DEF Set, TypeOK, updating, locking
    <2> HIDE DEF c, r, body
    <2> QED
      BY Zenon, <2>1, <2>4, <2>5, <2>6, <2>7 DEF TypeOK, Label
  <1>6. ASSUME NEW t \in Thread, Unlock(t) PROVE TypeOK'
    BY Zenon, <1>6 DEF Unlock, TypeOK, goto, Label
  <1>7. ASSUME NEW t \in Thread, Return(t) PROVE TypeOK'
    <2>1. Nothing \in Record
      BY DEF Nothing, Record, Body
    <2> QED
      BY <1>7, <2>1 DEF Return, TypeOK, goto, Label
  <1> QED
    BY <1>1, <1>2, <1>3, <1>4, <1>5, <1>6, <1>7 DEF Next, step

\* No thread takes a lock that another holds, or gives back one that it does not hold.
LEMMA LocksStep == TypeOK /\ Locks /\ [Next]_vars => Locks'
  <1> SUFFICES ASSUME TypeOK, Locks, [Next]_vars PROVE Locks'
    OBVIOUS
  <1> USE DEF Locks, TypeOK, holding, updating, mutex, goto, locking
  <1>1. CASE UNCHANGED vars
    BY <1>1 DEF vars
  <1>2. ASSUME NEW t \in Thread, NEW c \in Command, Call(t, c) PROVE Locks'
    BY <1>2 DEF Call
  <1>3. ASSUME NEW t \in Thread, Lock(t) PROVE Locks'
    <2>1. \A u \in Thread : holding(u) => locks[mutex(u)] # None
      OBVIOUS
    <2>2. mutex(t) \in Mutex
      BY <1>3 DEF Lock
    <2> QED
      BY <1>3, <2>1, <2>2 DEF Lock
  <1>4. ASSUME NEW t \in Thread, Get(t) PROVE Locks'
    BY <1>4 DEF Get
  <1>5. ASSUME NEW t \in Thread, Set(t) PROVE Locks'
    BY <1>5 DEF Set
  <1>6. ASSUME NEW t \in Thread, Unlock(t) PROVE Locks'
    <2>1. locks[mutex(t)] = t
      BY <1>6 DEF Unlock
    <2>2. \A u \in Thread : holding(u) /\ u # t => mutex(u) # mutex(t)
      BY <2>1
    <2> QED
      BY <1>6, <2>2 DEF Unlock
  <1>7. ASSUME NEW t \in Thread, Return(t) PROVE Locks'
    BY <1>7 DEF Return
  <1> QED
    BY <1>1, <1>2, <1>3, <1>4, <1>5, <1>6, <1>7 DEF Next, step

LEMMA MatchingStep == TypeOK /\ Locks /\ Matching /\ [Next]_vars => Matching'
  <1> SUFFICES ASSUME TypeOK, Locks, Matching, [Next]_vars PROVE Matching'
    OBVIOUS
  <1> USE DEF Matching, TypeOK, updating, goto, locking
  <1>1. CASE UNCHANGED vars
    BY <1>1 DEF vars
  <1>2. ASSUME NEW t \in Thread, NEW c \in Command, Call(t, c) PROVE Matching'
    BY <1>2 DEF Call
  <1>3. ASSUME NEW t \in Thread, Lock(t) PROVE Matching'
    BY <1>3 DEF Lock
  <1>4. ASSUME NEW t \in Thread, Get(t) PROVE Matching'
    BY <1>4 DEF Get
  <1>5. ASSUME NEW t \in Thread, Set(t) PROVE Matching'
    BY <1>5 DEF Set
  <1>6. ASSUME NEW t \in Thread, Unlock(t) PROVE Matching'
    BY <1>6 DEF Unlock
  <1>7. ASSUME NEW t \in Thread, Return(t) PROVE Matching'
    BY <1>7 DEF Return
  <1> QED
    BY <1>1, <1>2, <1>3, <1>4, <1>5, <1>6, <1>7 DEF Next, step

\* The step that could spoil a value somebody works on is Set: of a command that
\* does not lock, which is noted, or of one that does, which holds the same lock.
LEMMA FreshStep == IInv /\ [Next]_vars => Fresh'
  <1> SUFFICES ASSUME IInv, [Next]_vars PROVE Fresh'
    OBVIOUS
  <1> USE DEF IInv, Fresh, TypeOK, updating, goto, locking
  <1>1. CASE UNCHANGED vars
    BY <1>1 DEF vars
  <1>2. ASSUME NEW t \in Thread, NEW c \in Command, Call(t, c) PROVE Fresh'
    BY <1>2 DEF Call
  <1>3. ASSUME NEW t \in Thread, Lock(t) PROVE Fresh'
    BY <1>3 DEF Lock
  <1>4. ASSUME NEW t \in Thread, Get(t) PROVE Fresh'
    BY <1>4 DEF Get
  <1>5. ASSUME NEW t \in Thread, Set(t) PROVE Fresh'
    <2> SUFFICES ASSUME NEW u \in Thread, updating(u)', ~overtaken'[u]
                 PROVE  got'[u] = records'[cmd'[u].key]
      OBVIOUS
    <2>1. u # t /\ updating(u) /\ ~overtaken[u]
      BY <1>5 DEF Set
    <2>2. got[u] = records[cmd[u].key]
      BY <2>1
    <2>3. cmd[t].key # cmd[u].key
      <3>1. CASE locking(cmd[t].op)
        BY <1>5, <2>1, <3>1, OneUpdater DEF Set, holding
      <3>2. CASE ~locking(cmd[t].op)
        BY <1>5, <2>1, <3>2 DEF Set
      <3> QED
        BY <3>1, <3>2
    <2>4. cmd[u] \in Command /\ cmd[u].key \in Key
      BY <2>1 DEF Locks
    <2> QED
      BY <1>5, <2>2, <2>3, <2>4 DEF Set
  <1>6. ASSUME NEW t \in Thread, Unlock(t) PROVE Fresh'
    BY <1>6 DEF Unlock
  <1>7. ASSUME NEW t \in Thread, Return(t) PROVE Fresh'
    BY <1>7 DEF Return
  <1> QED
    BY <1>1, <1>2, <1>3, <1>4, <1>5, <1>6, <1>7 DEF Next, step

\* The invariant of the commands: each append and each increment works, under
\* the lock of its key, on what the key holds, or was overtaken by a plain set.
THEOREM Invariant == Spec => []IInv
  <1>1. IInv /\ [Next]_vars => IInv'
    BY TypeStep, LocksStep, MatchingStep, FreshStep DEF IInv
  <1> QED
    BY InitInv, <1>1, PTL DEF Spec

\* Whatever the other threads do, the value that hs_append or hs_incr read stays
\* the key's until it is replaced, unless a set or a delete comes in between.
THEOREM AlwaysFresh == Spec => []Fresh
  <1>1. IInv => Fresh
    BY DEF IInv
  <1> QED
    BY Invariant, <1>1, PTL

\* A Set that was not overtaken does what the command does alone.
LEMMA SetAlone ==
  ASSUME IInv, NEW t \in Thread, Set(t), ~overtaken[t], NEW k, k = cmd[t].key
  PROVE  /\ records' = [records EXCEPT ![k] = alone(cmd[t], records[k])]
         /\ cmd[t].op = "incr" => reply'[t] = 0 \/ records'[k].body = <<reply'[t]>>
  <1> DEFINE c == cmd[t]
             r == records[k]
             body == value(c, got[t])
             new == bc_set(r, body, flag(c), c.ver)
  <1>1. /\ c \in Command /\ k \in Key /\ r \in Record /\ got[t] \in Record
        /\ pc[t] = "set" /\ records \in [Key -> Record] /\ reply \in [Thread -> Int]
    BY DEF IInv, TypeOK, Locks, Set
  <1>2. records' = [records EXCEPT ![k] = new] /\ reply' = [reply EXCEPT ![t] = returns(c, r, body)]
    BY DEF Set
  <1>3. alone(c, r) = new
    <2>1. CASE locking(c.op)
      <3>1. got[t] = r
        BY <1>1, <2>1 DEF IInv, Fresh, updating
      <3>2. ~mismatch(c, r)
        BY <1>1, <2>1, <3>1 DEF IInv, Matching, updating
      <3> QED
        BY <3>1, <3>2 DEF alone
    <2>2. CASE ~locking(c.op)
      <3>1. value(c, r) = body
        BY <2>2 DEF value, locking
      <3> QED
        BY <2>2, <3>1 DEF alone
    <2> QED
      BY <2>1, <2>2
  <1>4. ASSUME c.op = "incr", accepts(r, body, c.ver)
        PROVE  new.body = <<body[1]>> /\ returns(c, r, body) = body[1]
    <2>1. new.body = body
      BY <1>4 DEF bc_set
    <2>2. body \in Seq(Int) /\ Len(body) = 1
      BY <1>1, <1>4, ValueType DEF Body
    <2>3. body = <<body[1]>>
      BY <2>2
    <2> QED
      BY <1>4, <2>1, <2>3 DEF returns
  <1>5. ~accepts(r, body, c.ver) => returns(c, r, body) = 0
    BY DEF returns
  <1>6. records'[k] = new /\ reply'[t] = returns(c, r, body)
    BY <1>1, <1>2
  <1> HIDE DEF c, r, body, new
  <1> QED
    BY <1>2, <1>3, <1>4, <1>5, <1>6 DEF c, r

\* Appends and increments are atomic for any number of threads and keys, however
\* keys share locks: no increment is lost, and each returns the number it left.
THEOREM AppendAndIncrAtomic == Spec => Atomic
  <1>1. IInv /\ [Next]_vars => [AtomicStep]_vars
    <2> SUFFICES ASSUME IInv, Next, NEW t \in Thread, ~overtaken[t],
                        pc[t] = "set", pc'[t] # "set"
                 PROVE  Exact(t)
      BY Zenon DEF AtomicStep, Exact
    <2>1. ASSUME NEW u \in Thread, step(u) \/ \E c \in Command : Call(u, c), u # t
          PROVE  pc'[t] = pc[t]
      BY <2>1 DEF IInv, TypeOK, step, Lock, Get, Set, Unlock, Return, Call, goto
    <2>2. step(t) \/ \E c \in Command : Call(t, c)
      BY <2>1 DEF Next
    <2>3. Set(t)
      BY <2>2 DEF step, Lock, Get, Unlock, Return, Call
    <2> QED
      BY SMTT(30), <2>3, SetAlone DEF Exact
  <1> QED
    BY Invariant, <1>1, PTL DEF Spec, Atomic
=============================================================================
