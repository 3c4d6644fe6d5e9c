------------------------------- MODULE HStore -------------------------------
(***************************************************************************)
(* The commands of hstore.c that change a record, called by many threads.  *)
(* hs_set and hs_delete go straight to bc_set; hs_append and hs_incr are   *)
(* an hs_get and an hs_set under one of NUM_OF_MUTEX locks, chosen by the  *)
(* hash of the key, which nobody else takes.                               *)
(*                                                                         *)
(* bc_get and bc_set are single steps here, as BitcaskRefinement shows     *)
(* them to be.  A value is a sequence: of the pieces appended, or one      *)
(* number for a counter.                                                   *)
(***************************************************************************)
EXTENDS Versions, Sequences

CONSTANTS Key, Listing,          \* Listing: the keys that start with @
          Mutex, get_mutex,      \* the lock of each key
          Thread, Command,
          Flag, APPEND_FLAG, INCR_FLAG,
          LongMax,               \* of int64_t
          MAX_VALUE_LEN,
          MaxVersion,            \* bound: no command starts on a key beyond it
          None

Body == Seq(Int)
Record == [ver : Int, flag : Flag, body : Body]
Op == {"set", "delete", "append", "incr"}

ASSUME HStoreAssumption ==
  /\ Listing \subseteq Key /\ get_mutex \in [Key -> Mutex]
  /\ {APPEND_FLAG, INCR_FLAG} \subseteq Flag /\ LongMax \in Nat /\ None \notin Thread
  /\ Command \subseteq [op : Op, key : Key, body : Body, flag : Flag, ver : Int]
  /\ \A c \in Command : c.op = "incr" => Len(c.body) = 1

VARIABLES
  records,                       \* what each key holds; ver = 0: nothing
  locks,                         \* the thread that has each mutex
  pc, cmd,
  got,                           \* what hs_get found
  reply,                         \* what the command returned: a number, or 0 and 1 for a bool
  overtaken                      \* history: a set or delete came between hs_get and hs_set

vars == <<records, locks, pc, cmd, got, reply, overtaken>>

Nothing == [ver |-> 0, flag |-> APPEND_FLAG, body |-> <<>>]
live(r) == r.ver > 0
mutex(t) == get_mutex[cmd[t].key]
goto(t, label) == pc' = [pc EXCEPT ![t] = label]

Init ==
  /\ records = [k \in Key |-> Nothing]
  /\ locks = [m \in Mutex |-> None]
  /\ pc = [t \in Thread |-> "idle"]
  /\ cmd = [t \in Thread |-> None]
  /\ got = [t \in Thread |-> Nothing]
  /\ reply = [t \in Thread |-> 0]
  /\ overtaken = [t \in Thread |-> FALSE]

-----------------------------------------------------------------------------
\* The sum of two int64_t in the builds there are, and the "if (result < 0)" after it.
wrap64(x) == IF x > LongMax THEN x - 2 * (LongMax + 1)
             ELSE IF x < -LongMax - 1 THEN x + 2 * (LongMax + 1) ELSE x
clip(x) == IF x < 0 THEN 0 ELSE x

\* strtoll: what is not a number counts as 0.  A body of more than one number
\* stands for one that is longer than 22 characters.
strtoll(body) == IF Len(body) = 1 THEN body[1] ELSE 0

\* The value that a command sets, when hs_get has found r.
value(c, r) ==
  LET body == IF live(r) THEN r.body ELSE <<>>
  IN CASE c.op = "append" -> body \o c.body
       [] c.op = "incr"   -> <<clip(wrap64(strtoll(body) + c.body[1]))>>
       [] OTHER           -> c.body

flag(c) == CASE c.op = "append" -> APPEND_FLAG
             [] c.op = "incr"   -> INCR_FLAG
             [] OTHER           -> c.flag

\* A live record of another kind, or too long for a number, is left alone.
mismatch(c, r) == live(r) /\ (r.flag # flag(c) \/ (c.op = "incr" /\ Len(r.body) > 1))

\* bc_set: does it store the value, and what does the key hold then?
accepts(r, body, n) == Len(body) <= MAX_VALUE_LEN /\ (n < 0 => body = <<>>) /\ NewVersion(n, r.ver) # 0

bc_set(r, body, f, n) ==
  IF ~accepts(r, body, n) \/ (n = 0 /\ live(r) /\ r.body = body /\ r.flag = f) THEN r
  ELSE [ver |-> NewVersion(n, r.ver), flag |-> f, body |-> body]

\* What a command returns when bc_set was called with that value.
returns(c, r, body) ==
  IF ~accepts(r, body, c.ver) THEN 0 ELSE IF c.op = "incr" THEN body[1] ELSE 1

-----------------------------------------------------------------------------
locking(op) == op \in {"append", "incr"}

\* hs_set, hs_delete, hs_append or hs_incr is called.  All but hs_delete refuse
\* a listing; hs_delete finds no such key.
Call(t, c) ==
  /\ pc[t] = "idle"
  /\ records[c.key].ver \in -MaxVersion .. MaxVersion
  /\ cmd' = [cmd EXCEPT ![t] = c]
  /\ goto(t, CASE c.key \in Listing /\ c.op # "delete" -> "return"
               [] locking(c.op)                          -> "lock"
               [] OTHER                                  -> "set")
  /\ UNCHANGED <<records, locks, got, reply, overtaken>>

\* Mutant: append and incr do not wait for each other.
LockShared(t) ==
  /\ pc[t] = "lock"
  /\ locks' = [locks EXCEPT ![mutex(t)] = t]
  /\ goto(t, "get")
  /\ UNCHANGED <<records, cmd, got, reply, overtaken>>

Lock(t) ==
  /\ pc[t] = "lock" /\ locks[mutex(t)] = None
  /\ locks' = [locks EXCEPT ![mutex(t)] = t]
  /\ goto(t, "get")
  /\ UNCHANGED <<records, cmd, got, reply, overtaken>>

\* Mutant: the refusal leaves without giving the lock back.
GetKeepsLock(t) ==
  /\ pc[t] = "get"
  /\ got' = [got EXCEPT ![t] = records[cmd[t].key]]
  /\ goto(t, IF mismatch(cmd[t], got'[t]) THEN "return" ELSE "set")
  /\ UNCHANGED <<records, locks, cmd, reply, overtaken>>

\* hs_get of hs_append and hs_incr, and their test of what it found.  hs_incr
\* also gives up on a 0 when errno is EINVAL, which it has not cleared before.
Get(t) ==
  /\ pc[t] = "get"
  /\ got' = [got EXCEPT ![t] = records[cmd[t].key]]
  /\ \/ goto(t, IF mismatch(cmd[t], got'[t]) THEN "unlock" ELSE "set")
     \/ /\ cmd[t].op = "incr" /\ live(got'[t]) /\ strtoll(got'[t].body) = 0
        /\ goto(t, "unlock")
  /\ UNCHANGED <<records, locks, cmd, reply, overtaken>>

\* A thread between its hs_get and its hs_set.
updating(t) == pc[t] = "set" /\ locking(cmd[t].op)

\* Mutant: the flag of the command is stored, not that of its kind.
SetCommandFlag(t) ==
  /\ pc[t] = "set"
  /\ LET c == cmd[t]
         r == records[c.key]
         body == value(c, got[t])
     IN /\ records' = [records EXCEPT ![c.key] = bc_set(r, body, c.flag, c.ver)]
        /\ reply' = [reply EXCEPT ![t] = returns(c, r, body)]
        /\ overtaken' = [u \in Thread |-> \/ overtaken[u]
                                          \/ ~locking(c.op) /\ updating(u) /\ cmd[u].key = c.key]
        /\ goto(t, IF locking(c.op) THEN "unlock" ELSE "return")
  /\ UNCHANGED <<locks, cmd, got>>

\* hs_set: of hs_append and hs_incr with what they made of the value they got.
Set(t) ==
  /\ pc[t] = "set"
  /\ LET c == cmd[t]
         r == records[c.key]
         body == value(c, got[t])
     IN /\ records' = [records EXCEPT ![c.key] = bc_set(r, body, flag(c), c.ver)]
        /\ reply' = [reply EXCEPT ![t] = returns(c, r, body)]
        /\ overtaken' = [u \in Thread |-> \/ overtaken[u]
                                          \/ ~locking(c.op) /\ updating(u) /\ cmd[u].key = c.key]
        /\ goto(t, IF locking(c.op) THEN "unlock" ELSE "return")
  /\ UNCHANGED <<locks, cmd, got>>

Unlock(t) ==
  /\ pc[t] = "unlock"
  /\ locks' = [locks EXCEPT ![mutex(t)] = None]
  /\ goto(t, "return")
  /\ UNCHANGED <<records, cmd, got, reply, overtaken>>

\* The command returns, and its locals are gone.
Return(t) ==
  /\ pc[t] = "return" /\ goto(t, "idle")
  /\ cmd' = [cmd EXCEPT ![t] = None] /\ got' = [got EXCEPT ![t] = Nothing]
  /\ reply' = [reply EXCEPT ![t] = 0] /\ overtaken' = [overtaken EXCEPT ![t] = FALSE]
  /\ UNCHANGED <<records, locks>>

step(t) == Lock(t) \/ Get(t) \/ Set(t) \/ Unlock(t) \/ Return(t)

Next == \E t \in Thread : step(t) \/ \E c \in Command : Call(t, c)

Spec == Init /\ [][Next]_vars

\* A thread in a command goes on, and a mutex is not kept from it for ever.
Fairness == \A t \in Thread : WF_vars(step(t)) /\ SF_vars(Lock(t))

FairSpec == Spec /\ Fairness

-----------------------------------------------------------------------------
Label == {"idle", "lock", "get", "set", "unlock", "return"}

TypeOK ==
  /\ records \in [Key -> Record] /\ locks \in [Mutex -> Thread \cup {None}]
  /\ pc \in [Thread -> Label] /\ cmd \in [Thread -> Command \cup {None}]
  /\ got \in [Thread -> Record] /\ reply \in [Thread -> Int]
  /\ overtaken \in [Thread -> BOOLEAN]

\* The value hs_append or hs_incr works on is still the key's, however many
\* others append and count: only a plain set or a delete can have replaced it.
Fresh == \A t \in Thread : updating(t) => overtaken[t] \/ got[t] = records[cmd[t].key]

(***************************************************************************)
(* The inductive invariant.  A thread that appends or counts has the lock  *)
(* of its key from its hs_get to its hs_set, so there is one such thread   *)
(* for a key, and every other writer of the key is a set or a delete.      *)
(***************************************************************************)
holding(t) == pc[t] \in {"get", "unlock"} \/ updating(t)

Locks ==
  \A t \in Thread :
    /\ pc[t] # "idle" => cmd[t] \in Command
    /\ pc[t] \in {"lock", "get", "unlock"} => locking(cmd[t].op)
    /\ holding(t) => locks[mutex(t)] = t

\* Only a record of the command's kind, or none, is worked on.
Matching == \A t \in Thread : updating(t) => ~mismatch(cmd[t], got[t])

\* The inductive invariant of the proofs: hs_append and hs_incr hold the lock of
\* their key from hs_get to hs_set, and what they read is still what is stored,
\* unless a plain set or delete came in between.
IInv == TypeOK /\ Locks /\ Matching /\ Fresh

\* What a command does to a record when nobody else is about.
alone(c, r) ==
  IF locking(c.op) /\ mismatch(c, r) THEN r
  ELSE bc_set(r, value(c, r), flag(c), c.ver)

\* The hs_set of a command does just that, and hs_incr returns the number it leaves.
Exact(t) ==
  pc[t] = "set" /\ pc'[t] # "set" =>
    LET k == cmd[t].key
    IN /\ records' = [records EXCEPT ![k] = alone(cmd[t], records[k])]
       /\ cmd[t].op = "incr" => reply'[t] = 0 \/ records'[k].body = <<reply'[t]>>

AtomicStep == \A t \in Thread : ~overtaken[t] => Exact(t)

\* Appends and increments of a key are atomic: each is applied to the record as
\* it is at that instant, so none is lost or applied twice, and hs_incr returns
\* the number it leaves.  A plain set or delete may come between the two halves.
Atomic == [][AtomicStep]_vars

\* store_item of beansdb.c says of all its commands "In threaded mode, this is
\* protected by the cache lock": each does what it does alone.
Protected == [][\A t \in Thread : Exact(t)]_vars

\* Every command returns: whatever path it takes, the lock of its key is given back.
CallsReturn == \A t \in Thread : pc[t] # "idle" ~> pc[t] = "idle"
=============================================================================
