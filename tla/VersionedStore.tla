--------------------------- MODULE VersionedStore ---------------------------
(***************************************************************************)
(* What one bitcask promises its clients: a map from keys to versioned     *)
(* values.  A set is accepted or refused by its version alone, an accepted *)
(* one takes effect atomically, and a get answers with the value some      *)
(* instant of the call had.                                                *)
(***************************************************************************)
EXTENDS Versions

CONSTANTS Key, Value, Empty, Client, VersionArg

VARIABLES store,   \* what each key holds
          got      \* what each client's outstanding get has seen

vsvars == <<store, got>>

Nothing == [ver |-> 0, val |-> Empty]
Entry == [ver : Int, val : Value]

VSTypeOK ==
  /\ store \in [Key -> Entry]
  /\ got \in [Client -> Entry]

VSInit ==
  /\ store = [k \in Key |-> Nothing]
  /\ got = [c \in Client |-> Nothing]

\* A write of what is there already, without an explicit version, is a no-op.
SameContent(k, v, n) ==
  /\ n = 0
  /\ store[k].ver > 0
  /\ NewVersion(n, store[k].ver) > 0
  /\ store[k].val = v

Set(k, v, n) ==
  /\ NewVersion(n, store[k].ver) # 0
  /\ n < 0 => v = Empty
  /\ ~SameContent(k, v, n)
  /\ store' = [store EXCEPT ![k] = [ver |-> NewVersion(n, store[k].ver), val |-> v]]
  /\ UNCHANGED got

Get(c, k) ==
  /\ got[c] = Nothing
  /\ got' = [got EXCEPT ![c] = store[k]]
  /\ UNCHANGED store

Answer(c) ==
  /\ got[c] # Nothing
  /\ got' = [got EXCEPT ![c] = Nothing]
  /\ UNCHANGED store

VSNext ==
  \/ \E k \in Key, v \in Value, n \in VersionArg : Set(k, v, n)
  \/ \E c \in Client, k \in Key : Get(c, k)
  \/ \E c \in Client : Answer(c)

VSSpec == VSInit /\ [][VSNext]_vsvars
=============================================================================
