----------------------------- MODULE MCOptimize -----------------------------
(* Instances of Optimize for TLC. *)
EXTENDS Optimize

CONSTANTS ka, kb, kc

rec(k, ver, val) == [k |-> k, ver |-> ver, val |-> val]

\* Data files of two records each: with a key that was deleted; with values that were
\* replaced, in another file and in the same, and a number that is not in use; with
\* more records left than one file can take.
MCStored == {
  << <<rec(kb, 1, 1), rec(ka, 1, 2)>>, <<rec(kb, -2, 3), rec(ka, 2, 4)>> >>,
  << <<rec(kb, 1, 1), rec(ka, 1, 2)>>, <<>>, <<rec(ka, 2, 3), rec(ka, 3, 4)>> >>,
  << <<rec(ka, 1, 1), rec(kc, 1, 2)>>, <<rec(ka, 2, 3), rec(kb, 1, 4)>> >> }

\* Those with two keys only, for the runs with more circumstances.
MCStoredTwo == {stored \in MCStored : \A f \in 1 .. Len(stored), p \in 1 .. 2 :
                                         stored[f] # <<>> => stored[f][p].k # kc}
=============================================================================
