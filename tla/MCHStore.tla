------------------------------ MODULE MCHStore ------------------------------
EXTENDS HStore, TLC

CONSTANTS ka, kb, at, m1, m2, plain

\* ka and kb share a lock; ka is counted, appended to, set and deleted.
MCMutex == ka :> m1 @@ kb :> m1 @@ at :> m2

command(op, k, body, f, n) == [op |-> op, key |-> k, body |-> body, flag |-> f, ver |-> n]

MCCommand ==
  { command("incr", ka, <<1>>, plain, 0), command("incr", ka, <<-1>>, plain, 0),
    command("append", ka, <<1>>, plain, 0), command("set", ka, <<2>>, INCR_FLAG, 0),
    command("set", ka, <<1, 2>>, INCR_FLAG, 3), command("delete", ka, <<>>, plain, -1),
    command("append", kb, <<1, 2>>, plain, 0), command("incr", at, <<1>>, plain, 0),
    command("delete", at, <<>>, plain, -1) }
=============================================================================
