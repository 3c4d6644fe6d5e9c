------------------------------- MODULE MCConn -------------------------------
(* Instances of Conn for TLC. *)
EXTENDS Conn

req(cmd) == [cmd |-> cmd, hits |-> 0, bad |-> FALSE, len |-> 0, chunk |-> TRUE, noreply |-> FALSE]
get(hits) == [req("get") EXCEPT !.hits = hits]
set(len) == [req("update") EXCEPT !.len = len]

\* Requests as a client library sends them, and mistakes the server recovers from.
Usual == {get(2), set(3), [set(3) EXCEPT !.noreply = TRUE],
          [req("line") EXCEPT !.noreply = TRUE], req("unknown"), req("quit")}
Mistakes == {[set(2) EXCEPT !.chunk = FALSE], [req("get") EXCEPT !.bad = TRUE],
             [req("line") EXCEPT !.bad = TRUE]}
MCRequests == Usual \cup Mistakes

\* A get with a key that is too long after one that exists.
LongKey == {[get(1) EXCEPT !.bad = TRUE]}
\* A set with a key that is too long.
BadSet == {[set(2) EXCEPT !.bad = TRUE]}
=============================================================================
