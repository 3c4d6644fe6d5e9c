----------------------------- MODULE ConnProofs -----------------------------
(***************************************************************************)
(* Conn: no item buffer is lost, no wake-up is missed and every request    *)
(* gets its own answer in its turn, for any requests, however many, and    *)
(* for any sizes of the read buffer.                                       *)
(***************************************************************************)
EXTENDS Conn, WellFoundedInduction, TLAPS

-----------------------------------------------------------------------------
\* A function on an initial segment of the natural numbers is a sequence.
LEMMA FunctionSeq ==
  ASSUME NEW S, NEW n \in Nat, NEW f \in [1 .. n -> S]
  PROVE  f \in Seq(S)
OBVIOUS

\* A part of a sequence has its elements, and is not longer.
LEMMA Part ==
  ASSUME NEW S, NEW s \in Seq(S), NEW m \in Nat \ {0}, NEW n \in 0 .. Len(s)
  PROVE  SubSeq(s, m, n) \in Seq(S) /\ Len(SubSeq(s, m, n)) <= Len(s)
<1>1. Len(s) \in Nat /\ \A j \in m .. n : s[j] \in S
  OBVIOUS
<1>2. /\ SubSeq(s, m, n) \in Seq(S)
      /\ Len(SubSeq(s, m, n)) = IF m <= n THEN n - m + 1 ELSE 0
  BY <1>1
<1> QED
  BY <1>1, <1>2

\* conn_set_state, with what conn_shrink does to the size of the read buffer.
LEMMA SetState ==
  ASSUME TypeOK, Counted, NEW s, conn_set_state(s)
  PROVE  state' = s /\ rsize' \in Nat /\ Len(rbuf) <= rsize'
<1>1. Len(rbuf) \in Nat /\ rsize \in Nat /\ Len(rbuf) <= rsize /\ DATA_BUFFER_SIZE \in Nat
  BY ConnAssumption DEF TypeOK, Counted
<1> QED
  BY <1>1 DEF conn_set_state

\* out_string goes on with the next command or sends a line.
LEMMA OutString ==
  ASSUME TypeOK, Counted, NEW q \in 0 .. Len(asked), NEW what \in {"line", "ERROR"},
         NEW quiet \in BOOLEAN, out_string(q, what, quiet)
  PROVE  /\ \/ state' = "conn_read" /\ wbuf' = wbuf
            \/ state' = "conn_write" /\ wbuf' \in Reply
         /\ write_and_go' \in {"conn_read", "conn_closing"} /\ noreply' \in BOOLEAN
         /\ rsize' \in Nat /\ Len(rbuf) <= rsize'
<1>1. reply(q, what) \in Reply
  BY DEF reply, Reply
<1>2. CASE quiet
  BY Zenon, <1>2, SetState DEF out_string, TypeOK
<1>3. CASE ~quiet
  BY Zenon, <1>1, <1>3, SetState DEF out_string, TypeOK
<1> QED
  BY <1>2, <1>3

-----------------------------------------------------------------------------
\* What a command leaves behind: an item is held in conn_nread only, a list of
\* items in conn_mwrite only, and the items in use are those that are held.
Processed ==
  /\ state' \in State /\ state' # "closed"
  /\ item' \in (1 .. Len(asked)) \cup {NULL} /\ rlbytes' \in Nat /\ items' \in Nat /\ ileft' \in Nat
  /\ write_and_go' \in {"conn_read", "conn_closing"} /\ noreply' \in BOOLEAN /\ oom' \in BOOLEAN
  /\ wbuf' \in Reply \cup {NULL} /\ iov' \in Seq(Reply) /\ iovused' \in BOOLEAN
  /\ rsize' \in Nat /\ Len(rbuf) <= rsize'
  /\ state' = "conn_nread" <=> item' # NULL
  /\ ileft' # 0 => state' = "conn_mwrite"
  /\ state' = "conn_write" => wbuf' \in Reply
  /\ items' >= held' /\ (NoHitBeforeLongKey => items' = held')

\* Between commands nothing is held.
LEMMA Between ==
  ASSUME IInv, state = "conn_read"
  PROVE  /\ TypeOK /\ Counted /\ item = NULL /\ ileft = 0 /\ held = 0
         /\ items \in Nat /\ (NoHitBeforeLongKey => items = 0)
<1>1. item = NULL /\ ileft = 0
  BY Zenon DEF IInv, Holding
<1>2. TypeOK /\ Counted
  BY DEF IInv
<1>3. held = 0
  BY <1>1 DEF held
<1> QED
  BY Zenon, <1>1, <1>2, <1>3 DEF TypeOK, Counted

\* What a request is.
LEMMA Asked ==
  ASSUME TypeOK, NEW q \in 1 .. Len(asked)
  PROVE  /\ asked[q] \in Request /\ asked[q].hits \in Nat /\ asked[q].len \in Nat
         /\ asked[q].bad \in BOOLEAN /\ asked[q].noreply \in BOOLEAN
<1>1. asked[q] \in Request
  BY DEF TypeOK
<1> QED
  BY <1>1, ConnAssumption DEF Requests

\* The values of a response, and the response with its end.
LEMMA Values ==
  ASSUME NEW q \in 1 .. Len(asked), NEW found \in Nat
  PROVE  /\ [j \in 1 .. found |-> reply(q, "value")] \in Seq(Reply)
         /\ Append([j \in 1 .. found |-> reply(q, "value")], reply(q, "end")) \in Seq(Reply)
<1>1. reply(q, "value") \in Reply /\ reply(q, "end") \in Reply
  BY DEF reply, Reply
<1> DEFINE v == [j \in 1 .. found |-> reply(q, "value")]
<1>2. v \in Seq(Reply)
  BY <1>1
<1>3. Append(v, reply(q, "end")) \in Seq(Reply)
  BY <1>1, <1>2
<1> QED
  BY <1>2, <1>3

\* A response with found items in its list.
LEMMA Responded ==
  ASSUME IInv, state = "conn_read", NEW q \in 1 .. Len(asked), NEW found \in Nat,
         items' = items + found, ileft' = found, oom' \in BOOLEAN, iovused' = TRUE,
         iov' = Append([j \in 1 .. found |-> reply(q, "value")], reply(q, "end")),
         conn_set_state("conn_mwrite"), UNCHANGED <<wbuf, write_and_go, noreply, upload>>
  PROVE  Processed
<1>b. /\ TypeOK /\ Counted /\ item = NULL /\ items \in Nat /\ (NoHitBeforeLongKey => items = 0)
  BY Between
<1>1. state' = "conn_mwrite" /\ rsize' \in Nat /\ Len(rbuf) <= rsize'
  BY <1>b, SetState
<1>2. iov' \in Seq(Reply)
  BY Values
<1>3. item' = NULL /\ rlbytes' \in Nat /\ noreply' \in BOOLEAN
      /\ write_and_go' \in {"conn_read", "conn_closing"} /\ wbuf' \in Reply \cup {NULL}
  BY <1>b DEF TypeOK, upload
<1>4. items' \in Nat /\ held' = found /\ items' >= held' /\ (NoHitBeforeLongKey => items' = held')
  BY <1>b, <1>3 DEF held
<1> QED
  BY <1>1, <1>2, <1>3, <1>4 DEF Processed, State

\* A response of one line at most.
LEMMA Line ==
  ASSUME IInv, state = "conn_read", NEW q \in 0 .. Len(asked), NEW what \in {"line", "ERROR"},
         NEW quiet \in BOOLEAN, out_string(q, what, quiet),
         NEW lost \in Nat, items' = items + lost, NoHitBeforeLongKey => lost = 0,
         iov' \in Seq(Reply), iovused' \in BOOLEAN, UNCHANGED <<upload, ileft, oom>>
  PROVE  Processed
<1>b. /\ TypeOK /\ Counted /\ item = NULL /\ ileft = 0 /\ items \in Nat
      /\ (NoHitBeforeLongKey => items = 0)
  BY Between
<1>1. /\ \/ state' = "conn_read" /\ wbuf' = wbuf
         \/ state' = "conn_write" /\ wbuf' \in Reply
      /\ write_and_go' \in {"conn_read", "conn_closing"} /\ noreply' \in BOOLEAN
      /\ rsize' \in Nat /\ Len(rbuf) <= rsize'
  BY <1>b, OutString
<1>2. item' = NULL /\ ileft' = 0 /\ rlbytes' \in Nat /\ oom' \in BOOLEAN /\ wbuf \in Reply \cup {NULL}
  BY <1>b DEF TypeOK, upload
<1>3. items' \in Nat /\ held' = 0 /\ items' >= held' /\ (NoHitBeforeLongKey => items' = held')
  BY <1>b, <1>2 DEF held
<1> QED
  BY <1>1, <1>2, <1>3 DEF Processed, State

\* process_get_command, with memory for its items and without.
LEMMA GetProcessed ==
  ASSUME IInv, state = "conn_read", NEW q \in 1 .. Len(asked), asked[q].cmd = "get",
         process_get_command(q, asked[q].hits) \/ get_out_of_memory(q)
  PROVE  Processed
<1>b. TypeOK
  BY DEF IInv
<1>q. /\ asked[q] \in Request /\ asked[q].hits \in Nat /\ asked[q].bad \in BOOLEAN
      /\ noreply \in BOOLEAN /\ oom \in BOOLEAN
  BY Zenon, <1>b, Asked DEF TypeOK
<1>1. CASE process_get_command(q, asked[q].hits) /\ asked[q].bad
  <2>1. iov' \in Seq(Reply) /\ iovused' \in BOOLEAN
    BY Zenon, <1>1, <1>q, Values DEF process_get_command
  <2>2. NoHitBeforeLongKey => asked[q].hits = 0
    BY <1>1, <1>q DEF NoHitBeforeLongKey
  <2>3. /\ items' = items + asked[q].hits /\ out_string(q, "line", noreply)
        /\ UNCHANGED <<upload, ileft, oom>>
    BY <1>1 DEF process_get_command
  <2>4. q \in 0 .. Len(asked) /\ "line" \in {"line", "ERROR"}
    OBVIOUS
  <2> QED
    BY <1>q, <2>1, <2>2, <2>3, <2>4, Line
<1>2. CASE process_get_command(q, asked[q].hits) /\ ~asked[q].bad
  <2>1. /\ items' = items + asked[q].hits /\ ileft' = asked[q].hits /\ oom' = oom
        /\ iovused' = TRUE /\ conn_set_state("conn_mwrite")
        /\ iov' = Append([j \in 1 .. asked[q].hits |-> reply(q, "value")], reply(q, "end"))
        /\ UNCHANGED <<wbuf, write_and_go, noreply, upload>>
    BY Zenon, <1>2, <1>q DEF process_get_command
  <2> QED
    BY <1>q, <2>1, Responded
<1>3. CASE get_out_of_memory(q)
  <2>1. PICK found \in 1 .. asked[q].hits - 1 :
          /\ items' = items + found /\ ileft' = found /\ iovused' = TRUE
          /\ iov' = Append([j \in 1 .. found |-> reply(q, "value")], reply(q, "end"))
    BY Zenon, <1>3 DEF get_out_of_memory
  <2>2. found \in Nat
    BY <1>q
  <2>3. /\ oom' = TRUE /\ conn_set_state("conn_mwrite")
        /\ UNCHANGED <<wbuf, write_and_go, noreply, upload>>
    BY <1>3 DEF get_out_of_memory
  <2> QED
    BY <2>1, <2>2, <2>3, Responded
<1> QED
  BY <1>q, <1>1, <1>2, <1>3

\* process_update_command begins to hold an item, answers a bad line, or fails
\* for want of memory.
LEMMA UpdateProcessed ==
  ASSUME IInv, state = "conn_read", NEW q \in 1 .. Len(asked), process_update_command(q)
  PROVE  Processed
<1>b. /\ TypeOK /\ Counted /\ item = NULL /\ ileft = 0 /\ items \in Nat /\ held = 0
      /\ (NoHitBeforeLongKey => items = 0)
  BY Between
<1>q. /\ asked[q].len \in Nat /\ asked[q].bad \in BOOLEAN /\ asked[q].noreply \in BOOLEAN
      /\ noreply \in BOOLEAN /\ oom \in BOOLEAN
  BY Zenon, <1>b, Asked DEF TypeOK
<1>n. (noreply \/ asked[q].noreply) \in BOOLEAN
  BY Zenon
<1>1. CASE /\ out_string(q, "line", noreply \/ asked[q].noreply) /\ iov' = <<>> /\ iovused' = FALSE
           /\ UNCHANGED <<items, upload, ileft, oom>>
  <2>1. iov' \in Seq(Reply) /\ items' = items + 0 /\ q \in 0 .. Len(asked)
    BY <1>1, <1>b
  <2>2. iovused' \in BOOLEAN /\ "line" \in {"line", "ERROR"}
    BY Zenon, <1>1
  <2> QED
    BY Zenon, <1>1, <1>n, <2>1, <2>2, Line
<1>2. CASE /\ item' = q /\ rlbytes' = asked[q].len /\ items' = items + 1
           /\ noreply' = (noreply \/ asked[q].noreply) /\ conn_set_state("conn_nread")
           /\ iov' = <<>> /\ iovused' = FALSE
           /\ UNCHANGED <<ileft, wbuf, write_and_go, oom>>
  <2>1. state' = "conn_nread" /\ rsize' \in Nat /\ Len(rbuf) <= rsize'
    BY <1>2, <1>b, SetState
  <2>2. item' # NULL /\ item' \in 1 .. Len(asked) /\ ileft' = 0
    BY <1>2, <1>b, ConnAssumption
  <2>3. items' \in Nat /\ held' = 1 /\ items' >= held' /\ (NoHitBeforeLongKey => items' = held')
    BY <1>2, <1>b, <2>2 DEF held
  <2>4. noreply' \in BOOLEAN /\ oom' \in BOOLEAN /\ iovused' \in BOOLEAN
    BY Zenon, <1>2, <1>n, <1>q
  <2>5. /\ iov' \in Seq(Reply) /\ rlbytes' \in Nat
        /\ write_and_go' \in {"conn_read", "conn_closing"} /\ wbuf' \in Reply \cup {NULL}
    BY <1>2, <1>b, <1>q DEF TypeOK
  <2> QED
    BY <2>1, <2>2, <2>3, <2>4, <2>5 DEF Processed, State
<1>3. CASE /\ state' = "crashed" /\ oom' = TRUE
           /\ UNCHANGED <<items, upload, ileft, output, write_and_go, noreply, rsize>>
  <2>1. /\ item' = NULL /\ ileft' = 0 /\ items' = items
        /\ rsize' \in Nat /\ Len(rbuf) <= rsize' /\ rlbytes' \in Nat
        /\ noreply' \in BOOLEAN /\ iov' \in Seq(Reply) /\ iovused' \in BOOLEAN
        /\ write_and_go' \in {"conn_read", "conn_closing"} /\ wbuf' \in Reply \cup {NULL}
    BY <1>3, <1>b DEF TypeOK, Counted, upload, output
  <2>2. items' \in Nat /\ held' = 0 /\ items' >= held' /\ (NoHitBeforeLongKey => items' = held')
    BY <1>b, <2>1 DEF held
  <2> QED
    BY <1>3, <2>1, <2>2 DEF Processed, State
<1> QED
  BY Zenon, <1>1, <1>2, <1>3 DEF process_update_command

\* Every command, and a line that is none.
LEMMA CommandProcessed ==
  ASSUME IInv, state = "conn_read", NEW units, units[1].req \in 1 .. Len(asked),
         process_command(units)
  PROVE  Processed
<1> DEFINE q == command_of(units)
           cmd == IF q = NULL THEN "unknown" ELSE asked[q].cmd
<1>t. /\ TypeOK /\ Counted /\ item = NULL /\ ileft = 0 /\ items \in Nat /\ held = 0
      /\ (NoHitBeforeLongKey => items = 0)
  BY Between
<1>q. q = NULL \/ q \in 1 .. Len(asked)
  BY Zenon DEF command_of
<1>0. cmd # "unknown" => q \in 1 .. Len(asked) /\ asked[q].cmd = cmd
  BY Zenon, <1>q
<1>l. ASSUME NEW p \in 1 .. Len(asked), NEW what \in {"line", "ERROR"}, process_line(p, what)
      PROVE  Processed
  <2>1. /\ (noreply \/ (what = "line" /\ asked[p].noreply)) \in BOOLEAN /\ iovused' \in BOOLEAN
        /\ out_string(p, what, noreply \/ (what = "line" /\ asked[p].noreply))
        /\ UNCHANGED <<upload, ileft, oom>>
    BY Zenon, <1>l DEF process_line
  <2>2. p \in 0 .. Len(asked) /\ items' = items + 0 /\ iov' \in Seq(Reply)
    BY <1>l, <1>t DEF process_line
  <2> QED
    BY Zenon, <2>1, <2>2, Line
<1>1. CASE cmd = "get" /\ (process_get_command(q, asked[q].hits) \/ get_out_of_memory(q))
  <2>1. q \in 1 .. Len(asked) /\ asked[q].cmd = "get"
    BY Zenon, <1>0, <1>1
  <2> QED
    BY <1>1, <2>1, GetProcessed
<1>2. CASE cmd = "update" /\ process_update_command(q)
  <2>1. q \in 1 .. Len(asked)
    BY Zenon, <1>0, <1>2
  <2> QED
    BY <1>2, <2>1, UpdateProcessed
<1>3. CASE cmd = "line" /\ process_line(q, "line")
  <2>1. q \in 1 .. Len(asked)
    BY Zenon, <1>0, <1>3
  <2> QED
    BY Zenon, <1>3, <1>l, <2>1
<1>4. CASE cmd = "quit" /\ process_quit
  <2>1. state' = "conn_closing" /\ rsize' \in Nat /\ Len(rbuf) <= rsize'
    BY <1>4, <1>t, SetState DEF process_quit
  <2>2. item' = NULL /\ ileft' = 0 /\ items' = items /\ iov' \in Seq(Reply)
    BY <1>4, <1>t DEF process_quit, upload
  <2>3. /\ rlbytes' \in Nat /\ noreply' \in BOOLEAN /\ iovused' \in BOOLEAN /\ oom' \in BOOLEAN
        /\ write_and_go' \in {"conn_read", "conn_closing"} /\ wbuf' \in Reply \cup {NULL}
    BY Zenon, <1>4, <1>t DEF process_quit, upload, TypeOK
  <2>4. items' \in Nat /\ held' = 0 /\ items' >= held' /\ (NoHitBeforeLongKey => items' = held')
    BY <1>t, <2>2 DEF held
  <2> QED
    BY <2>1, <2>2, <2>3, <2>4 DEF Processed, State
<1>5. CASE cmd = "unknown" /\ process_line(units[1].req, "ERROR")
  BY Zenon, <1>5, <1>l
<1> QED
  BY Zenon, <1>1, <1>2, <1>3, <1>4, <1>5 DEF process_command

-----------------------------------------------------------------------------
\* Units and replies stay what they are until there is a new request.
LEMMA SameUnits ==
  ASSUME asked' = asked
  PROVE  Unit' = Unit /\ Reply' = Reply
BY Zenon DEF Unit, Reply

\* try_read_command
LEMMA ReadCommandInv ==
  ASSUME IInv, ReadCommand
  PROVE  IInv'
<1>u. /\ driving /\ state = "conn_read" /\ reading = NULL /\ asked' = asked /\ driving' = driving
      /\ reading' = reading /\ UNCHANGED <<inbox, rest, eof, replies, ev_flags>>
  BY Zenon DEF ReadCommand, socket
<1>t. TypeOK /\ Unit' = Unit /\ Reply' = Reply
  BY Zenon, <1>u, SameUnits DEF IInv
<1>1. PICK n \in newlines : /\ process_command(SubSeq(rbuf, 1, n))
                            /\ rbuf' = SubSeq(rbuf, n + 1, Len(rbuf))
  BY Zenon DEF ReadCommand
<1>2. n \in 1 .. Len(rbuf) /\ rbuf \in Seq(Unit) /\ Len(rbuf) \in Nat
  BY <1>t DEF newlines, TypeOK
<1>3. SubSeq(rbuf, 1, n)[1].req \in 1 .. Len(asked)
  <2>1. rbuf[1] \in Unit /\ \A j \in 1 .. n : rbuf[j] \in Unit
    BY <1>2
  <2>2. SubSeq(rbuf, 1, n)[1] = rbuf[1]
    BY <1>2
  <2> QED
    BY Zenon, <2>1, <2>2 DEF Unit
<1>4. Processed
  BY Zenon, <1>u, <1>1, <1>3, CommandProcessed
<1>5. rbuf' \in Seq(Unit) /\ Len(rbuf') <= Len(rbuf)
  BY <1>1, <1>2, Part
<1>6. TypeOK'
  BY Zenon, <1>u, <1>t, <1>4, <1>5 DEF TypeOK, Processed
<1>7. Holding'
  BY Zenon, <1>t, <1>4 DEF Holding, Processed
<1>8. Counted'
  <2>1. Len(rbuf') <= rsize'
    BY <1>2, <1>4, <1>5 DEF Processed
  <2> QED
    BY Zenon, <1>4, <2>1 DEF Counted, Processed, NoHitBeforeLongKey
<1>9. Reading' /\ WaitsForTheRightEvent'
  BY Zenon, <1>u, ConnAssumption DEF Reading, WaitsForTheRightEvent
<1> QED
  BY Zenon, <1>6, <1>7, <1>8, <1>9 DEF IInv

\* Nothing is taken or given back, and the read buffer has room.
LEMMA CountedKept ==
  ASSUME Counted, UNCHANGED <<items, item, ileft>>, Len(rbuf') <= rsize'
  PROVE  Counted'
BY Zenon DEF Counted, held, NoHitBeforeLongKey

\* The steps of try_read_network.
LEMMA NoCommandInv ==
  ASSUME IInv, NoCommand
  PROVE  IInv'
<1>u. /\ driving /\ state = "conn_read" /\ ~has_line /\ reading' = FALSE
      /\ UNCHANGED <<inbox, rest, eof, asked, replies, oom, items, driving, ev_flags, state,
                     write_and_go, noreply, rbuf, rsize, item, rlbytes, ileft, wbuf, iov, iovused>>
  BY Zenon DEF NoCommand, socket, history, upload, output
<1>t. TypeOK /\ Unit' = Unit /\ Reply' = Reply
  BY Zenon, <1>u, SameUnits DEF IInv
<1>1. TypeOK'
  BY Zenon, <1>u, <1>t DEF TypeOK
<1>2. Holding'
  BY Zenon, <1>u, <1>t DEF IInv, Holding
<1>3. Counted'
  BY Zenon, <1>u, CountedKept DEF IInv, Counted
<1>4. Reading' /\ WaitsForTheRightEvent'
  BY Zenon, <1>u DEF Reading, WaitsForTheRightEvent, has_line, newlines
<1> QED
  BY Zenon, <1>1, <1>2, <1>3, <1>4 DEF IInv

LEMMA GrowBufferInv ==
  ASSUME IInv, GrowBuffer
  PROVE  IInv'
<1>u. /\ driving /\ state = "conn_read" /\ reading # NULL
      /\ UNCHANGED <<inbox, rest, eof, asked, replies, items, driving, ev_flags, item, rlbytes,
                     ileft, iov, iovused>>
  BY Zenon DEF GrowBuffer, socket, upload
<1>t. TypeOK /\ Unit' = Unit /\ Reply' = Reply
  BY Zenon, <1>u, SameUnits DEF IInv
<1>h. item = NULL /\ ileft = 0 /\ Counted
  BY Zenon, <1>u DEF IInv, Holding
<1>1. CASE rsize' = rsize * 2 /\ UNCHANGED <<rbuf, reading, state, wbuf, write_and_go, noreply, oom>>
  <2>1. rsize' \in Nat /\ Len(rbuf') <= rsize'
    <3>1. rsize \in Nat /\ Len(rbuf) \in Nat /\ Len(rbuf) <= rsize
      BY <1>t, <1>h DEF TypeOK, Counted
    <3> QED
      BY <1>1, <3>1
  <2>2. TypeOK'
    BY ZenonT(30), <1>1, <1>u, <1>t, <2>1 DEF TypeOK
  <2>3. Holding'
    BY Zenon, <1>1, <1>u, <1>t DEF IInv, Holding
  <2>4. Counted'
    BY Zenon, <1>u, <1>h, <2>1, CountedKept
  <2>5. Reading' /\ WaitsForTheRightEvent'
    BY Zenon, <1>1, <1>u DEF IInv, Reading, WaitsForTheRightEvent, has_line, newlines
  <2> QED
    BY Zenon, <2>2, <2>3, <2>4, <2>5 DEF IInv
<1>2. CASE /\ oom' = TRUE /\ rbuf' = <<>> /\ reading' = NULL
           /\ IF noreply THEN /\ noreply' = FALSE /\ UNCHANGED <<state, wbuf>>
              ELSE /\ wbuf' = reply(0, "line") /\ state' = "conn_write" /\ UNCHANGED noreply
           /\ write_and_go' = "conn_closing" /\ UNCHANGED rsize
  <2>1. reply(0, "line") \in Reply /\ rbuf' \in Seq(Unit) /\ Len(rbuf') = 0 /\ rsize \in Nat
    BY <1>2, <1>t DEF reply, Reply, TypeOK
  <2>2. /\ \/ state' = "conn_read" /\ wbuf' = wbuf
           \/ state' = "conn_write" /\ wbuf' \in Reply
        /\ noreply' \in BOOLEAN
    BY Zenon, <1>2, <1>u, <1>t, <2>1 DEF TypeOK
  <2>3. TypeOK'
    BY Zenon, <1>2, <1>u, <1>t, <2>1, <2>2 DEF TypeOK, State
  <2>4. Holding'
    BY Zenon, <1>u, <1>t, <1>h, <2>2 DEF Holding
  <2>5. Len(rbuf') <= rsize'
    BY <1>2, <2>1
  <2>6. Counted'
    BY Zenon, <1>u, <1>h, <2>5, CountedKept
  <2>7. Reading' /\ WaitsForTheRightEvent'
    BY Zenon, <1>2, <1>u, ConnAssumption DEF Reading, WaitsForTheRightEvent
  <2> QED
    BY Zenon, <2>3, <2>4, <2>6, <2>7 DEF IInv
<1> QED
  BY Zenon, <1>1, <1>2 DEF GrowBuffer

LEMMA ReadNetworkInv ==
  ASSUME IInv, ReadNetwork
  PROVE  IInv'
<1>u. /\ driving /\ state = "conn_read" /\ reading' \in {TRUE, NULL}
      /\ UNCHANGED <<rest, eof, asked, replies, oom, items, driving, ev_flags, state,
                     write_and_go, noreply, rsize, item, rlbytes, ileft, wbuf, iov, iovused>>
  BY Zenon DEF ReadNetwork, history, upload, output
<1>t. TypeOK /\ Unit' = Unit /\ Reply' = Reply
  BY Zenon, <1>u, SameUnits DEF IInv
<1>1. PICK n \in 1 .. Len(inbox) : /\ n <= rsize - Len(rbuf)
                                   /\ rbuf' = rbuf \o SubSeq(inbox, 1, n)
                                   /\ inbox' = SubSeq(inbox, n + 1, Len(inbox))
  BY Zenon DEF ReadNetwork
<1>2. /\ inbox \in Seq(Unit) /\ rbuf \in Seq(Unit) /\ rsize \in Nat
      /\ Len(inbox) \in Nat /\ Len(rbuf) \in Nat
  BY <1>t DEF TypeOK
<1>3. inbox' \in Seq(Unit)
  BY <1>1, <1>2, Part
<1>4. SubSeq(inbox, 1, n) \in Seq(Unit) /\ Len(SubSeq(inbox, 1, n)) = n
  BY <1>2
<1>5. rbuf' \in Seq(Unit) /\ Len(rbuf') = Len(rbuf) + n
  BY <1>1, <1>2, <1>4
<1>6. Len(rbuf') <= rsize'
  BY <1>u, <1>1, <1>2, <1>5
<1>7. TypeOK'
  BY ZenonT(30), <1>u, <1>t, <1>3, <1>5 DEF TypeOK
<1>8. Holding'
  BY Zenon, <1>u, <1>t DEF IInv, Holding
<1>9. Counted'
  BY Zenon, <1>u, <1>6, CountedKept DEF IInv
<1>10. Reading' /\ WaitsForTheRightEvent'
  BY Zenon, <1>u, ConnAssumption DEF Reading, WaitsForTheRightEvent
<1> QED
  BY Zenon, <1>7, <1>8, <1>9, <1>10 DEF IInv

LEMMA ReadNothingInv ==
  ASSUME IInv, ReadNothing
  PROVE  IInv'
<1>u. /\ driving /\ state = "conn_read" /\ reading # NULL /\ reading' = NULL
      /\ IF reading THEN UNCHANGED <<driving, ev_flags>>
         ELSE driving' = FALSE /\ ev_flags' = "AE_READABLE"
      /\ UNCHANGED <<inbox, rest, eof, asked, replies, oom, items, state,
                     write_and_go, noreply, rbuf, rsize, item, rlbytes, ileft, wbuf, iov, iovused>>
  BY Zenon DEF ReadNothing, socket, history, upload, output
<1>t. TypeOK /\ Unit' = Unit /\ Reply' = Reply
  BY Zenon, <1>u, SameUnits DEF IInv
<1>d. \/ driving' = TRUE /\ ev_flags' = ev_flags
      \/ driving' = FALSE /\ ev_flags' = "AE_READABLE" /\ reading = FALSE
  BY Zenon, <1>u, <1>t DEF TypeOK
<1>1. TypeOK'
  BY Zenon, <1>u, <1>t, <1>d DEF TypeOK
<1>2. Holding'
  BY Zenon, <1>u, <1>t DEF IInv, Holding
<1>3. Counted'
  BY Zenon, <1>u, CountedKept DEF IInv, Counted
<1>4. Reading'
  BY Zenon, <1>u, ConnAssumption DEF Reading
<1>5. WaitsForTheRightEvent'
  BY Zenon, <1>u, <1>d DEF IInv, Reading, WaitsForTheRightEvent, has_line, newlines
<1> QED
  BY Zenon, <1>1, <1>2, <1>3, <1>4, <1>5 DEF IInv

LEMMA ReadEndsInv ==
  ASSUME IInv, ReadEnds
  PROVE  IInv'
<1>u. /\ driving /\ state \in {"conn_read", "conn_nread"} /\ state' = "conn_closing" /\ reading' = NULL
      /\ UNCHANGED <<inbox, rest, eof, asked, replies, oom, items, driving, ev_flags,
                     write_and_go, noreply, rbuf, rsize, item, rlbytes, ileft, wbuf, iov, iovused>>
  BY Zenon DEF ReadEnds, socket, history, upload, output
<1>t. TypeOK /\ Unit' = Unit /\ Reply' = Reply
  BY Zenon, <1>u, SameUnits DEF IInv
<1>1. TypeOK'
  BY Zenon, <1>u, <1>t DEF TypeOK, State
<1>2. Holding'
  BY Zenon, <1>u DEF Holding
<1>3. Counted'
  BY Zenon, <1>u, CountedKept DEF IInv, Counted
<1>4. Reading' /\ WaitsForTheRightEvent'
  BY Zenon, <1>u, ConnAssumption DEF Reading, WaitsForTheRightEvent
<1> QED
  BY Zenon, <1>1, <1>2, <1>3, <1>4 DEF IInv

\* The steps of conn_nread.
LEMMA LeftoversInv ==
  ASSUME IInv, Leftovers
  PROVE  IInv'
<1> DEFINE tocopy == IF Len(rbuf) > rlbytes THEN rlbytes ELSE Len(rbuf)
<1>u. /\ driving /\ state = "conn_nread"
      /\ rlbytes' = rlbytes - tocopy /\ rbuf' = SubSeq(rbuf, tocopy + 1, Len(rbuf))
      /\ UNCHANGED <<inbox, rest, eof, asked, replies, oom, items, driving, ev_flags, state,
                     write_and_go, noreply, rsize, reading, item, ileft, wbuf, iov, iovused>>
  BY Zenon DEF Leftovers, socket, history, output
<1>t. TypeOK /\ Unit' = Unit /\ Reply' = Reply
  BY Zenon, <1>u, SameUnits DEF IInv
<1>r. reading = NULL
  BY Zenon, <1>u DEF IInv, Reading
<1>1. /\ rbuf \in Seq(Unit) /\ Len(rbuf) \in Nat /\ rlbytes \in Nat /\ rsize \in Nat
      /\ Len(rbuf) <= rsize
  BY <1>t DEF IInv, TypeOK, Counted
<1>2. tocopy \in 0 .. Len(rbuf) /\ tocopy <= rlbytes
  BY <1>1
<1>3. rbuf' \in Seq(Unit) /\ Len(rbuf') <= Len(rbuf)
  <2>1. tocopy + 1 \in Nat \ {0} /\ Len(rbuf) \in 0 .. Len(rbuf)
    BY <1>1, <1>2
  <2> HIDE DEF tocopy
  <2> QED
    BY <1>u, <1>1, <2>1, Part
<1>4. rlbytes' \in Nat
  BY <1>u, <1>1, <1>2
<1>5. Len(rbuf') <= rsize'
  <2>1. Len(rbuf') \in Nat
    BY <1>3
  <2> HIDE DEF tocopy
  <2> QED
    BY <1>u, <1>1, <1>3, <2>1
<1>6. TypeOK'
  BY ZenonT(30), <1>u, <1>t, <1>3, <1>4 DEF TypeOK
<1>7. Holding'
  BY Zenon, <1>u, <1>t DEF IInv, Holding
<1>8. Counted'
  BY Zenon, <1>u, <1>5, CountedKept DEF IInv
<1>9. Reading' /\ WaitsForTheRightEvent'
  BY Zenon, <1>u, <1>r, ConnAssumption DEF Reading, WaitsForTheRightEvent
<1> QED
  BY Zenon, <1>6, <1>7, <1>8, <1>9 DEF IInv

LEMMA ReadDataInv ==
  ASSUME IInv, ReadData
  PROVE  IInv'
<1>u. /\ driving /\ state = "conn_nread"
      /\ UNCHANGED <<rest, eof, asked, replies, oom, items, driving, ev_flags, state,
                     write_and_go, noreply, rbuf, rsize, reading, item, ileft, wbuf, iov, iovused>>
  BY Zenon DEF ReadData, history, input, output
<1>t. TypeOK /\ Unit' = Unit /\ Reply' = Reply
  BY Zenon, <1>u, SameUnits DEF IInv
<1>1. PICK n \in 1 .. Len(inbox) : /\ n <= rlbytes /\ rlbytes' = rlbytes - n
                                   /\ inbox' = SubSeq(inbox, n + 1, Len(inbox))
  BY Zenon DEF ReadData
<1>2. inbox \in Seq(Unit) /\ Len(inbox) \in Nat /\ rlbytes \in Nat
  BY <1>t DEF TypeOK
<1>3. inbox' \in Seq(Unit)
  BY <1>1, <1>2, Part
<1>4. rlbytes' \in Nat
  BY <1>1, <1>2
<1>5. TypeOK'
  BY ZenonT(30), <1>u, <1>t, <1>3, <1>4 DEF TypeOK
<1>6. Holding'
  BY Zenon, <1>u, <1>t DEF IInv, Holding
<1>7. Counted'
  BY Zenon, <1>u, CountedKept DEF IInv, Counted
<1>8. Reading' /\ WaitsForTheRightEvent'
  <2>1. reading = NULL
    BY Zenon, <1>u DEF IInv, Reading
  <2> QED
    BY Zenon, <1>u, <2>1, ConnAssumption DEF Reading, WaitsForTheRightEvent
<1> QED
  BY Zenon, <1>5, <1>6, <1>7, <1>8 DEF IInv

LEMMA WaitForDataInv ==
  ASSUME IInv, WaitForData
  PROVE  IInv'
<1>u. /\ driving /\ state = "conn_nread" /\ rlbytes > 0 /\ rbuf = <<>>
      /\ driving' = FALSE /\ ev_flags' = "AE_READABLE"
      /\ UNCHANGED <<inbox, rest, eof, asked, replies, oom, items, state, write_and_go, noreply,
                     rbuf, rsize, reading, item, rlbytes, ileft, wbuf, iov, iovused>>
  BY Zenon DEF WaitForData, socket, history, input, upload, output
<1>t. TypeOK /\ Unit' = Unit /\ Reply' = Reply
  BY Zenon, <1>u, SameUnits DEF IInv
<1>1. TypeOK'
  BY Zenon, <1>u, <1>t DEF TypeOK
<1>2. Holding'
  BY Zenon, <1>u, <1>t DEF IInv, Holding
<1>3. Counted'
  BY Zenon, <1>u, CountedKept DEF IInv, Counted
<1>4. Reading'
  BY Zenon, <1>u, ConnAssumption DEF IInv, Reading
<1>5. /\ ev_flags' = "AE_READABLE" /\ state' \notin {"conn_write", "conn_mwrite"}
      /\ state' # "conn_read" /\ rlbytes' > 0 /\ rbuf' = <<>>
  BY <1>u
<1>6. WaitsForTheRightEvent'
  BY Zenon, <1>5 DEF WaitsForTheRightEvent
<1> QED
  BY Zenon, <1>1, <1>2, <1>3, <1>4, <1>6 DEF IInv

\* complete_nread gives the item back.
LEMMA CompleteNreadInv ==
  ASSUME IInv, CompleteNread
  PROVE  IInv'
<1>u. /\ driving /\ state = "conn_nread" /\ out_string(item, "line", noreply)
      /\ item' = NULL /\ items' = items - 1
      /\ UNCHANGED <<inbox, rest, eof, asked, replies, oom, driving, ev_flags, rbuf, reading,
                     rlbytes, ileft, iov, iovused>>
  BY Zenon DEF CompleteNread, socket, history
<1>t. TypeOK /\ Counted /\ Unit' = Unit /\ Reply' = Reply
  BY Zenon, <1>u, SameUnits DEF IInv
<1>h. item # NULL /\ item \in 1 .. Len(asked) /\ ileft = 0 /\ reading = NULL
  BY Zenon, <1>u, <1>t DEF IInv, Holding, Reading, TypeOK
<1>1. /\ \/ state' = "conn_read" /\ wbuf' = wbuf
         \/ state' = "conn_write" /\ wbuf' \in Reply
      /\ write_and_go' \in {"conn_read", "conn_closing"} /\ noreply' \in BOOLEAN
      /\ rsize' \in Nat /\ Len(rbuf) <= rsize'
  <2>1. item \in 0 .. Len(asked) /\ noreply \in BOOLEAN
    BY <1>h, <1>t DEF TypeOK
  <2> QED
    BY <1>u, <1>t, <2>1, OutString
<1>2. items' \in Nat /\ items' >= held' /\ (NoHitBeforeLongKey => items' = held')
  <2>1. items \in Nat /\ items >= 1 /\ (NoHitBeforeLongKey => items = 1)
    BY <1>t, <1>h DEF TypeOK, Counted, held
  <2>2. held' = 0
    BY <1>u, <1>h DEF held
  <2> QED
    BY <1>u, <2>1, <2>2
<1>3. TypeOK'
  BY Zenon, <1>u, <1>t, <1>1, <1>2 DEF TypeOK, State
<1>4. Holding'
  BY <1>u, <1>t, <1>h, <1>1 DEF Holding
<1>5. Counted'
  BY Zenon, <1>u, <1>1, <1>2 DEF Counted, NoHitBeforeLongKey
<1>6. Reading' /\ WaitsForTheRightEvent'
  BY Zenon, <1>u, <1>h, ConnAssumption DEF Reading, WaitsForTheRightEvent
<1> QED
  BY Zenon, <1>3, <1>4, <1>5, <1>6 DEF IInv

\* The message to send is made of replies.
LEMMA Message ==
  ASSUME IInv, state \in {"conn_write", "conn_mwrite"}
  PROVE  message \in Seq(Reply) /\ reading = NULL
<1>1. reading = NULL
  BY Zenon DEF IInv, Reading
<1>2. iov \in Seq(Reply)
  BY DEF IInv, TypeOK
<1>3. CASE state = "conn_write" /\ ~iovused
  <2>1. wbuf \in Reply /\ message = <<wbuf>>
    BY Zenon, <1>3 DEF IInv, Holding, message
  <2> QED
    BY <1>1, <2>1
<1>4. CASE ~(state = "conn_write" /\ ~iovused)
  BY Zenon, <1>1, <1>2, <1>4 DEF message
<1> QED
  BY <1>3, <1>4

\* A part of the message is sent, or none; the connection goes on, or is closed.
LEMMA TransmitInv ==
  ASSUME IInv, Transmit \/ TransmitBlocks \/ TransmitFails
  PROVE  IInv'
<1>u. /\ driving /\ state \in {"conn_write", "conn_mwrite"} /\ message # <<>>
      /\ iovused' = TRUE
      /\ UNCHANGED <<inbox, rest, eof, asked, oom, items, write_and_go, noreply, rbuf, rsize,
                     reading, item, rlbytes, ileft, wbuf>>
  BY Zenon DEF Transmit, TransmitBlocks, TransmitFails, socket, history, input, upload
<1>t. TypeOK /\ Unit' = Unit /\ Reply' = Reply
  BY Zenon, <1>u, SameUnits DEF IInv
<1>m. message \in Seq(Reply) /\ reading = NULL
  BY <1>u, Message
<1>1. iov' \in Seq(Reply) /\ replies' \in Seq(Reply)
  <2>1. replies \in Seq(Reply)
    BY <1>t DEF TypeOK
  <2>2. CASE Transmit
    <3>1. PICK n \in 1 .. Len(message) : /\ replies' = replies \o SubSeq(message, 1, n)
                                         /\ iov' = SubSeq(message, n + 1, Len(message))
      BY Zenon, <2>2 DEF Transmit
    <3>2. Len(message) \in Nat /\ n \in 0 .. Len(message) /\ n + 1 \in Nat \ {0}
      BY <1>m
    <3>3. SubSeq(message, 1, n) \in Seq(Reply) /\ SubSeq(message, n + 1, Len(message)) \in Seq(Reply)
      BY <1>m, <3>2, Part
    <3> QED
      BY <2>1, <3>1, <3>3
  <2>3. CASE TransmitBlocks \/ TransmitFails
    BY Zenon, <1>m, <2>1, <2>3 DEF TransmitBlocks, TransmitFails, history
  <2> QED
    BY <2>2, <2>3
<1>2. \/ UNCHANGED <<driving, ev_flags, state>>
      \/ /\ driving' = FALSE /\ ev_flags' = "AE_WRITABLE" /\ state' = state /\ iov' # <<>>
      \/ UNCHANGED <<driving, ev_flags>> /\ state' = "conn_closing"
  BY Zenon DEF Transmit, TransmitBlocks, TransmitFails
<1>3. TypeOK'
  <2>1. driving' \in BOOLEAN /\ ev_flags' \in {"AE_READABLE", "AE_WRITABLE"} /\ state' \in State
    BY Zenon, <1>t, <1>2 DEF TypeOK, State
  <2> QED
    BY Zenon, <1>u, <1>t, <1>1, <2>1 DEF TypeOK
<1>4. Holding'
  BY Zenon, <1>u, <1>t, <1>2 DEF IInv, Holding
<1>5. Counted'
  BY Zenon, <1>u, CountedKept DEF IInv, Counted
<1>6. Reading'
  BY Zenon, <1>u, <1>m, <1>2, ConnAssumption DEF Reading
<1>7. WaitsForTheRightEvent'
  BY Zenon, <1>u, <1>2 DEF WaitsForTheRightEvent
<1> QED
  BY Zenon, <1>3, <1>4, <1>5, <1>6, <1>7 DEF IInv

\* All is sent: a list of items is given back.
LEMMA TransmitCompleteInv ==
  ASSUME IInv, TransmitComplete
  PROVE  IInv'
<1>u. /\ driving /\ state \in {"conn_write", "conn_mwrite"}
      /\ UNCHANGED <<inbox, rest, eof, asked, replies, oom, driving, ev_flags, write_and_go, noreply,
                     rbuf, reading, item, rlbytes, wbuf, iov, iovused>>
  BY Zenon DEF TransmitComplete, socket, history, upload, output
<1>t. TypeOK /\ Counted /\ Unit' = Unit /\ Reply' = Reply
  BY Zenon, <1>u, SameUnits DEF IInv
<1>h. item = NULL /\ reading = NULL /\ (state = "conn_write" => ileft = 0)
  BY Zenon, <1>u DEF IInv, Holding, Reading
<1>1. /\ state' \in {"conn_read", "conn_closing"} /\ rsize' \in Nat /\ Len(rbuf) <= rsize'
  <2>1. PICK s \in {"conn_read", "conn_closing"} : conn_set_state(s)
    BY Zenon, <1>t DEF TransmitComplete, TypeOK
  <2> QED
    BY <1>t, <2>1, SetState
<1>2. ileft' = 0 /\ items' = items - ileft
  <2>1. items \in Nat
    BY <1>t DEF TypeOK
  <2>2. CASE state = "conn_mwrite"
    BY Zenon, <2>2 DEF TransmitComplete
  <2>3. CASE state = "conn_write"
    <3>1. items' = items /\ ileft' = ileft
      BY <2>3 DEF TransmitComplete
    <3> QED
      BY <1>h, <2>1, <2>3, <3>1
  <2> QED
    BY Zenon, <1>u, <2>2, <2>3
<1>3. items' \in Nat /\ items' >= held' /\ (NoHitBeforeLongKey => items' = held')
  <2>1. items \in Nat /\ ileft \in Nat /\ items >= ileft /\ (NoHitBeforeLongKey => items = ileft)
    BY <1>t, <1>h DEF TypeOK, Counted, held
  <2>2. held' = 0
    BY <1>u, <1>h, <1>2 DEF held
  <2> QED
    BY <1>2, <2>1, <2>2
<1>4. ileft' \in Nat
  BY <1>2
<1>5. TypeOK'
  <2>1. state' \in State /\ rsize' \in Nat /\ items' \in Nat /\ ileft' \in Nat
    BY Zenon, <1>1, <1>3, <1>4 DEF State
  <2>2. UNCHANGED <<inbox, rest, eof, asked, replies, oom, driving, ev_flags, write_and_go, noreply,
                    rbuf, reading, item, rlbytes, wbuf, iov, iovused>>
    BY Zenon, <1>u
  <2>3. (/\ inbox \in Seq(Unit) /\ rest \in Seq(Unit) /\ rbuf \in Seq(Unit) /\ eof \in BOOLEAN
         /\ asked \in Seq(Request) /\ Len(asked) <= MaxRequests /\ replies \in Seq(Reply))'
    BY Zenon, <1>t, <2>2 DEF TypeOK
  <2>4. (/\ item \in (1 .. Len(asked)) \cup {NULL} /\ reading \in {NULL, FALSE, TRUE} /\ rlbytes \in Nat
         /\ wbuf \in Reply \cup {NULL} /\ iov \in Seq(Reply) /\ iovused \in BOOLEAN)'
    BY Zenon, <1>t, <2>2 DEF TypeOK
  <2>5. (/\ oom \in BOOLEAN /\ driving \in BOOLEAN /\ ev_flags \in {"AE_READABLE", "AE_WRITABLE"}
         /\ write_and_go \in {"conn_read", "conn_closing"} /\ noreply \in BOOLEAN)'
    BY Zenon, <1>t, <2>2 DEF TypeOK
  <2> QED
    BY Zenon, <2>1, <2>3, <2>4, <2>5 DEF TypeOK
<1>6. Holding'
  BY Zenon, <1>u, <1>h, <1>1, <1>2 DEF Holding
<1>7. Counted'
  BY Zenon, <1>u, <1>1, <1>3 DEF Counted, NoHitBeforeLongKey
<1>8. Reading' /\ WaitsForTheRightEvent'
  BY Zenon, <1>u, <1>h, ConnAssumption DEF Reading, WaitsForTheRightEvent
<1> QED
  BY Zenon, <1>5, <1>6, <1>7, <1>8 DEF IInv

\* conn_close gives everything back.
LEMMA CloseInv ==
  ASSUME IInv, Close
  PROVE  IInv'
<1>u. /\ driving /\ state = "conn_closing" /\ state' = "closed" /\ driving' = FALSE
      /\ items' = items - ileft - (IF item = NULL THEN 0 ELSE 1) /\ item' = NULL /\ ileft' = 0
      /\ UNCHANGED <<inbox, rest, eof, asked, replies, oom, ev_flags, write_and_go, noreply,
                     rbuf, rsize, reading, rlbytes, wbuf, iov, iovused>>
  BY Zenon DEF Close, socket, history, input, output
<1>t. TypeOK /\ Counted /\ Unit' = Unit /\ Reply' = Reply
  BY Zenon, <1>u, SameUnits DEF IInv
<1>1. items' \in Nat /\ ileft' \in Nat /\ items' >= held' /\ (NoHitBeforeLongKey => items' = held')
  <2>1. items \in Nat /\ ileft \in Nat /\ items >= held /\ (NoHitBeforeLongKey => items = held)
    BY <1>t DEF TypeOK, Counted
  <2>2. held' = 0
    BY <1>u DEF held
  <2> QED
    BY <1>u, <2>1, <2>2 DEF held
<1>2. TypeOK'
  BY Zenon, <1>u, <1>t, <1>1 DEF TypeOK, State
<1>3. Holding'
  BY Zenon, <1>u DEF Holding
<1>4. Counted'
  BY Zenon, <1>u, <1>t, <1>1 DEF Counted, NoHitBeforeLongKey
<1>5. Reading' /\ WaitsForTheRightEvent'
  <2>1. reading = NULL
    BY Zenon, <1>u DEF IInv, Reading
  <2> QED
    BY Zenon, <1>u, <2>1, ConnAssumption DEF Reading, WaitsForTheRightEvent
<1> QED
  BY Zenon, <1>2, <1>3, <1>4, <1>5 DEF IInv

-----------------------------------------------------------------------------
\* The event loop wakes the connection up.
LEMMA FiredInv ==
  ASSUME IInv, Fired
  PROVE  IInv'
<1>u. /\ ~driving /\ driving' = TRUE
      /\ UNCHANGED <<inbox, rest, eof, asked, replies, oom, items, ev_flags, state, write_and_go,
                     noreply, rbuf, rsize, reading, item, rlbytes, ileft, wbuf, iov, iovused>>
  BY Zenon DEF Fired, socket, history, input, upload, output
<1>t. TypeOK /\ Unit' = Unit /\ Reply' = Reply
  BY Zenon, <1>u, SameUnits DEF IInv
<1>1. TypeOK'
  BY ZenonT(30), <1>u, <1>t DEF TypeOK
<1>2. Holding'
  BY Zenon, <1>u, <1>t DEF IInv, Holding
<1>3. Counted'
  BY Zenon, <1>u, CountedKept DEF IInv, Counted
<1>4. Reading'
  BY Zenon, <1>u DEF IInv, Reading, has_line, newlines
<1>5. WaitsForTheRightEvent'
  BY Zenon, <1>u DEF WaitsForTheRightEvent
<1> QED
  BY Zenon, <1>1, <1>2, <1>3, <1>4, <1>5 DEF IInv

\* What the client does changes nothing of the connection but what there is to read.
LEMMA ClientInv ==
  ASSUME IInv, UNCHANGED <<items, driving, ev_flags, state, write_and_go, noreply, input, upload,
                           ileft, output, replies, oom>>,
         asked' \in Seq(Request), Len(asked') <= MaxRequests, Len(asked) <= Len(asked'),
         inbox' \in Seq(Unit'), rest' \in Seq(Unit'), eof' \in BOOLEAN
  PROVE  IInv'
<1>u. UNCHANGED <<items, driving, ev_flags, state, write_and_go, noreply, rbuf, rsize, reading,
                  item, rlbytes, ileft, wbuf, iov, iovused, replies, oom>>
  BY Zenon DEF input, upload, output
<1>t. TypeOK
  BY DEF IInv
<1>1. 1 .. Len(asked) \subseteq 1 .. Len(asked') /\ 0 .. Len(asked) \subseteq 0 .. Len(asked')
  <2>1. Len(asked) \in Nat /\ Len(asked') \in Nat
    BY <1>t DEF TypeOK
  <2> QED
    BY <2>1
<1>2. Unit \subseteq Unit' /\ Reply \subseteq Reply'
  BY <1>1 DEF Unit, Reply
<1>3. rbuf' \in Seq(Unit') /\ replies' \in Seq(Reply') /\ iov' \in Seq(Reply')
  BY <1>u, <1>t, <1>2 DEF TypeOK
<1>4. wbuf' \in Reply' \cup {NULL} /\ item' \in (1 .. Len(asked')) \cup {NULL}
  BY Zenon, <1>u, <1>t, <1>1, <1>2 DEF TypeOK
<1>5. TypeOK'
  BY Zenon, <1>u, <1>t, <1>3, <1>4 DEF TypeOK
<1>6. Holding'
  BY Zenon, <1>u, <1>2 DEF IInv, Holding
<1>7. Counted'
  BY Zenon, <1>u, CountedKept DEF IInv, Counted
<1>l. has_line' = has_line
  BY Zenon, <1>u DEF has_line, newlines
<1>8. Reading'
  BY <1>u, <1>l DEF IInv, Reading
<1>9. WaitsForTheRightEvent'
  BY <1>u, <1>l DEF IInv, WaitsForTheRightEvent
<1> QED
  BY Zenon, <1>5, <1>6, <1>7, <1>8, <1>9 DEF IInv

\* The units of a request.
LEMMA Units ==
  ASSUME NEW q \in Nat \ {0}, NEW r \in Request, NEW U,
         U = [req : 1 .. q, part : {"cmd", "data"}, nl : BOOLEAN]
  PROVE  line_units(q) \o (IF r.cmd = "update" THEN data_units(q, r) ELSE <<>>) \in Seq(U)
<1>1. r.len \in Nat
  BY ConnAssumption DEF Requests
<1>2. line_units(q) \in Seq(U)
  <2>1. /\ [req |-> q, part |-> "cmd", nl |-> FALSE] \in U
        /\ [req |-> q, part |-> "cmd", nl |-> TRUE] \in U
    OBVIOUS
  <2> QED
    BY <2>1 DEF line_units
<1>3. data_units(q, r) \in Seq(U)
  <2>1. ASSUME NEW j \in 1 .. r.len
        PROVE  [req |-> q, part |-> "data", nl |-> j = r.len /\ r.chunk] \in U
    <3>1. (j = r.len /\ r.chunk) \in BOOLEAN
      BY Zenon
    <3> QED
      BY <3>1
  <2> DEFINE f == [j \in 1 .. r.len |-> [req |-> q, part |-> "data", nl |-> j = r.len /\ r.chunk]]
  <2>2. f \in [1 .. r.len -> U]
    BY Zenon, <2>1
  <2>3. f \in Seq(U)
    <3> HIDE DEF f
    <3> QED
      BY Zenon, <1>1, <2>2, FunctionSeq
  <2> QED
    BY Zenon, <2>3 DEF data_units
<1> DEFINE d == IF r.cmd = "update" THEN data_units(q, r) ELSE <<>>
<1>4. d \in Seq(U)
  BY <1>3
<1>5. line_units(q) \o d \in Seq(U)
  <2> HIDE DEF d
  <2> QED
    BY <1>2, <1>4
<1> QED
  BY Zenon, <1>5

LEMMA SendInv ==
  ASSUME IInv, NEW r \in Request, Send(r)
  PROVE  IInv'
<1> DEFINE q == Len(asked) + 1
           units == line_units(q) \o (IF r.cmd = "update" THEN data_units(q, r) ELSE <<>>)
<1>t. TypeOK
  BY DEF IInv
<1>1. /\ asked' = Append(asked, r) /\ Len(asked) < MaxRequests /\ eof' = eof
      /\ UNCHANGED <<items, driving, ev_flags, state, write_and_go, noreply, input, upload,
                     ileft, output, replies, oom>>
  BY Zenon DEF Send
<1>2. asked' \in Seq(Request) /\ Len(asked') = q /\ q \in Nat \ {0} /\ Len(asked) \in Nat
  BY <1>1, <1>t DEF TypeOK
<1>3. Len(asked') <= MaxRequests /\ Len(asked) <= Len(asked')
  BY <1>1, <1>2, ConnAssumption
<1>4. Unit' = [req : 1 .. q, part : {"cmd", "data"}, nl : BOOLEAN]
  BY Zenon, <1>2 DEF Unit
<1>5. units \in Seq(Unit')
  BY Zenon, <1>2, <1>4, Units
<1>6. PICK n \in 1 .. Len(units) : /\ inbox' = inbox \o SubSeq(units, 1, n)
                                   /\ rest' = SubSeq(units, n + 1, Len(units))
  BY Zenon DEF Send
<1> HIDE DEF units
<1>7. inbox \in Seq(Unit')
  <2>1. Unit \subseteq Unit'
    BY <1>2, <1>4 DEF Unit
  <2> QED
    BY <1>t, <2>1 DEF TypeOK
<1>8. n \in 0 .. Len(units) /\ n + 1 \in Nat \ {0} /\ Len(units) \in 0 .. Len(units)
  BY <1>5
<1>9. SubSeq(units, 1, n) \in Seq(Unit') /\ SubSeq(units, n + 1, Len(units)) \in Seq(Unit')
  BY <1>5, <1>8, Part
<1>10. inbox' \in Seq(Unit') /\ rest' \in Seq(Unit')
  BY <1>6, <1>7, <1>9
<1>11. eof' \in BOOLEAN
  BY Zenon, <1>1, <1>t DEF TypeOK
<1> QED
  BY <1>1, <1>2, <1>3, <1>10, <1>11, ClientInv

\* The client sends the rest of a request, leaves, or does nothing.
LEMMA OtherInv ==
  ASSUME IInv, SendRest \/ Leave \/ UNCHANGED vars
  PROVE  IInv'
<1>t. TypeOK
  BY DEF IInv
<1>1. /\ asked' = asked
      /\ UNCHANGED <<items, driving, ev_flags, state, write_and_go, noreply, input, upload,
                     ileft, output, replies, oom>>
  BY Zenon DEF SendRest, Leave, vars, history
<1>2. Unit' = Unit
  BY Zenon, <1>1, SameUnits
<1>3. inbox' \in Seq(Unit') /\ rest' \in Seq(Unit') /\ eof' \in BOOLEAN
  <2>1. inbox \in Seq(Unit) /\ rest \in Seq(Unit)
    BY <1>t DEF TypeOK
  <2>2. CASE SendRest
    <3>1. inbox' = inbox \o rest /\ rest' = <<>> /\ eof' = eof
      BY Zenon, <2>2 DEF SendRest
    <3>2. inbox' \in Seq(Unit) /\ rest' \in Seq(Unit)
      BY <2>1, <3>1
    <3> QED
      BY Zenon, <1>t, <1>2, <3>1, <3>2 DEF TypeOK
  <2>3. CASE Leave \/ UNCHANGED vars
    BY Zenon, <1>t, <1>2, <2>1, <2>3 DEF Leave, vars, socket, TypeOK
  <2> QED
    BY Zenon, <2>2, <2>3
<1>4. asked' \in Seq(Request) /\ Len(asked') <= MaxRequests /\ Len(asked) <= Len(asked')
  BY <1>1, <1>t DEF TypeOK
<1> QED
  BY <1>1, <1>3, <1>4, ClientInv

-----------------------------------------------------------------------------
LEMMA InitInv ==
  ASSUME Init
  PROVE  IInv
<1>1. TypeOK
  <2>1. /\ inbox \in Seq(Unit) /\ rest \in Seq(Unit) /\ rbuf \in Seq(Unit) /\ asked \in Seq(Request)
        /\ replies \in Seq(Reply) /\ iov \in Seq(Reply) /\ Len(asked) = 0 /\ Len(rbuf) = 0
    BY DEF Init
  <2>2. Len(asked) <= MaxRequests /\ items \in Nat /\ rlbytes \in Nat /\ ileft \in Nat /\ rsize \in Nat
    BY <2>1, ConnAssumption DEF Init
  <2> QED
    BY Zenon, <2>1, <2>2 DEF Init, TypeOK, State
<1>2. Holding
  BY DEF Init, Holding
<1>3. Counted
  BY ConnAssumption DEF Init, Counted, held
<1>4. ~has_line
  BY DEF Init, has_line, newlines
<1>5. Reading
  BY Zenon, <1>4, ConnAssumption DEF Init, Reading
<1>6. WaitsForTheRightEvent
  BY <1>4 DEF Init, WaitsForTheRightEvent
<1> QED
  BY Zenon, <1>1, <1>2, <1>3, <1>5, <1>6 DEF IInv

\* Whatever the client sends, and in whatever pieces, every step of drive_machine
\* keeps the account of what the connection holds and of what it waits for.
THEOREM Invariant == Spec => []IInv
<1>1. Init => IInv
  BY InitInv
<1>2. IInv /\ [Next]_vars => IInv'
  <2> SUFFICES ASSUME IInv, [Next]_vars
               PROVE  IInv'
    OBVIOUS
  <2>1. CASE drive_machine
    BY Zenon, <2>1, ReadCommandInv, NoCommandInv, GrowBufferInv, ReadNetworkInv, ReadNothingInv,
       ReadEndsInv, LeftoversInv, ReadDataInv, WaitForDataInv, CompleteNreadInv, TransmitInv,
       TransmitCompleteInv, CloseInv DEF drive_machine
  <2>2. CASE Fired \/ SendRest \/ Leave \/ UNCHANGED vars
    BY Zenon, <2>2, FiredInv, OtherInv
  <2>3. CASE \E r \in Request : Send(r)
    BY Zenon, <2>3, SendInv
  <2> QED
    BY Zenon, <2>1, <2>2, <2>3 DEF Next
<1> QED
  BY <1>1, <1>2, PTL DEF Spec

\* drive_machine never hands a connection to the event loop with the wrong event
\* or with a complete command unread, whatever the sizes of the buffer.
THEOREM NoMissedWakeUp == Spec => []WaitsForTheRightEvent
<1>1. IInv => WaitsForTheRightEvent
  BY Zenon DEF IInv
<1> QED
  BY <1>1, Invariant, PTL

\* No item buffer is lost, and the read buffer always has room for what is in it,
\* if no get has a key that is too long after a key that exists.
THEOREM ItemsNeverLost ==
  ASSUME NoHitBeforeLongKey
  PROVE  Spec => []ItemsHeld
<1>1. IInv => ItemsHeld
  BY Zenon DEF IInv, Counted, ItemsHeld
<1> QED
  BY <1>1, Invariant, PTL

-----------------------------------------------------------------------------
(***************************************************************************)
(* The answers, in order.  First what is needed of sequences: what is      *)
(* dropped, moved and appended.                                            *)
(***************************************************************************)
LEMMA Regroup ==
  ASSUME NEW S, NEW s \in Seq(S), NEW t \in Seq(S), NEW u \in Seq(S)
  PROVE  (s \o t) \o u = s \o (t \o u)
OBVIOUS

LEMMA Concat ==
  ASSUME NEW S, NEW s \in Seq(S), NEW t \in Seq(S)
  PROVE  /\ s \o t \in Seq(S) /\ Len(s \o t) = Len(s) + Len(t) /\ Len(s) \in Nat /\ Len(t) \in Nat
         /\ \A j \in 1 .. Len(s) : (s \o t)[j] = s[j]
         /\ \A j \in 1 .. Len(t) : (s \o t)[Len(s) + j] = t[j]
OBVIOUS

LEMMA ConcatFront ==
  ASSUME NEW S, NEW s \in Seq(S), NEW t \in Seq(S), NEW j \in 1 .. Len(s)
  PROVE  (s \o t)[j] = s[j]
OBVIOUS

LEMMA ConcatFrontTwo ==
  ASSUME NEW S, NEW s \in Seq(S), NEW t \in Seq(S), Len(s) = 2
  PROVE  (s \o t)[1] = s[1] /\ (s \o t)[2] = s[2]
OBVIOUS

LEMMA ConcatTwo ==
  ASSUME NEW S, NEW s \in Seq(S), NEW t \in Seq(S), Len(t) >= 2
  PROVE  (s \o t)[Len(s) + 1] = t[1] /\ (s \o t)[Len(s) + 2] = t[2]
OBVIOUS

LEMMA Dropped ==
  ASSUME NEW S, NEW s \in Seq(S), NEW n \in 0 .. Len(s)
  PROVE  /\ SubSeq(s, n + 1, Len(s)) \in Seq(S) /\ Len(SubSeq(s, n + 1, Len(s))) = Len(s) - n
         /\ Len(s) \in Nat
         /\ \A j \in 1 .. Len(s) - n : SubSeq(s, n + 1, Len(s))[j] = s[n + j]
BY SMTT(30)

LEMMA Taken ==
  ASSUME NEW S, NEW s \in Seq(S), NEW n \in 0 .. Len(s)
  PROVE  /\ SubSeq(s, 1, n) \in Seq(S) /\ Len(SubSeq(s, 1, n)) = n
         /\ \A j \in 1 .. n : SubSeq(s, 1, n)[j] = s[j]
OBVIOUS

LEMMA Same ==
  ASSUME NEW S, NEW s \in Seq(S), NEW t \in Seq(S), Len(s) = Len(t), \A j \in 1 .. Len(s) : s[j] = t[j]
  PROVE  s = t
OBVIOUS

LEMMA Shifted ==
  ASSUME NEW x \in Nat, NEW n \in Nat, n <= x, NEW len \in Nat, x + 2 <= len
  PROVE  /\ (x - n) + 1 \in 1 .. len - n /\ n + ((x - n) + 1) = x + 1
         /\ (x - n) + 2 \in 1 .. len - n /\ n + ((x - n) + 2) = x + 2
OBVIOUS

LEMMA Inside ==
  ASSUME NEW x \in Nat, NEW len \in Nat, x + 2 <= len
  PROVE  x + 1 \in 1 .. len /\ x + 2 \in 1 .. len
OBVIOUS

\* What is taken from the front of b is appended to a.
LEMMA Rejoin ==
  ASSUME NEW S, NEW a \in Seq(S), NEW b \in Seq(S), NEW n \in 0 .. Len(b)
  PROVE  (a \o SubSeq(b, 1, n)) \o SubSeq(b, n + 1, Len(b)) = a \o b
<1> DEFINE x == SubSeq(b, 1, n)
           y == SubSeq(b, n + 1, Len(b))
<1>1. /\ x \in Seq(S) /\ Len(x) = n /\ \A j \in 1 .. n : x[j] = b[j]
  BY Taken
<1>2. /\ y \in Seq(S) /\ Len(y) = Len(b) - n /\ \A j \in 1 .. Len(b) - n : y[j] = b[n + j]
      /\ Len(b) \in Nat
  BY Dropped
<1> HIDE DEF x, y
<1>3. x \o y = b
  <2>1. /\ x \o y \in Seq(S) /\ Len(x \o y) = Len(b)
        /\ \A j \in 1 .. n : (x \o y)[j] = x[j]
        /\ \A j \in 1 .. Len(y) : (x \o y)[n + j] = y[j]
    BY <1>1, <1>2, Concat
  <2>2. ASSUME NEW j \in 1 .. Len(b)
        PROVE  (x \o y)[j] = b[j]
    <3>1. CASE j \in 1 .. n
      BY <1>1, <2>1, <3>1
    <3>2. CASE j \notin 1 .. n
      <4>1. j - n \in 1 .. Len(b) - n /\ n + (j - n) = j
        BY <1>2, <3>2
      <4> QED
        BY Zenon, <1>2, <2>1, <4>1
    <3> QED
      BY Zenon, <3>1, <3>2
  <2> QED
    BY Zenon, <2>1, <2>2, Same
<1>4. (a \o x) \o y = a \o (x \o y)
  BY SMTT(30), <1>1, <1>2, Regroup
<1> QED
  BY Zenon, <1>3, <1>4 DEF x, y

\* What is dropped from the front of a is dropped from the front of a \o b.
LEMMA DropFront ==
  ASSUME NEW S, NEW a \in Seq(S), NEW b \in Seq(S), NEW n \in 0 .. Len(a)
  PROVE  SubSeq(a, n + 1, Len(a)) \o b = SubSeq(a \o b, n + 1, Len(a \o b))
<1> DEFINE x == SubSeq(a, n + 1, Len(a))
           y == SubSeq(a \o b, n + 1, Len(a \o b))
<1>1. /\ x \in Seq(S) /\ Len(x) = Len(a) - n /\ \A j \in 1 .. Len(a) - n : x[j] = a[n + j]
      /\ Len(a) \in Nat /\ Len(b) \in Nat
  BY Dropped
<1>2. /\ a \o b \in Seq(S) /\ Len(a \o b) = Len(a) + Len(b)
      /\ \A j \in 1 .. Len(a) : (a \o b)[j] = a[j]
      /\ \A j \in 1 .. Len(b) : (a \o b)[Len(a) + j] = b[j]
  BY Concat
<1>3. n \in 0 .. Len(a \o b)
  BY <1>1, <1>2
<1>4. /\ y \in Seq(S) /\ Len(y) = Len(a \o b) - n
      /\ \A j \in 1 .. Len(a \o b) - n : y[j] = (a \o b)[n + j]
  BY <1>2, <1>3, Dropped
<1>s. x \in Seq(S)
  BY <1>1
<1> HIDE DEF x, y
<1>5. /\ x \o b \in Seq(S) /\ Len(x \o b) = Len(x) + Len(b)
      /\ \A j \in 1 .. Len(x) : (x \o b)[j] = x[j]
      /\ \A j \in 1 .. Len(b) : (x \o b)[Len(x) + j] = b[j]
  BY <1>s, Concat
<1>6. Len(x \o b) = Len(y)
  BY <1>1, <1>2, <1>4, <1>5
<1>7. ASSUME NEW j \in 1 .. Len(x \o b)
      PROVE  (x \o b)[j] = y[j]
  <2>1. j \in 1 .. Len(a \o b) - n
    BY <1>1, <1>2, <1>5
  <2>2. CASE j \in 1 .. Len(x)
    <3>1. n + j \in 1 .. Len(a) /\ j \in 1 .. Len(a) - n
      BY <1>1, <2>2
    <3> QED
      BY <1>1, <1>2, <1>4, <1>5, <2>1, <2>2, <3>1
  <2>3. CASE j \notin 1 .. Len(x)
    <3>1. /\ j - Len(x) \in 1 .. Len(b) /\ Len(x) + (j - Len(x)) = j
          /\ Len(a) + (j - Len(x)) = n + j
      BY <1>1, <1>5, <2>3
    <3>2. (x \o b)[j] = b[j - Len(x)] /\ (a \o b)[n + j] = b[j - Len(x)]
      BY Zenon, <1>2, <1>5, <3>1
    <3> QED
      BY Zenon, <1>4, <2>1, <3>2
  <2> QED
    BY <2>2, <2>3
<1>8. x \o b = y
  BY SMTT(30), <1>4, <1>5, <1>6, <1>7, Same
<1> QED
  BY Zenon, <1>8 DEF x, y

\* The beginnings of a sequence.
LEMMA PrefixConcat ==
  ASSUME NEW S, NEW s \in Seq(S), NEW t \in Seq(S)
  PROVE  prefix(s, s \o t)
<1>1. /\ s \o t \in Seq(S) /\ Len(s \o t) = Len(s) + Len(t) /\ Len(s) \in Nat /\ Len(t) \in Nat
      /\ \A j \in 1 .. Len(s) : (s \o t)[j] = s[j]
  BY Concat
<1>2. Len(s) \in 0 .. Len(s \o t) /\ Len(s) <= Len(s \o t)
  BY <1>1
<1>3. /\ SubSeq(s \o t, 1, Len(s)) \in Seq(S) /\ Len(SubSeq(s \o t, 1, Len(s))) = Len(s)
      /\ \A j \in 1 .. Len(s) : SubSeq(s \o t, 1, Len(s))[j] = (s \o t)[j]
  BY <1>1, <1>2, Taken
<1>4. s = SubSeq(s \o t, 1, Len(s))
  BY <1>1, <1>3, Same
<1> QED
  BY <1>2, <1>4 DEF prefix

LEMMA PrefixTrans ==
  ASSUME NEW S, NEW s \in Seq(S), NEW t \in Seq(S), NEW u \in Seq(S), prefix(s, t), prefix(t, u)
  PROVE  prefix(s, u)
<1>1. /\ Len(s) \in 0 .. Len(t) /\ Len(t) \in 0 .. Len(u) /\ Len(s) \in 0 .. Len(u)
      /\ Len(s) <= Len(u) /\ 1 .. Len(s) \subseteq 1 .. Len(t)
  BY DEF prefix
<1>2. s = SubSeq(t, 1, Len(s)) /\ t = SubSeq(u, 1, Len(t))
  BY DEF prefix
<1>3. \A j \in 1 .. Len(s) : s[j] = t[j]
  BY <1>1, <1>2, Taken
<1>4. \A j \in 1 .. Len(t) : t[j] = u[j]
  BY <1>1, <1>2, Taken
<1>5. /\ SubSeq(u, 1, Len(s)) \in Seq(S) /\ Len(SubSeq(u, 1, Len(s))) = Len(s)
      /\ \A j \in 1 .. Len(s) : SubSeq(u, 1, Len(s))[j] = u[j]
  BY <1>1, Taken
<1>6. s = SubSeq(u, 1, Len(s))
  BY <1>1, <1>3, <1>4, <1>5, Same
<1> QED
  BY <1>1, <1>6 DEF prefix

-----------------------------------------------------------------------------
(***************************************************************************)
(* The answers to the first requests.                                      *)
(***************************************************************************)
LEMMA Least ==
  ASSUME NEW S \in SUBSET Nat, S # {}
  PROVE  \E x \in S : \A y \in S : x <= y
<1>1. IsWellFoundedOn(OpToRel(<, Nat), Nat)
  BY Zenon, NatLessThanWellFounded
<1>2. PICK x \in S : \A y \in S : ~(<<y, x>> \in OpToRel(<, Nat))
  BY Zenon, <1>1, WFMin
<1>3. \A y \in S : ~(y < x)
  BY Zenon, <1>2 DEF OpToRel
<1> QED
  BY <1>3

\* f adds the answers up.
Adds(f) == f = [q \in 0 .. Len(asked) |-> IF q = 0 THEN <<>> ELSE f[q - 1] \o answer(q)]

LEMMA AddsUp == (\E f : Adds(f)) => Adds(upto)
BY Zenon DEF Adds, upto

LEMMA AddsUpNext == ((\E f : Adds(f)) => Adds(upto))'
BY AddsUp, PTL

\* ... one by one.
Added(f) ==
  /\ f = [q \in 0 .. Len(asked) |-> f[q]] /\ f[0] = <<>>
  /\ \A q \in 1 .. Len(asked) : f[q] = f[q - 1] \o answer(q)

LEMMA AddedUp == Len(asked) \in Nat /\ (\E f : Adds(f)) => Added(upto)
<1> SUFFICES ASSUME Len(asked) \in Nat, Adds(upto)
             PROVE  Added(upto)
  BY Zenon, AddsUp
<1>1. 0 \in 0 .. Len(asked) /\ \A q \in 1 .. Len(asked) : q \in 0 .. Len(asked) /\ q # 0
  OBVIOUS
<1> DEFINE g == [q \in 0 .. Len(asked) |-> IF q = 0 THEN <<>> ELSE upto[q - 1] \o answer(q)]
<1>2. upto = g
  BY Zenon DEF Adds
<1>3. upto[0] = <<>>
  BY Zenon, <1>1, <1>2
<1>4. ASSUME NEW q \in 1 .. Len(asked)
      PROVE  upto[q] = upto[q - 1] \o answer(q)
  BY Zenon, <1>1, <1>2
<1>5. upto = [q \in 0 .. Len(asked) |-> upto[q]]
  BY Zenon, <1>2
<1> QED
  BY Zenon, <1>3, <1>4, <1>5 DEF Added

LEMMA AddedUpNext == (Len(asked) \in Nat /\ (\E f : Adds(f)) => Added(upto))'
BY AddedUp, PTL

\* Induction: what neither 0 nor a successor is the first of is empty.
LEMMA NoFirst ==
  ASSUME NEW N \in Nat, NEW D \in SUBSET (0 .. N), 0 \notin D,
         \A q \in 1 .. N : q - 1 \notin D => q \notin D
  PROVE  D = {}
<1>1. ASSUME D # {} PROVE FALSE
  <2>1. D \in SUBSET Nat
    OBVIOUS
  <2>2. PICK x \in D : \A y \in D : x <= y
    BY Zenon, <1>1, <2>1, Least
  <2>3. x \in 0 .. N /\ x # 0
    BY Zenon
  <2>4. x \in 1 .. N /\ ~(x <= x - 1)
    BY <2>3
  <2> QED
    BY Zenon, <2>2, <2>4
<1> QED
  BY Zenon, <1>1

\* What an answer is made of.
LEMMA AnswerType ==
  ASSUME TypeOK, NEW q \in 1 .. Len(asked)
  PROVE  answer(q) \in Seq(Reply)
<1>1. /\ asked[q] \in Request /\ asked[q].hits \in Nat
      /\ asked[q].bad \in BOOLEAN /\ asked[q].noreply \in BOOLEAN
  BY Asked
<1>2. asked[q].cmd \in {"get", "update", "line", "quit", "unknown"}
  BY <1>1, ConnAssumption DEF Requests
<1>3. \A w \in {"value", "end", "line", "ERROR"} : reply(q, w) \in Reply
  BY DEF reply, Reply
<1>4. \A w \in {"value", "end", "line", "ERROR"} : <<reply(q, w)>> \in Seq(Reply)
  BY <1>3
<1> DEFINE v == [j \in 1 .. asked[q].hits |-> reply(q, "value")]
<1>5. v \in Seq(Reply)
  BY Zenon, <1>1, Values
<1>6. v \o <<reply(q, "end")>> \in Seq(Reply) /\ <<>> \in Seq(Reply)
  <2> HIDE DEF v
  <2> QED
    BY <1>4, <1>5
<1> QED
  BY Zenon, <1>1, <1>2, <1>4, <1>6 DEF answer

LEMMA AnswerTypes == TypeOK => \A q \in 1 .. Len(asked) : answer(q) \in Seq(Reply)
BY Zenon, AnswerType

LEMMA AnswerTypeNext == (TypeOK => \A q \in 1 .. Len(asked) : answer(q) \in Seq(Reply))'
BY AnswerTypes, PTL

\* The answers are the same as long as the requests are.
LEMMA SumsKept ==
  ASSUME TypeOK, Sums, asked' = asked
  PROVE  Sums' /\ upto' = upto /\ answers' = answers
<1>0. Len(asked) \in Nat /\ Len(asked') = Len(asked)
  BY DEF TypeOK
<1>1. Adds(upto) /\ \A q : answer(q)' = answer(q)
  BY Zenon DEF Sums, Adds, answer, reply
<1>2. (\E f : Adds(f))'
  <2>1. upto = [q \in 0 .. Len(asked') |-> IF q = 0 THEN <<>> ELSE upto[q - 1] \o answer(q)']
    BY Zenon, <1>0, <1>1 DEF Adds
  <2> QED
    BY Zenon, <2>1 DEF Adds
<1>3. Adds(upto)'
  BY Zenon, <1>2, AddsUpNext
<1>4. Added(upto) /\ Added(upto)'
  BY Zenon, <1>0, <1>1, <1>2, AddedUp, AddedUpNext
<1>5. upto' = upto
  <2>1. \A q \in 1 .. Len(asked) : upto[q - 1] = upto'[q - 1] => upto[q] = upto'[q]
    BY Zenon, <1>0, <1>1, <1>4 DEF Added
  <2>2. /\ upto = [q \in 0 .. Len(asked) |-> upto[q]] /\ upto' = [q \in 0 .. Len(asked) |-> upto'[q]]
        /\ upto[0] = upto'[0]
    BY Zenon, <1>0, <1>4 DEF Added
  <2>3. \A q \in 0 .. Len(asked) : upto[q] = upto'[q]
    <3> DEFINE D == {q \in 0 .. Len(asked) : upto[q] # upto'[q]}
    <3>1. D \in SUBSET (0 .. Len(asked)) /\ 0 \notin D
      BY Zenon, <2>2
    <3>2. ASSUME NEW q \in 1 .. Len(asked), q - 1 \notin D
          PROVE  q \notin D
      <4>1. q - 1 \in 0 .. Len(asked)
        BY <1>0
      <4> QED
        BY Zenon, <2>1, <3>2, <4>1
    <3>3. D = {}
      <4> HIDE DEF D
      <4> QED
        BY Zenon, <1>0, <3>1, <3>2, NoFirst
    <3> QED
      BY Zenon, <3>3
  <2> QED
    BY Zenon, <2>2, <2>3
<1>6. answers' = answers
  BY Zenon, <1>0, <1>5 DEF answers
<1>7. Reply' = Reply
  BY Zenon, SameUnits
<1> QED
  BY Zenon, <1>0, <1>1, <1>3, <1>5, <1>6, <1>7 DEF Sums, Adds, prefix

\* A new request adds its answer at the end.
LEMMA SumsSend ==
  ASSUME TypeOK, TypeOK', Sums, NEW r \in Request, asked' = Append(asked, r)
  PROVE  Sums' /\ prefix(answers, answers') /\ \A q \in 0 .. Len(asked) : upto'[q] = upto[q]
<1>n. PICK N \in Nat : N = Len(asked)
  BY DEF TypeOK
<1>0. /\ N \in Nat /\ N = Len(asked) /\ Len(asked') = N + 1 /\ \A q \in 1 .. N : asked'[q] = asked[q]
  BY <1>n DEF TypeOK
<1>1. /\ N \in 0 .. N /\ N + 1 \in 1 .. Len(asked') /\ N + 1 \in 0 .. N + 1 /\ N + 1 # 0 /\ ~(N + 1 <= N)
      /\ (N + 1) - 1 = N /\ Len(asked') \in Nat
      /\ \A q \in 1 .. N : q \in 1 .. N + 1 /\ q - 1 \in 0 .. N /\ q \in 0 .. N /\ q <= N /\ q # 0
      /\ \A q \in 0 .. N + 1 : q = 0 \/ q \in 1 .. N \/ q = N + 1
      /\ \A q \in 0 .. N : q \in 0 .. N + 1 /\ q <= N
      /\ 0 \in 0 .. N
  BY <1>0
<1>2. Added(upto)
  BY Zenon, <1>0, AddedUp DEF Sums, Adds
<1>3. \A q \in 1 .. N : answer(q)' = answer(q)
  BY Zenon, <1>0 DEF answer, reply
<1> DEFINE g == [q \in 0 .. N + 1 |-> IF q <= N THEN upto[q] ELSE upto[N] \o answer(N + 1)']
<1>4. (\E f : Adds(f))'
  <2>1. ASSUME NEW q \in 0 .. N + 1
        PROVE  g[q] = IF q = 0 THEN <<>> ELSE g[q - 1] \o answer(q)'
    <3>1. CASE q = 0
      BY Zenon, <1>1, <1>2, <3>1 DEF Added
    <3>2. CASE q \in 1 .. N
      <4>1. g[q] = upto[q] /\ g[q - 1] = upto[q - 1] /\ q # 0
        BY Zenon, <1>1, <3>2
      <4>2. upto[q] = upto[q - 1] \o answer(q)'
        BY Zenon, <1>0, <1>2, <1>3, <3>2 DEF Added
      <4> QED
        BY Zenon, <4>1, <4>2
    <3>3. CASE q = N + 1
      <4>1. g[N + 1] = upto[N] \o answer(N + 1)' /\ g[(N + 1) - 1] = upto[N]
        BY Zenon, <1>1
      <4>2. g[N + 1] = g[(N + 1) - 1] \o answer(N + 1)'
        BY Zenon, <4>1
      <4> QED
        BY Zenon, <1>1, <3>3, <4>2
    <3> QED
      BY Zenon, <1>1, <3>1, <3>2, <3>3
  <2>2. g = [q \in 0 .. N + 1 |-> g[q]]
    BY Zenon
  <2> HIDE DEF g
  <2>3. g = [q \in 0 .. Len(asked') |-> IF q = 0 THEN <<>> ELSE g[q - 1] \o answer(q)']
    BY Zenon, <1>0, <2>1, <2>2
  <2> QED
    BY Zenon, <2>3 DEF Adds
<1>5. Added(upto)' /\ Adds(upto)'
  BY Zenon, <1>1, <1>4, AddedUpNext, AddsUpNext
<1>6. \A q \in 0 .. N : upto'[q] = upto[q]
  <2> DEFINE D == {q \in 0 .. N : upto[q] # upto'[q]}
  <2>1. D \in SUBSET (0 .. N) /\ 0 \notin D
    BY Zenon, <1>2, <1>5 DEF Added
  <2>2. ASSUME NEW q \in 1 .. N, q - 1 \notin D
        PROVE  q \notin D
    <3>1. upto[q - 1] = upto'[q - 1]
      BY Zenon, <1>1, <2>2
    <3>2. upto[q] = upto[q - 1] \o answer(q) /\ upto'[q] = upto'[q - 1] \o answer(q)'
      BY Zenon, <1>0, <1>1, <1>2, <1>5 DEF Added
    <3> QED
      BY Zenon, <1>3, <3>1, <3>2
  <2>3. D = {}
    <3> HIDE DEF D
    <3> QED
      BY Zenon, <1>0, <2>1, <2>2, NoFirst
  <2> QED
    BY Zenon, <2>3
<1>7. upto'[N + 1] = upto[N] \o answer(N + 1)'
  <2>1. upto'[N + 1] = upto'[(N + 1) - 1] \o answer(N + 1)'
    BY Zenon, <1>1, <1>5 DEF Added
  <2>2. upto'[(N + 1) - 1] = upto'[N] /\ upto'[N] = upto[N]
    BY Zenon, <1>1, <1>6
  <2> QED
    BY Zenon, <2>1, <2>2
<1>8. /\ answers = upto[N] /\ answers' = upto'[N + 1]
  BY Zenon, <1>0 DEF answers
<1>9. /\ answer(N + 1)' \in Seq(Reply') /\ \A q \in 0 .. N : upto[q] \in Seq(Reply')
  <2>1. (\A q \in 1 .. Len(asked) : answer(q) \in Seq(Reply))'
    BY Zenon, AnswerTypeNext
  <2>2. Reply \subseteq Reply'
    BY <1>0 DEF Reply
  <2>3. \A q \in 0 .. N : upto[q] \in Seq(Reply)
    BY Zenon, <1>0 DEF Sums
  <2>4. \A s \in Seq(Reply) : s \in Seq(Reply')
    BY <2>2
  <2> QED
    BY Zenon, <1>1, <2>1, <2>3, <2>4
<1>10. prefix(answers, answers') /\ answers' \in Seq(Reply')
  <2>1. answers \in Seq(Reply') /\ answers' = answers \o answer(N + 1)'
    BY Zenon, <1>1, <1>7, <1>8, <1>9
  <2> QED
    BY <1>9, <2>1, PrefixConcat, Concat
<1>11. prefix(answers', answers')
  <2>1. answers' \o <<>> = answers' /\ <<>> \in Seq(Reply')
    BY <1>10
  <2> QED
    BY Zenon, <1>10, <2>1, PrefixConcat
<1>12. ASSUME NEW q \in 0 .. N
       PROVE  prefix(upto[q], answers')
  <2>1. prefix(upto[q], answers) /\ upto[q] \in Seq(Reply') /\ answers \in Seq(Reply')
    BY Zenon, <1>0, <1>1, <1>8, <1>9 DEF Sums
  <2> QED
    BY Zenon, <1>10, <2>1, PrefixTrans
<1>13. \A q \in 0 .. N + 1 : upto'[q] \in Seq(Reply') /\ prefix(upto'[q], answers')
  <2>1. \A q \in 0 .. N + 1 : q \in 0 .. N \/ q = N + 1
    BY <1>0
  <2> QED
    BY Zenon, <1>6, <1>8, <1>9, <1>10, <1>11, <1>12, <2>1
<1>14. Sums'
  BY Zenon, <1>0, <1>5, <1>13 DEF Sums, Adds
<1> QED
  BY Zenon, <1>6, <1>10, <1>0, <1>14

-----------------------------------------------------------------------------
(***************************************************************************)
(* The places of the requests in the pending bytes.                        *)
(***************************************************************************)
Places(begun, where) ==
  where \in [begun + 1 .. Len(asked) + 1 -> 0 .. Len(pending)] /\ Follows(begun, where)

LEMMA Pending == TypeOK => pending \in Seq(Unit) /\ Len(pending) \in Nat /\ Len(asked) \in Nat
<1> SUFFICES ASSUME TypeOK
             PROVE  pending \in Seq(Unit) /\ Len(pending) \in Nat /\ Len(asked) \in Nat
  OBVIOUS
<1>1. rbuf \in Seq(Unit) /\ inbox \in Seq(Unit) /\ rest \in Seq(Unit) /\ Len(asked) \in Nat
  BY DEF TypeOK
<1>2. rbuf \o inbox \in Seq(Unit)
  BY <1>1
<1>3. (rbuf \o inbox) \o rest \in Seq(Unit)
  BY <1>1, <1>2
<1> QED
  BY <1>1, <1>3 DEF pending

LEMMA Size ==
  ASSUME TypeOK, NEW q \in 1 .. Len(asked)
  PROVE  /\ size(q) \in Nat /\ size(q) >= 2
         /\ IF asked[q].cmd = "update" THEN size(q) = asked[q].len + 2 ELSE size(q) = 2
<1>1. asked[q].len \in Nat
  BY Asked
<1> QED
  BY <1>1 DEF size

LEMMA Sizes == TypeOK => \A q \in 1 .. Len(asked) : size(q) >= 2
BY Zenon, Size

LEMMA SizesNext == (TypeOK => \A q \in 1 .. Len(asked) : size(q) >= 2)'
BY Sizes, PTL

\* A request that has not begun lies within the pending bytes.
LEMMA PlacesWithin ==
  ASSUME TypeOK, NEW begun \in 0 .. Len(asked), NEW where, Places(begun, where),
         NEW q \in begun + 1 .. Len(asked)
  PROVE  /\ where[q] \in Nat /\ where[q] + 2 <= Len(pending) /\ where[begun + 1] <= where[q]
         /\ where[q + 1] = where[q] + size(q) /\ where[begun + 1] \in Nat
<1>0. Len(asked) \in Nat /\ Len(pending) \in Nat
  BY Pending
<1>1. /\ q + 1 \in begun + 1 .. Len(asked) + 1 /\ q \in begun + 1 .. Len(asked) + 1
      /\ begun + 1 \in begun + 1 .. Len(asked) + 1 /\ begun + 1 <= q /\ q \in 1 .. Len(asked)
  BY <1>0
<1>2. /\ where[q] \in 0 .. Len(pending) /\ where[q + 1] \in 0 .. Len(pending)
      /\ where[begun + 1] \in 0 .. Len(pending)
  BY Zenon, <1>1 DEF Places
<1>3. where[q + 1] = where[q] + size(q) /\ where[begun + 1] <= where[q]
  BY Zenon, <1>1 DEF Places, Follows
<1>4. size(q) \in Nat /\ size(q) >= 2
  BY <1>1, Size
<1> QED
  BY SMTT(30), <1>0, <1>2, <1>3, <1>4

\* Bytes of a data block, or a command line, are consumed.
LEMMA PlacesDrop ==
  ASSUME TypeOK, NEW begun \in 0 .. Len(asked), NEW where, Places(begun, where), asked' = asked,
         NEW n \in 0 .. where[begun + 1], pending' = SubSeq(pending, n + 1, Len(pending))
  PROVE  \E w : Places(begun, w)' /\ w[begun + 1] = where[begun + 1] - n
<1> DEFINE dom == begun + 1 .. Len(asked) + 1
<1>w. PICK w : w = [q \in dom |-> where[q] - n]
  BY Zenon
<1>0. Len(asked) \in Nat /\ Len(pending) \in Nat /\ pending \in Seq(Unit)
  BY Pending
<1>1. begun + 1 \in dom /\ Len(asked) + 1 \in dom /\ \A q \in dom : begun + 1 <= q
  BY <1>0
<1>2. ASSUME NEW q \in dom
      PROVE  where[q] \in 0 .. Len(pending) /\ where[begun + 1] <= where[q]
  BY Zenon, <1>1 DEF Places, Follows
<1>3. where[begun + 1] \in 0 .. Len(pending) /\ n \in 0 .. Len(pending)
  BY <1>0, <1>1, <1>2
<1>4. /\ Len(pending') = Len(pending) - n
      /\ \A j \in 1 .. Len(pending) - n : pending'[j] = pending[n + j]
  BY <1>0, <1>3, Dropped
<1>5. ASSUME NEW q \in dom
      PROVE  w[q] = where[q] - n /\ w[q] \in 0 .. Len(pending')
  <2>1. where[q] - n \in 0 .. Len(pending) - n
    BY <1>0, <1>2, <1>3
  <2> QED
    BY Zenon, <1>w, <1>4, <2>1
<1>6. w \in [begun + 1 .. Len(asked') + 1 -> 0 .. Len(pending')]
  BY Zenon, <1>w, <1>5
<1>7. w[Len(asked') + 1] = Len(pending')
  <2>1. where[Len(asked) + 1] = Len(pending)
    BY Zenon DEF Places, Follows
  <2>2. w[Len(asked) + 1] = where[Len(asked) + 1] - n
    BY Zenon, <1>1, <1>5
  <2> QED
    BY Zenon, <1>4, <2>1, <2>2
<1>8. ASSUME NEW p \in dom, NEW q \in dom, p <= q
      PROVE  w[p] <= w[q]
  <2>1. where[p] <= where[q]
    BY Zenon, <1>8 DEF Places, Follows
  <2>2. where[p] - n <= where[q] - n
    <3>1. where[p] \in 0 .. Len(pending) /\ where[q] \in 0 .. Len(pending)
      BY Zenon, <1>2
    <3> QED
      BY <1>0, <1>3, <2>1, <3>1
  <2> QED
    BY Zenon, <1>5, <2>2
<1>9. ASSUME NEW q \in begun + 1 .. Len(asked)
      PROVE  /\ w[q + 1] = w[q] + size(q)
             /\ pending'[w[q] + 1] = line_units(q)[1] /\ pending'[w[q] + 2] = line_units(q)[2]
  <2>1. /\ where[q] \in Nat /\ where[q] + 2 <= Len(pending) /\ where[begun + 1] <= where[q]
        /\ where[q + 1] = where[q] + size(q)
    BY PlacesWithin
  <2>2. q \in dom /\ q + 1 \in dom /\ q \in 1 .. Len(asked)
    BY <1>0
  <2>3. size(q) \in Nat
    BY <2>2, Size
  <2>4. w[q + 1] = w[q] + size(q)
    <3>1. where[q + 1] - n = (where[q] - n) + size(q)
      BY <1>3, <2>1, <2>3
    <3> QED
      BY Zenon, <1>5, <2>2, <3>1
  <2>5. /\ (where[q] - n) + 1 \in 1 .. Len(pending) - n /\ n + ((where[q] - n) + 1) = where[q] + 1
        /\ (where[q] - n) + 2 \in 1 .. Len(pending) - n /\ n + ((where[q] - n) + 2) = where[q] + 2
    <3>1. n \in Nat /\ n <= where[begun + 1] /\ where[begun + 1] \in Nat
      BY <1>3
    <3>2. n <= where[q]
      BY SMTT(30), <2>1, <3>1
    <3> QED
      BY Zenon, <1>0, <2>1, <3>1, <3>2, Shifted
  <2>6. pending'[w[q] + 1] = pending[where[q] + 1] /\ pending'[w[q] + 2] = pending[where[q] + 2]
    BY Zenon, <1>4, <1>5, <2>2, <2>5
  <2> QED
    BY Zenon, <2>4, <2>6 DEF Places, Follows
<1>10. w[begun + 1] = where[begun + 1] - n
  BY Zenon, <1>1, <1>5
<1>11. \A q : size(q)' = size(q)
  BY Zenon DEF size
<1>12. Follows(begun, w)'
  BY Zenon, <1>7, <1>8, <1>9, <1>11 DEF Follows
<1> QED
  BY Zenon, <1>6, <1>10, <1>12 DEF Places

\* The next command begins.
LEMMA PlacesBegin ==
  ASSUME TypeOK, NEW begun \in 0 .. Len(asked), begun # Len(asked), NEW where, Places(begun, where)
  PROVE  \E w : Places(begun + 1, w) /\ w[(begun + 1) + 1] = where[begun + 1] + size(begun + 1)
<1> DEFINE w == [q \in (begun + 1) + 1 .. Len(asked) + 1 |-> where[q]]
<1>0. Len(asked) \in Nat
  BY Pending
<1>1. /\ \A q \in (begun + 1) + 1 .. Len(asked) + 1 : q \in begun + 1 .. Len(asked) + 1
      /\ \A q \in (begun + 1) + 1 .. Len(asked) :
           /\ q \in begun + 1 .. Len(asked) /\ q \in (begun + 1) + 1 .. Len(asked) + 1
           /\ q + 1 \in (begun + 1) + 1 .. Len(asked) + 1
      /\ Len(asked) + 1 \in (begun + 1) + 1 .. Len(asked) + 1
      /\ (begun + 1) + 1 \in (begun + 1) + 1 .. Len(asked) + 1
      /\ begun + 1 \in begun + 1 .. Len(asked)
  BY <1>0
<1>2. w \in [(begun + 1) + 1 .. Len(asked) + 1 -> 0 .. Len(pending)]
  BY Zenon, <1>1 DEF Places
<1>3. \A q \in (begun + 1) + 1 .. Len(asked) + 1 : w[q] = where[q]
  BY Zenon
<1> HIDE DEF w
<1>4. Follows(begun + 1, w)
  <2>1. w[Len(asked) + 1] = Len(pending)
    BY Zenon, <1>1, <1>3 DEF Places, Follows
  <2>2. \A p, q \in (begun + 1) + 1 .. Len(asked) + 1 : p <= q => w[p] <= w[q]
    BY Zenon, <1>1, <1>3 DEF Places, Follows
  <2>3. \A q \in (begun + 1) + 1 .. Len(asked) :
          /\ w[q + 1] = w[q] + size(q)
          /\ pending[w[q] + 1] = line_units(q)[1] /\ pending[w[q] + 2] = line_units(q)[2]
    BY Zenon, <1>1, <1>3 DEF Places, Follows
  <2> QED
    BY Zenon, <2>1, <2>2, <2>3 DEF Follows
<1>5. w[(begun + 1) + 1] = where[begun + 1] + size(begun + 1)
  BY Zenon, <1>1, <1>3 DEF Places, Follows
<1> QED
  BY Zenon, <1>2, <1>4, <1>5 DEF Places

\* A request is sent.
LEMMA PlacesSend ==
  ASSUME TypeOK, TypeOK', NEW r \in Request, asked' = Append(asked, r),
         NEW S, pending \in Seq(S), NEW u \in Seq(S), pending' = pending \o u, Len(u) = size(Len(asked))',
         u[1] = line_units(Len(asked'))[1], u[2] = line_units(Len(asked'))[2],
         NEW begun \in 0 .. Len(asked), NEW where, Places(begun, where)
  PROVE  \E w : Places(begun, w)' /\ w[begun + 1] = where[begun + 1]
<1>n. PICK N \in Nat : N = Len(asked) + 1
  BY Pending
<1>0. /\ Len(asked) = N - 1 /\ N # 0 /\ Len(asked') = N /\ Len(pending) \in Nat
      /\ \A q \in 1 .. N - 1 : asked'[q] = asked[q]
      /\ begun \in 0 .. N - 1 /\ N \in 1 .. Len(asked')
  <2>1. asked \in Seq(Request) /\ Len(asked) \in Nat /\ Len(pending) \in Nat
    BY Zenon, Pending DEF TypeOK
  <2>2. Len(asked') = Len(asked) + 1 /\ \A q \in 1 .. Len(asked) : asked'[q] = asked[q]
    BY <2>1
  <2> QED
    BY <1>n, <2>1, <2>2
<1>2. Len(u) >= 2 /\ Len(u) = size(N)'
  <2>1. (\A q \in 1 .. Len(asked) : size(q) >= 2)'
    BY Zenon, SizesNext
  <2> QED
    BY Zenon, <1>0, <2>1
<1>1. /\ Len(pending') = Len(pending) + Len(u) /\ Len(u) \in Nat
      /\ \A j \in 1 .. Len(pending) : pending'[j] = pending[j]
      /\ pending'[Len(pending) + 1] = u[1] /\ pending'[Len(pending) + 2] = u[2]
  <2>1. Len(pending \o u) = Len(pending) + Len(u) /\ Len(u) \in Nat
    BY Zenon, Concat
  <2>2. \A j \in 1 .. Len(pending) : (pending \o u)[j] = pending[j]
    BY Zenon, ConcatFront
  <2>3. (pending \o u)[Len(pending) + 1] = u[1] /\ (pending \o u)[Len(pending) + 2] = u[2]
    BY Zenon, <1>2, ConcatTwo
  <2> QED
    BY Zenon, <2>1, <2>2, <2>3
<1>w. PICK w : w = [q \in begun + 1 .. N + 1 |-> IF q = N + 1 THEN Len(pending) + Len(u) ELSE where[q]]
  BY Zenon
<1>3. /\ \A q \in begun + 1 .. N : q \in begun + 1 .. N + 1 /\ q # N + 1
      /\ \A q \in begun + 1 .. N + 1 : q \in begun + 1 .. N \/ q = N + 1
      /\ \A q \in begun + 1 .. N - 1 : q \in begun + 1 .. N /\ q + 1 \in begun + 1 .. N /\ q \in 1 .. N - 1
      /\ begun + 1 \in begun + 1 .. N /\ N \in begun + 1 .. N /\ N + 1 \in begun + 1 .. N + 1
      /\ \A q \in begun + 1 .. N : q \in begun + 1 .. N - 1 \/ q = N
      /\ \A q \in begun + 1 .. N : ~(N + 1 <= q)
  BY <1>0
<1>4. /\ \A q \in begun + 1 .. N : w[q] = where[q]
      /\ w[N + 1] = Len(pending) + Len(u)
  BY Zenon, <1>w, <1>3
<1>5. /\ where \in [begun + 1 .. N -> 0 .. Len(pending)] /\ where[N] = Len(pending)
      /\ \A p, q \in begun + 1 .. N : p <= q => where[p] <= where[q]
      /\ \A q \in begun + 1 .. N - 1 :
           /\ where[q + 1] = where[q] + size(q)
           /\ pending[where[q] + 1] = line_units(q)[1] /\ pending[where[q] + 2] = line_units(q)[2]
  BY Zenon, <1>n, <1>0 DEF Places, Follows
<1>6. \A q \in begun + 1 .. N : where[q] \in 0 .. Len(pending)
  BY Zenon, <1>5
<1>7. /\ Len(pending') \in Nat /\ Len(pending) + Len(u) \in 0 .. Len(pending')
      /\ \A x \in 0 .. Len(pending) : x \in 0 .. Len(pending') /\ x <= Len(pending) + Len(u)
      /\ Len(pending) + Len(u) <= Len(pending) + Len(u)
  BY SMTT(30), <1>0, <1>1
<1>8. w \in [begun + 1 .. N + 1 -> 0 .. Len(pending')]
  BY Zenon, <1>w, <1>3, <1>4, <1>6, <1>7
<1>9. \A p, q \in begun + 1 .. N + 1 : p <= q => w[p] <= w[q]
  BY ZenonT(30), <1>3, <1>4, <1>5, <1>6, <1>7
<1>10. ASSUME NEW q \in begun + 1 .. N
       PROVE  /\ w[q + 1] = w[q] + size(q)'
              /\ pending'[w[q] + 1] = line_units(q)[1] /\ pending'[w[q] + 2] = line_units(q)[2]
  <2>1. CASE q \in begun + 1 .. N - 1
    <3>1. w[q + 1] = where[q + 1] /\ w[q] = where[q]
      BY Zenon, <1>3, <1>4, <2>1
    <3>2. size(q)' = size(q)
      BY ZenonT(30), <1>0, <1>3, <2>1 DEF size
    <3>3. where[q] + 1 \in 1 .. Len(pending) /\ where[q] + 2 \in 1 .. Len(pending)
      <4>1. q \in begun + 1 .. Len(asked)
        BY Zenon, <1>0, <2>1
      <4>2. where[q] \in Nat /\ where[q] + 2 <= Len(pending)
        BY <4>1, PlacesWithin
      <4> QED
        BY Zenon, <1>0, <4>2, Inside
    <3> QED
      BY Zenon, <1>1, <1>5, <2>1, <3>1, <3>2, <3>3
  <2>2. CASE q = N
    <3>2. w[N + 1] = w[N] + size(N)' /\ w[N] = Len(pending)
      BY Zenon, <1>2, <1>3, <1>4, <1>5
    <3>3. pending'[Len(pending) + 1] = line_units(N)[1] /\ pending'[Len(pending) + 2] = line_units(N)[2]
      BY Zenon, <1>0, <1>1
    <3> QED
      BY Zenon, <2>2, <3>2, <3>3
  <2> QED
    BY Zenon, <1>3, <2>1, <2>2
<1>11. w[N + 1] = Len(pending')
  BY Zenon, <1>1, <1>4
<1>12. Follows(begun, w)'
  BY Zenon, <1>0, <1>9, <1>10, <1>11 DEF Follows
<1> QED
  BY Zenon, <1>0, <1>3, <1>4, <1>8, <1>12 DEF Places

-----------------------------------------------------------------------------
(***************************************************************************)
(* The steps of the connection.                                            *)
(***************************************************************************)
\* A step that sends no request keeps what there is to answer.
LEMMA AnsweringStep ==
  ASSUME TypeOK, Answering, asked' = asked, rest' = rest \/ rest' = <<>>,
         ~oom' => /\ write_and_go' = "conn_read" /\ prefix(replies', answers)
                  /\ state' \notin {"conn_closing", "closed"} => InOrder'
  PROVE  Answering'
<1>1. Sums' /\ answers' = answers
  BY Zenon, SumsKept DEF Answering
<1>2. \A q : size(q)' = size(q)
  BY Zenon DEF size
<1>3. rest' # <<>> => asked' # <<>> /\ Len(rest') < size(Len(asked))'
  BY Zenon, <1>2 DEF Answering
<1>4. ~oom' => prefix(replies', answers')
  BY Zenon, <1>1
<1> QED
  BY Zenon, <1>1, <1>3, <1>4 DEF Answering, prefix

\* Some of the data block is consumed, or nothing.
LEMMA OrderKept ==
  ASSUME TypeOK, InOrder, asked' = asked, NEW n \in Nat, n <= block_left, block_left' = block_left - n,
         pending' = SubSeq(pending, n + 1, Len(pending)),
         \A b \in 0 .. Len(asked) : Owed(b) => Owed(b)'
  PROVE  InOrder'
<1>0. PICK begun \in 0 .. Len(asked) :
        /\ \E where \in [begun + 1 .. Len(asked) + 1 -> 0 .. Len(pending)] :
             Follows(begun, where) /\ where[begun + 1] = block_left
        /\ Owed(begun)
  BY Zenon DEF InOrder
<1>1. PICK where : Places(begun, where) /\ where[begun + 1] = block_left
  BY Zenon, <1>0 DEF Places
<1>2. Places(begun, where) /\ Owed(begun)
  BY Zenon, <1>0, <1>1
<1>3. block_left \in Nat
  BY DEF TypeOK, block_left
<1>4. n \in 0 .. where[begun + 1]
  BY <1>1, <1>3
<1>5. PICK w : Places(begun, w)' /\ w[begun + 1] = where[begun + 1] - n
  BY Zenon, <1>2, <1>4, PlacesDrop
<1>6. w[begun + 1] = block_left'
  BY Zenon, <1>1, <1>5
<1> QED
  BY Zenon, <1>2, <1>5, <1>6 DEF InOrder, Places

\* What is owed stays the same.
LEMMA OwedKept ==
  ASSUME TypeOK, Sums, UNCHANGED <<asked, state, replies, noreply, item, iovused, iov, wbuf>>, NEW b
  PROVE  Owed(b) => Owed(b)'
<1>1. upto' = upto
  BY Zenon, SumsKept
<1>2. message' = message
  BY Zenon DEF message
<1> QED
  BY Zenon, <1>1, <1>2 DEF Owed

\* Nothing is consumed: bytes only move towards the connection.
LEMMA QuietAnswering ==
  ASSUME TypeOK, Answering, rest' = rest \/ rest' = <<>>, pending' = pending,
         UNCHANGED <<asked, oom, state, replies, noreply, item, iovused, iov, wbuf, write_and_go,
                     rlbytes>>
  PROVE  Answering'
<1>1. Sums
  BY DEF Answering
<1>2. block_left' = block_left /\ block_left \in Nat
  BY DEF block_left, TypeOK
<1>3. block_left' = block_left - 0 /\ 0 <= block_left
  BY <1>2
<1>4. pending' = SubSeq(pending, 0 + 1, Len(pending))
  BY Pending
<1>5. ASSUME InOrder PROVE InOrder'
  BY Zenon, <1>1, <1>3, <1>4, <1>5, OwedKept, OrderKept
<1>6. ~oom' => /\ write_and_go' = "conn_read" /\ prefix(replies', answers)
               /\ state' \notin {"conn_closing", "closed"} => InOrder'
  BY Zenon, <1>5 DEF Answering, prefix
<1> QED
  BY Zenon, <1>6, AnsweringStep

\* The pending bytes, before and after some are read.
LEMMA PendingRead ==
  ASSUME TypeOK, NEW n \in 1 .. Len(inbox), rest' = rest, rbuf' = rbuf \o SubSeq(inbox, 1, n),
         inbox' = SubSeq(inbox, n + 1, Len(inbox))
  PROVE  pending' = pending
<1>1. rbuf \in Seq(Unit) /\ inbox \in Seq(Unit) /\ n \in 0 .. Len(inbox)
  BY DEF TypeOK
<1>2. rbuf' \o inbox' = rbuf \o inbox
  BY Zenon, <1>1, Rejoin
<1> QED
  BY Zenon, <1>2 DEF pending

LEMMA PendingAlt == TypeOK => (rbuf \o inbox) \o rest = rbuf \o (inbox \o rest)
<1>1. TypeOK => rbuf \in Seq(Unit) /\ inbox \in Seq(Unit) /\ rest \in Seq(Unit)
  BY DEF TypeOK
<1> QED
  BY SMTT(30), <1>1, Regroup

LEMMA PendingSent ==
  ASSUME TypeOK, UNCHANGED rbuf, inbox' = inbox \o rest, rest' = <<>>
  PROVE  pending' = pending
<1>1. rbuf \in Seq(Unit) /\ inbox \in Seq(Unit) /\ rest \in Seq(Unit)
  BY DEF TypeOK
<1>2. (rbuf \o inbox) \o rest = rbuf \o (inbox \o rest)
  BY Zenon, PendingAlt
<1>3. rbuf \o (inbox \o rest) \in Seq(Unit)
  BY <1>1
<1>4. (rbuf \o (inbox \o rest)) \o <<>> = rbuf \o (inbox \o rest)
  BY <1>3
<1> QED
  BY Zenon, <1>2, <1>4 DEF pending

\* Bytes are consumed from the read buffer, or from the socket.
LEMMA PendingDrop ==
  ASSUME TypeOK, NEW n \in Nat, rest' = rest,
         \/ n \in 0 .. Len(rbuf) /\ rbuf' = SubSeq(rbuf, n + 1, Len(rbuf)) /\ inbox' = inbox
         \/ rbuf = <<>> /\ rbuf' = <<>> /\ n \in 0 .. Len(inbox) /\ inbox' = SubSeq(inbox, n + 1, Len(inbox))
  PROVE  pending' = SubSeq(pending, n + 1, Len(pending))
<1>1. rbuf \in Seq(Unit) /\ inbox \in Seq(Unit) /\ rest \in Seq(Unit) /\ rbuf \o inbox \in Seq(Unit)
      /\ Len(rbuf) \in Nat /\ Len(inbox) \in Nat /\ Len(rbuf \o inbox) = Len(rbuf) + Len(inbox)
  BY DEF TypeOK
<1>2. /\ n \in 0 .. Len(rbuf \o inbox)
      /\ rbuf' \o inbox' = SubSeq(rbuf \o inbox, n + 1, Len(rbuf \o inbox))
  <2>1. CASE n \in 0 .. Len(rbuf) /\ rbuf' = SubSeq(rbuf, n + 1, Len(rbuf)) /\ inbox' = inbox
    <3>1. n \in 0 .. Len(rbuf \o inbox)
      BY <1>1, <2>1
    <3> QED
      BY Zenon, <1>1, <2>1, <3>1, DropFront
  <2>2. CASE rbuf = <<>> /\ rbuf' = <<>> /\ n \in 0 .. Len(inbox) /\ inbox' = SubSeq(inbox, n + 1, Len(inbox))
    <3>1. rbuf \o inbox = inbox
      BY <1>1, <2>2
    <3>2. SubSeq(inbox, n + 1, Len(inbox)) \in Seq(Unit)
      BY <1>1, <2>2, Dropped
    <3>3. rbuf' \o inbox' = SubSeq(inbox, n + 1, Len(inbox))
      BY <2>2, <3>2
    <3> QED
      BY Zenon, <2>2, <3>1, <3>3
  <2> QED
    BY Zenon, <2>1, <2>2
<1>3. SubSeq(rbuf \o inbox, n + 1, Len(rbuf \o inbox)) \o rest
        = SubSeq((rbuf \o inbox) \o rest, n + 1, Len((rbuf \o inbox) \o rest))
  BY Zenon, <1>1, <1>2, DropFront
<1> QED
  BY Zenon, <1>2, <1>3 DEF pending

\* The steps that consume nothing.
LEMMA QuietSteps ==
  ASSUME TypeOK, Answering,
         NoCommand \/ ReadNetwork \/ ReadNothing \/ WaitForData \/ Fired \/ SendRest \/ Leave
           \/ UNCHANGED vars
  PROVE  Answering'
<1> USE DEF socket, history, input, upload, output
<1>1. CASE NoCommand \/ ReadNothing \/ WaitForData \/ Fired \/ Leave \/ UNCHANGED vars
  <2>1. UNCHANGED <<asked, oom, state, replies, noreply, item, iovused, iov, wbuf, write_and_go,
                    rlbytes, rbuf, inbox, rest>>
    BY Zenon, <1>1 DEF NoCommand, ReadNothing, WaitForData, Fired, Leave, vars
  <2>2. pending' = pending
    BY Zenon, <2>1 DEF pending
  <2> QED
    BY Zenon, <2>1, <2>2, QuietAnswering
<1>2. CASE ReadNetwork
  <2>1. UNCHANGED <<asked, oom, state, replies, noreply, item, iovused, iov, wbuf, write_and_go,
                    rlbytes, rest>>
    BY Zenon, <1>2 DEF ReadNetwork
  <2>2. pending' = pending
    BY Zenon, <1>2, PendingRead DEF ReadNetwork
  <2> QED
    BY Zenon, <2>1, <2>2, QuietAnswering
<1>3. CASE SendRest
  <2>1. UNCHANGED <<asked, oom, state, replies, noreply, item, iovused, iov, wbuf, write_and_go,
                    rlbytes, rbuf>>
    BY Zenon, <1>3 DEF SendRest
  <2>2. pending' = pending /\ rest' = <<>>
    BY Zenon, <1>3, <2>1, PendingSent DEF SendRest
  <2> QED
    BY Zenon, <2>1, <2>2, QuietAnswering
<1> QED
  BY Zenon, <1>1, <1>2, <1>3

LEMMA GrowBufferAnswering ==
  ASSUME TypeOK, Answering, GrowBuffer
  PROVE  Answering'
<1>u. UNCHANGED <<asked, replies, item, iovused, iov, rlbytes, inbox, rest>>
  BY Zenon DEF GrowBuffer, socket, upload
<1>1. CASE oom' = TRUE
  BY Zenon, <1>u, <1>1, AnsweringStep
<1>2. CASE UNCHANGED <<rbuf, reading, state, wbuf, write_and_go, noreply, oom>>
  <2>1. pending' = pending
    BY Zenon, <1>u, <1>2 DEF pending
  <2> QED
    BY Zenon, <1>u, <1>2, <2>1, QuietAnswering
<1> QED
  BY Zenon, <1>1, <1>2 DEF GrowBuffer

\* The connection is closed.
LEMMA ClosingSteps ==
  ASSUME TypeOK, Answering, ReadEnds \/ TransmitFails \/ Close
  PROVE  Answering'
<1>1. /\ UNCHANGED <<asked, replies, oom, write_and_go, rest>>
      /\ state' \in {"conn_closing", "closed"}
  BY Zenon DEF ReadEnds, TransmitFails, Close, socket, history
<1>2. ~oom' => write_and_go' = "conn_read" /\ prefix(replies', answers)
  BY Zenon, <1>1 DEF Answering, prefix
<1> QED
  BY Zenon, <1>1, <1>2, AnsweringStep

\* A part of the data block is consumed.
LEMMA DataSteps ==
  ASSUME TypeOK, Answering, Leftovers \/ ReadData
  PROVE  Answering'
<1>u. /\ state = "conn_nread"
      /\ UNCHANGED <<asked, oom, state, replies, noreply, item, iovused, iov, wbuf, write_and_go, rest>>
  BY Zenon DEF Leftovers, ReadData, socket, history, output
<1>t. /\ rbuf \in Seq(Unit) /\ Len(rbuf) \in Nat /\ Len(inbox) \in Nat /\ rlbytes \in Nat
  BY DEF TypeOK
<1>1. \E n \in Nat :
        /\ n <= rlbytes /\ rlbytes' = rlbytes - n
        /\ \/ n \in 0 .. Len(rbuf) /\ rbuf' = SubSeq(rbuf, n + 1, Len(rbuf)) /\ inbox' = inbox
           \/ rbuf = <<>> /\ rbuf' = <<>> /\ n \in 0 .. Len(inbox) /\ inbox' = SubSeq(inbox, n + 1, Len(inbox))
  <2>1. CASE Leftovers
    <3>1. PICK n : n = IF Len(rbuf) > rlbytes THEN rlbytes ELSE Len(rbuf)
      BY Zenon
    <3>2. n \in Nat /\ n <= rlbytes /\ n \in 0 .. Len(rbuf)
      BY <1>t, <3>1
    <3>3. rlbytes' = rlbytes - n /\ rbuf' = SubSeq(rbuf, n + 1, Len(rbuf)) /\ inbox' = inbox
      BY Zenon, <2>1, <3>1 DEF Leftovers, socket
    <3> QED
      BY Zenon, <3>2, <3>3
  <2>2. CASE ReadData
    <3>1. PICK n \in 1 .. Len(inbox) : /\ n <= rlbytes /\ rlbytes' = rlbytes - n
                                       /\ inbox' = SubSeq(inbox, n + 1, Len(inbox))
      BY Zenon, <2>2 DEF ReadData
    <3>2. rbuf = <<>> /\ rbuf' = <<>>
      BY Zenon, <2>2 DEF ReadData, input
    <3>3. n \in Nat /\ n \in 0 .. Len(inbox)
      BY <1>t
    <3> QED
      BY Zenon, <3>1, <3>2, <3>3
  <2> QED
    BY Zenon, <2>1, <2>2
<1>2. PICK n \in Nat :
        /\ n <= rlbytes /\ rlbytes' = rlbytes - n
        /\ \/ n \in 0 .. Len(rbuf) /\ rbuf' = SubSeq(rbuf, n + 1, Len(rbuf)) /\ inbox' = inbox
           \/ rbuf = <<>> /\ rbuf' = <<>> /\ n \in 0 .. Len(inbox) /\ inbox' = SubSeq(inbox, n + 1, Len(inbox))
  BY Zenon, <1>1
<1>3. pending' = SubSeq(pending, n + 1, Len(pending))
  BY Zenon, <1>u, <1>2, PendingDrop
<1>4. block_left = rlbytes /\ block_left' = rlbytes'
  BY Zenon, <1>u DEF block_left
<1>5. n <= block_left /\ block_left' = block_left - n
  BY Zenon, <1>2, <1>4
<1>6. Sums
  BY DEF Answering
<1>7. ASSUME InOrder PROVE InOrder'
  BY Zenon, <1>u, <1>3, <1>5, <1>6, <1>7, OwedKept, OrderKept
<1>8. ~oom' => /\ write_and_go' = "conn_read" /\ prefix(replies', answers)
               /\ state' \notin {"conn_closing", "closed"} => InOrder'
  BY Zenon, <1>u, <1>7 DEF Answering, prefix
<1> QED
  BY Zenon, <1>u, <1>8, AnsweringStep

\* Parts of the message are sent, in their order.
LEMMA TransmitAnswering ==
  ASSUME IInv, Answering, Transmit \/ TransmitBlocks
  PROVE  Answering'
<1>t. TypeOK /\ Sums /\ Reply' = Reply
  BY Zenon, SameUnits DEF IInv, Answering, Transmit, TransmitBlocks, history
<1>u. /\ state \in {"conn_write", "conn_mwrite"} /\ iovused' = TRUE
      /\ UNCHANGED <<asked, oom, state, noreply, item, wbuf, write_and_go, rest, rbuf, inbox, rlbytes>>
  BY Zenon DEF Transmit, TransmitBlocks, history, socket, input, upload
<1>m. message \in Seq(Reply) /\ replies \in Seq(Reply) /\ message' = iov'
  BY Zenon, <1>u, <1>t, Message DEF TypeOK, message
<1>1. /\ replies' \in Seq(Reply) /\ iov' \in Seq(Reply)
      /\ replies' \o iov' = replies \o message
  <2>1. CASE Transmit
    <3>1. PICK n \in 1 .. Len(message) : /\ replies' = replies \o SubSeq(message, 1, n)
                                         /\ iov' = SubSeq(message, n + 1, Len(message))
      BY Zenon, <2>1 DEF Transmit
    <3>2. n \in 0 .. Len(message)
      BY <1>m
    <3>3. SubSeq(message, 1, n) \in Seq(Reply) /\ iov' \in Seq(Reply)
      BY Zenon, <1>m, <3>1, <3>2, Taken, Dropped
    <3>4. replies \o SubSeq(message, 1, n) \in Seq(Reply)
      BY Zenon, <1>m, <3>3, Concat
    <3>5. (replies \o SubSeq(message, 1, n)) \o SubSeq(message, n + 1, Len(message)) = replies \o message
      BY Zenon, <1>m, <3>2, Rejoin
    <3> QED
      BY Zenon, <3>1, <3>3, <3>4, <3>5
  <2>2. CASE TransmitBlocks
    BY Zenon, <1>m, <2>2 DEF TransmitBlocks, history
  <2> QED
    BY Zenon, <2>1, <2>2
<1>2. ASSUME NEW b \in 0 .. Len(asked), Owed(b)
      PROVE  Owed(b)' /\ prefix(replies', answers)
  <2>1. replies \o message = upto[b] /\ ~noreply /\ upto' = upto
    BY Zenon, <1>u, <1>t, <1>2, SumsKept DEF Owed
  <2>2. replies' \o message' = upto'[b]
    BY Zenon, <1>1, <1>m, <2>1
  <2>3. Owed(b)'
    BY Zenon, <1>u, <2>1, <2>2 DEF Owed
  <2>4. prefix(replies', upto[b]) /\ prefix(upto[b], answers) /\ upto[b] \in Seq(Reply)
    <3>1. prefix(replies', replies' \o iov')
      BY Zenon, <1>1, PrefixConcat
    <3> QED
      BY Zenon, <1>1, <1>t, <2>1, <3>1 DEF Sums
  <2>5. answers \in Seq(Reply)
    <3>1. Len(asked) \in 0 .. Len(asked)
      BY <1>t DEF TypeOK
    <3> QED
      BY Zenon, <1>t, <3>1 DEF Sums, answers
  <2>6. prefix(replies', answers)
    BY Zenon, <1>1, <2>4, <2>5, PrefixTrans
  <2> QED
    BY Zenon, <2>3, <2>6
<1>3. block_left' = 0 /\ block_left = 0
  BY Zenon, <1>u DEF block_left
<1>4. pending' = pending
  BY Zenon, <1>u DEF pending
<1>5. /\ 0 <= block_left /\ block_left' = block_left - 0
      /\ pending' = SubSeq(pending, 0 + 1, Len(pending))
  BY <1>t, <1>3, <1>4, Pending
<1>6. ASSUME InOrder PROVE InOrder' /\ prefix(replies', answers)
  <2>1. InOrder'
    BY Zenon, <1>t, <1>u, <1>2, <1>5, <1>6, OrderKept
  <2> QED
    BY Zenon, <1>2, <1>6, <2>1 DEF InOrder
<1>7. ~oom' => /\ write_and_go' = "conn_read" /\ prefix(replies', answers)
               /\ state' \notin {"conn_closing", "closed"} => InOrder'
  BY Zenon, <1>u, <1>6 DEF Answering
<1> QED
  BY Zenon, <1>t, <1>u, <1>7, AnsweringStep

LEMMA TransmitCompleteAnswering ==
  ASSUME IInv, Answering, TransmitComplete
  PROVE  Answering'
<1>t. TypeOK /\ Sums
  BY Zenon DEF IInv, Answering
<1>u. /\ state \in {"conn_write", "conn_mwrite"} /\ message = <<>>
      /\ state' = "conn_read" \/ state' = write_and_go
      /\ UNCHANGED <<asked, oom, replies, noreply, write_and_go, rest, rbuf, inbox>>
  BY Zenon DEF TransmitComplete, history, socket, conn_set_state
<1>1. CASE oom
  BY Zenon, <1>t, <1>u, <1>1, AnsweringStep
<1>2. CASE ~oom
  <2>1. /\ state' = "conn_read" /\ InOrder /\ write_and_go = "conn_read" /\ prefix(replies, answers)
    BY Zenon, <1>u, <1>2 DEF Answering
  <2>2. ASSUME NEW b \in 0 .. Len(asked), Owed(b)
        PROVE  Owed(b)'
    <3>1. replies \o <<>> = upto[b] /\ ~noreply /\ upto' = upto
      BY Zenon, <1>u, <1>t, <2>2, SumsKept DEF Owed
    <3>2. replies \o <<>> = replies
      BY <1>t DEF TypeOK
    <3> QED
      BY Zenon, <1>u, <2>1, <3>1, <3>2 DEF Owed
  <2>3. block_left' = 0 /\ block_left = 0
    BY Zenon, <1>u, <2>1 DEF block_left
  <2>4. pending' = pending
    BY Zenon, <1>u DEF pending
  <2>5. /\ 0 <= block_left /\ block_left' = block_left - 0
        /\ pending' = SubSeq(pending, 0 + 1, Len(pending))
    BY <1>t, <2>3, <2>4, Pending
  <2>6. InOrder'
    BY Zenon, <1>t, <1>u, <2>1, <2>2, <2>5, OrderKept
  <2>7. write_and_go' = "conn_read" /\ prefix(replies', answers)
    BY Zenon, <1>u, <2>1 DEF prefix
  <2> QED
    BY Zenon, <1>t, <1>u, <2>6, <2>7, AnsweringStep
<1> QED
  BY Zenon, <1>1, <1>2

\* A command with an answer of one line, or none.
LEMMA OneLine ==
  ASSUME TypeOK, Sums, asked' = asked, replies' = replies, NEW q \in 1 .. Len(asked),
         replies = upto[q - 1], NEW what, NEW quiet \in BOOLEAN, out_string(q, what, quiet),
         iovused' = FALSE, answer(q) = IF quiet THEN <<>> ELSE <<reply(q, what)>>,
         write_and_go = "conn_read"
  PROVE  Owed(q)' /\ block_left' = 0 /\ write_and_go' = "conn_read"
         /\ state' \in {"conn_read", "conn_write"}
<1>1. upto' = upto /\ Added(upto) /\ Len(asked) \in Nat
  BY Zenon, SumsKept, AddedUp, Pending DEF Sums, Adds
<1>2. upto[q] = replies \o answer(q)
  BY Zenon, <1>1 DEF Added
<1>3. CASE quiet
  <2>1. noreply' = FALSE /\ state' = "conn_read" /\ write_and_go' = write_and_go
    BY Zenon, <1>3 DEF out_string, conn_set_state
  <2>2. replies \o <<>> = replies
    BY DEF TypeOK
  <2>3. replies' = upto'[q]
    BY Zenon, <1>1, <1>2, <1>3, <2>2
  <2> QED
    BY Zenon, <2>1, <2>3 DEF Owed, block_left
<1>4. CASE ~quiet
  <2>1. /\ noreply' = FALSE /\ state' = "conn_write" /\ write_and_go' = "conn_read"
        /\ wbuf' = reply(q, what)
    BY Zenon, <1>4 DEF out_string, conn_set_state
  <2>2. message' = <<reply(q, what)>>
    BY Zenon, <2>1 DEF message
  <2>3. replies' \o message' = upto'[q]
    BY Zenon, <1>1, <1>2, <1>4, <2>2
  <2> QED
    BY Zenon, <2>1, <2>3 DEF Owed, block_left
<1> QED
  BY Zenon, <1>3, <1>4

LEMMA CompleteNreadAnswering ==
  ASSUME IInv, Answering, CompleteNread
  PROVE  Answering'
<1>t. TypeOK /\ Sums
  BY Zenon DEF IInv, Answering
<1>u. /\ state = "conn_nread" /\ rlbytes = 0 /\ out_string(item, "line", noreply)
      /\ UNCHANGED <<asked, oom, replies, rest, rbuf, inbox, iovused>>
  BY Zenon DEF CompleteNread, history, socket
<1>1. CASE oom
  BY Zenon, <1>t, <1>u, <1>1, AnsweringStep
<1>2. CASE ~oom
  <2>1. InOrder /\ write_and_go = "conn_read" /\ prefix(replies, answers)
    BY Zenon, <1>u, <1>2 DEF Answering
  <2>2. item \in 1 .. Len(asked) /\ noreply \in BOOLEAN
    BY Zenon, <1>t, <1>u DEF IInv, Holding, TypeOK
  <2>3. ASSUME NEW b \in 0 .. Len(asked), Owed(b)
        PROVE  /\ Owed(b)' /\ block_left' = 0 /\ write_and_go' = "conn_read"
               /\ state' \in {"conn_read", "conn_write"}
    <3>1. /\ b = item /\ replies = upto[b - 1] /\ iovused' = FALSE /\ asked[b].cmd = "update"
          /\ noreply = asked[b].noreply /\ b \in 1 .. Len(asked)
      BY Zenon, <1>u, <1>t, <2>2, <2>3 DEF Owed, TypeOK
    <3>2. answer(b) = IF noreply THEN <<>> ELSE <<reply(b, "line")>>
      BY Zenon, <3>1 DEF answer
    <3> QED
      BY Zenon, <1>t, <1>u, <2>1, <2>2, <3>1, <3>2, OneLine
  <2>4. block_left = 0 /\ pending' = pending
    BY Zenon, <1>u DEF block_left, pending
  <2>5. /\ block_left' = 0 /\ write_and_go' = "conn_read"
    BY Zenon, <2>1, <2>3 DEF InOrder
  <2>6. /\ 0 <= block_left /\ block_left' = block_left - 0
        /\ pending' = SubSeq(pending, 0 + 1, Len(pending))
    BY <1>t, <2>4, <2>5, Pending
  <2>7. InOrder'
    BY Zenon, <1>t, <1>u, <2>1, <2>3, <2>6, OrderKept
  <2>8. prefix(replies', answers)
    BY Zenon, <1>u, <2>1 DEF prefix
  <2> QED
    BY Zenon, <1>t, <1>u, <2>5, <2>7, <2>8, AnsweringStep
<1> QED
  BY Zenon, <1>1, <1>2

\* A command is answered, begins to read its data block, or closes the connection.
LEMMA CommandAnswers ==
  ASSUME WellFormed, TypeOK, Sums, asked' = asked, replies' = replies, NEW q \in 1 .. Len(asked),
         replies = upto[q - 1], ~noreply, write_and_go = "conn_read", ~oom',
         process_command(line_units(q))
  PROVE  /\ write_and_go' = "conn_read"
         /\ state' # "conn_closing" => Owed(q)' /\ block_left' = size(q) - 2
<1>1. upto' = upto /\ Added(upto) /\ Len(asked) \in Nat
  BY Zenon, SumsKept, AddedUp, Pending DEF Sums, Adds
<1>2. upto[q] = replies \o answer(q)
  BY Zenon, <1>1 DEF Added
<1>3. /\ asked[q] \in Request /\ asked[q].hits \in Nat /\ asked[q].len \in Nat
      /\ asked[q].bad \in BOOLEAN /\ asked[q].noreply \in BOOLEAN /\ noreply \in BOOLEAN
  BY Zenon, Asked DEF TypeOK
<1>4. command_of(line_units(q)) = q /\ line_units(q)[1].req = q
  BY Zenon DEF command_of, line_units
<1>5. q # NULL
  BY ConnAssumption
<1>6. asked[q].cmd # "update" => size(q) - 2 = 0
  BY DEF size
<1>7. CASE asked[q].cmd = "get" /\ (process_get_command(q, asked[q].hits) \/ get_out_of_memory(q))
  <2>0. process_get_command(q, asked[q].hits)
    BY Zenon, <1>7 DEF get_out_of_memory
  <2>1. CASE asked[q].bad
    <3>1. asked[q].hits = 0
      BY ZenonT(30), <1>3, <1>7, <2>1 DEF WellFormed, NoHitBeforeLongKey
    <3>2. out_string(q, "line", noreply) /\ iovused' = FALSE
      BY <1>3, <2>0, <2>1, <3>1 DEF process_get_command
    <3>3. answer(q) = IF noreply THEN <<>> ELSE <<reply(q, "line")>>
      BY Zenon, <1>7, <2>1 DEF answer
    <3> QED
      BY Zenon, <1>3, <1>6, <1>7, <3>2, <3>3, OneLine
  <2>2. CASE ~asked[q].bad
    <3> DEFINE v == [j \in 1 .. asked[q].hits |-> reply(q, "value")]
    <3>1. /\ iov' = Append(v, reply(q, "end")) /\ state' = "conn_mwrite" /\ noreply' = FALSE
          /\ write_and_go' = "conn_read"
      BY Zenon, <1>3, <2>0, <2>2 DEF process_get_command, conn_set_state
    <3>2. answer(q) = v \o <<reply(q, "end")>>
      BY Zenon, <1>7, <2>2 DEF answer
    <3>3. Append(v, reply(q, "end")) = v \o <<reply(q, "end")>>
      <4>1. v \in Seq(Reply)
        BY Zenon, <1>3, Values
      <4>2. reply(q, "end") \in Reply
        BY DEF reply, Reply
      <4> HIDE DEF v
      <4> QED
        BY <4>1, <4>2
    <3>4. message' = answer(q)
      BY Zenon, <3>1, <3>2, <3>3 DEF message
    <3>5. replies' \o message' = upto'[q]
      BY Zenon, <1>1, <1>2, <3>4
    <3> QED
      BY Zenon, <1>6, <1>7, <3>1, <3>5 DEF Owed, block_left
  <2> QED
    BY Zenon, <2>1, <2>2
<1>8. CASE asked[q].cmd = "update" /\ process_update_command(q)
  <2>1. ~asked[q].bad
    BY Zenon, <1>3, <1>8 DEF WellFormed
  <2>2. /\ item' = q /\ rlbytes' = asked[q].len /\ noreply' = (noreply \/ asked[q].noreply)
        /\ state' = "conn_nread" /\ iovused' = FALSE /\ write_and_go' = write_and_go
    BY Zenon, <1>8, <2>1 DEF process_update_command, conn_set_state
  <2>3. noreply' = asked[q].noreply
    BY Zenon, <1>3, <2>2
  <2>4. Owed(q)'
    BY Zenon, <1>1, <1>8, <2>2, <2>3 DEF Owed
  <2>5. block_left' = asked[q].len
    BY Zenon, <2>2 DEF block_left
  <2>6. size(q) - 2 = asked[q].len
    BY <1>3, <1>8 DEF size
  <2> QED
    BY Zenon, <2>2, <2>4, <2>5, <2>6
<1>9. CASE asked[q].cmd = "line" /\ process_line(q, "line")
  <2>1. PICK quiet \in BOOLEAN : quiet = (noreply \/ ("line" = "line" /\ asked[q].noreply))
    BY Zenon
  <2>2. out_string(q, "line", quiet) /\ iovused' = FALSE /\ quiet = asked[q].noreply
    BY Zenon, <1>3, <1>9, <2>1 DEF process_line
  <2>3. answer(q) = IF quiet THEN <<>> ELSE <<reply(q, "line")>>
    BY Zenon, <1>9, <2>2 DEF answer
  <2> QED
    BY Zenon, <1>6, <1>9, <2>2, <2>3, OneLine
<1>10. CASE asked[q].cmd = "quit" /\ process_quit
  BY Zenon, <1>10 DEF process_quit, conn_set_state
<1>11. CASE asked[q].cmd = "unknown" /\ process_line(q, "ERROR")
  <2>1. PICK quiet \in BOOLEAN : quiet = (noreply \/ ("ERROR" = "line" /\ asked[q].noreply))
    BY Zenon
  <2>2. out_string(q, "ERROR", quiet) /\ iovused' = FALSE
    BY Zenon, <1>11, <2>1 DEF process_line
  <2>3. quiet = FALSE
    BY Zenon, <2>1
  <2>4. answer(q) = IF quiet THEN <<>> ELSE <<reply(q, "ERROR")>>
    BY Zenon, <1>11, <2>3 DEF answer
  <2> QED
    BY Zenon, <1>6, <1>11, <2>2, <2>4, OneLine
<1> QED
  BY Zenon, <1>4, <1>5, <1>7, <1>8, <1>9, <1>10, <1>11 DEF process_command

LEMMA FrontTwo ==
  ASSUME NEW S, NEW s \in Seq(S), 2 \in 1 .. Len(s)
  PROVE  SubSeq(s, 1, 2) = <<s[1], s[2]>>
<1>1. Len(s) \in Nat /\ Len(s) >= 2 /\ s[1] \in S /\ s[2] \in S
  OBVIOUS
<1>2. SubSeq(s, 1, 2) = [j \in 1 .. 2 |-> s[j]]
  BY <1>1
<1>3. <<s[1], s[2]>> = [j \in 1 .. 2 |-> s[j]]
  BY <1>1
<1> QED
  BY Zenon, <1>2, <1>3

\* The next command line is the first line in the read buffer.
LEMMA NextLine ==
  ASSUME TypeOK, NEW begun \in 0 .. Len(asked), NEW where, Places(begun, where),
         where[begun + 1] = 0, NEW n \in newlines, first_line(n)
  PROVE  /\ begun # Len(asked) /\ n = 2 /\ 2 \in 0 .. Len(rbuf)
         /\ SubSeq(rbuf, 1, n) = line_units(begun + 1)
<1>t. /\ rbuf \in Seq(Unit) /\ inbox \in Seq(Unit) /\ rest \in Seq(Unit) /\ rbuf \o inbox \in Seq(Unit)
      /\ Len(rbuf) \in Nat /\ Len(pending) \in Nat /\ Len(asked) \in Nat
  BY Pending DEF TypeOK
<1>1. n \in 1 .. Len(rbuf) /\ rbuf[n].nl
  BY Zenon DEF newlines
<1>2. Len(rbuf) <= Len(pending) /\ \A j \in 1 .. Len(rbuf) : pending[j] = rbuf[j]
  <2>1. /\ Len(rbuf \o inbox) = Len(rbuf) + Len(inbox) /\ Len(inbox) \in Nat /\ Len(rest) \in Nat
        /\ Len((rbuf \o inbox) \o rest) = Len(rbuf \o inbox) + Len(rest)
    BY Zenon, <1>t, Concat
  <2>2. ASSUME NEW j \in 1 .. Len(rbuf)
        PROVE  pending[j] = rbuf[j]
    <3>1. j \in 1 .. Len(rbuf \o inbox)
      BY <1>t, <2>1
    <3>2. (rbuf \o inbox)[j] = rbuf[j]
      BY Zenon, <1>t, ConcatFront
    <3>3. ((rbuf \o inbox) \o rest)[j] = (rbuf \o inbox)[j]
      BY Zenon, <1>t, <3>1, ConcatFront
    <3> QED
      BY Zenon, <3>2, <3>3 DEF pending
  <2>3. Len(rbuf) <= Len(pending)
    BY <1>t, <2>1 DEF pending
  <2> QED
    BY Zenon, <2>2, <2>3
<1>3. begun # Len(asked)
  <2>1. Len(pending) # 0
    BY <1>t, <1>1, <1>2
  <2> QED
    BY Zenon, <2>1 DEF Places, Follows
<1>4. begun + 1 \in begun + 1 .. Len(asked)
  BY <1>t, <1>3
<1>5. pending[0 + 1] = line_units(begun + 1)[1] /\ pending[0 + 2] = line_units(begun + 1)[2]
  BY Zenon, <1>4 DEF Places, Follows
<1>6. /\ line_units(begun + 1) = <<[req |-> begun + 1, part |-> "cmd", nl |-> FALSE],
                                   [req |-> begun + 1, part |-> "cmd", nl |-> TRUE]>>
  BY Zenon DEF line_units
<1>7. pending[1].nl = FALSE /\ pending[2].nl = TRUE
  BY <1>5, <1>6
<1>8. n # 1
  <2>1. 1 \in 1 .. Len(rbuf)
    BY <1>t, <1>1
  <2> QED
    BY Zenon, <1>1, <1>2, <1>7, <2>1
<1>9. 2 \in 1 .. Len(rbuf) /\ n >= 2 /\ 1 \in 1 .. Len(rbuf) /\ 2 \in 0 .. Len(rbuf)
  BY <1>t, <1>1, <1>8
<1>10. 2 \in newlines
  BY Zenon, <1>2, <1>7, <1>9 DEF newlines
<1>11. n <= 2
  BY Zenon, <1>10 DEF first_line
<1>12. n = 2
  BY SMTT(30), <1>1, <1>9, <1>11, <1>t
<1>13. SubSeq(rbuf, 1, 2) = line_units(begun + 1)
  <2>1. rbuf[1] = line_units(begun + 1)[1] /\ rbuf[2] = line_units(begun + 1)[2]
    <3>1. rbuf[1] = pending[0 + 1] /\ rbuf[2] = pending[0 + 2]
      BY <1>2, <1>9
    <3> QED
      BY Zenon, <1>5, <3>1
  <2>2. SubSeq(rbuf, 1, 2) = <<rbuf[1], rbuf[2]>>
    BY Zenon, <1>t, <1>9, FrontTwo
  <2> QED
    BY <1>6, <2>1, <2>2
<1> QED
  BY Zenon, <1>3, <1>9, <1>12, <1>13

LEMMA ReadCommandAnswering ==
  ASSUME WellFormed, IInv, Answering, ReadCommand
  PROVE  Answering'
<1>t. TypeOK /\ Sums
  BY Zenon DEF IInv, Answering
<1>u. state = "conn_read" /\ UNCHANGED <<asked, replies, rest, inbox>>
  BY Zenon DEF ReadCommand, socket
<1>1. CASE oom'
  BY Zenon, <1>t, <1>u, <1>1, AnsweringStep
<1>2. CASE ~oom'
  <2>1. PICK n \in newlines : /\ first_line(n) /\ process_command(SubSeq(rbuf, 1, n))
                              /\ rbuf' = SubSeq(rbuf, n + 1, Len(rbuf))
    BY Zenon DEF ReadCommand
  <2>2. oom' = oom \/ oom' = TRUE
    BY Zenon, <2>1 DEF process_command, process_get_command, get_out_of_memory, process_update_command,
                       process_line, process_quit
  <2>3. InOrder /\ write_and_go = "conn_read" /\ prefix(replies, answers)
    BY Zenon, <1>2, <1>u, <2>2 DEF Answering
  <2>4. block_left = 0
    BY <1>u DEF block_left
  <2>5. PICK begun \in 0 .. Len(asked) :
          /\ \E where \in [begun + 1 .. Len(asked) + 1 -> 0 .. Len(pending)] :
               Follows(begun, where) /\ where[begun + 1] = block_left
          /\ Owed(begun)
    BY Zenon, <2>3 DEF InOrder
  <2>6. PICK where : Places(begun, where) /\ where[begun + 1] = 0
    BY Zenon, <2>4, <2>5 DEF Places
  <2>7. /\ begun # Len(asked) /\ n = 2 /\ 2 \in 0 .. Len(rbuf)
        /\ SubSeq(rbuf, 1, n) = line_units(begun + 1)
    BY Zenon, <1>t, <2>1, <2>6, NextLine
  <2>8. PICK q \in 1 .. Len(asked) : q = begun + 1 /\ q - 1 = begun /\ q \in 0 .. Len(asked)
    <3>1. Len(asked) \in Nat
      BY Zenon, <1>t, Pending
    <3> QED
      BY <2>7, <3>1
  <2>9. replies = upto[q - 1] /\ ~noreply
    BY Zenon, <1>u, <2>5, <2>8 DEF Owed
  <2>10. process_command(line_units(q))
    BY Zenon, <2>1, <2>7, <2>8
  <2>11. /\ write_and_go' = "conn_read"
         /\ state' # "conn_closing" => Owed(q)' /\ block_left' = size(q) - 2
    BY Zenon, <1>2, <1>t, <1>u, <2>3, <2>9, <2>10, CommandAnswers
  <2>12. ASSUME state' # "conn_closing"
         PROVE  InOrder'
    <3>1. PICK v : Places(q, v) /\ v[q + 1] = 0 + size(q)
      BY Zenon, <1>t, <2>6, <2>7, <2>8, PlacesBegin
    <3>2. size(q) \in Nat /\ size(q) >= 2
      BY <1>t, Size
    <3>3. 2 \in 0 .. v[q + 1] /\ 2 \in Nat /\ v[q + 1] - 2 = size(q) - 2
      BY <3>1, <3>2
    <3>4. pending' = SubSeq(pending, 2 + 1, Len(pending))
      BY Zenon, <1>t, <1>u, <2>1, <2>7, <3>3, PendingDrop
    <3>5. PICK w : Places(q, w)' /\ w[q + 1] = v[q + 1] - 2
      BY Zenon, <1>t, <1>u, <2>8, <3>1, <3>3, <3>4, PlacesDrop
    <3>6. w[q + 1] = block_left' /\ Owed(q)'
      BY Zenon, <2>11, <2>12, <3>3, <3>5
    <3>7. q \in 0 .. Len(asked')
      BY Zenon, <1>u, <2>8
    <3> QED
      BY Zenon, <3>5, <3>6, <3>7 DEF Places, InOrder
  <2>13. prefix(replies', answers)
    BY Zenon, <1>u, <2>3 DEF prefix
  <2> QED
    BY Zenon, <1>t, <1>u, <2>11, <2>12, <2>13, AnsweringStep
<1> QED
  BY Zenon, <1>1, <1>2

\* What is sent for a request: its line, and the data block of an update.
LEMMA SentUnits ==
  ASSUME NEW q \in Nat \ {0}, NEW r \in Request, NEW u,
         u = line_units(q) \o (IF r.cmd = "update" THEN data_units(q, r) ELSE <<>>)
  PROVE  /\ Len(u) = (IF r.cmd = "update" THEN r.len + 2 ELSE 2)
         /\ u[1] = line_units(q)[1] /\ u[2] = line_units(q)[2]
<1> DEFINE U == [req : 1 .. q, part : {"cmd", "data"}, nl : BOOLEAN]
<1>1. r.len \in Nat /\ r.chunk \in BOOLEAN
  BY ConnAssumption DEF Requests
<1>2. line_units(q) \in Seq(U) /\ Len(line_units(q)) = 2
  BY DEF line_units
<1> DEFINE f == data_units(q, r)
<1>3. f \in Seq(U) /\ Len(f) = r.len
  <2>1. ASSUME NEW j \in 1 .. r.len
        PROVE  [req |-> q, part |-> "data", nl |-> j = r.len /\ r.chunk] \in U
    <3>1. (j = r.len /\ r.chunk) \in BOOLEAN
      BY Zenon
    <3> QED
      BY <3>1
  <2>2. f \in [1 .. r.len -> U] /\ DOMAIN f = 1 .. r.len
    BY Zenon, <2>1 DEF data_units
  <2> HIDE DEF f
  <2>3. f \in Seq(U)
    BY Zenon, <1>1, <2>2, FunctionSeq
  <2> QED
    BY SMTT(30), <1>1, <2>2, <2>3
<1> DEFINE d == IF r.cmd = "update" THEN f ELSE <<>>
<1>4. d \in Seq(U) /\ Len(d) = (IF r.cmd = "update" THEN r.len ELSE 0)
  BY <1>3
<1>5. u = line_units(q) \o d
  BY Zenon
<1> HIDE DEF d, U
<1> PICK l : l = line_units(q)
  BY Zenon
<1>6. l \in Seq(U) /\ Len(l) = 2 /\ u = l \o d /\ l = line_units(q)
  BY Zenon, <1>2, <1>5
<1>7. Len(u) = 2 + Len(d) /\ u[1] = l[1] /\ u[2] = l[2]
  <2>1. l \in Seq(U) /\ d \in Seq(U) /\ Len(l) = 2
    BY Zenon, <1>4, <1>6
  <2>2. Len(l \o d) = Len(l) + Len(d)
    BY Zenon, <1>4, <1>6, Concat
  <2>3. (l \o d)[1] = l[1] /\ (l \o d)[2] = l[2]
    BY Zenon, <2>1, ConcatFrontTwo
  <2> QED
    BY Zenon, <1>6, <2>2, <2>3
<1> QED
  BY SMTT(30), <1>1, <1>4, <1>6, <1>7

LEMMA SendOrder ==
  ASSUME IInv, IInv', Answering, NEW r \in Request, Send(r), NEW S, S = Unit', NEW u \in Seq(S),
         u = line_units(Len(asked')) \o (IF r.cmd = "update" THEN data_units(Len(asked'), r) ELSE <<>>),
         pending \in Seq(S), pending' = pending \o u, Len(u) = size(Len(asked))', InOrder
  PROVE  InOrder'
<1>t. TypeOK /\ TypeOK' /\ Sums
  BY Zenon DEF IInv, Answering
<1>u. /\ asked' = Append(asked, r)
      /\ UNCHANGED <<state, noreply, item, rlbytes, wbuf, iov, iovused, replies>>
  BY Zenon DEF Send, upload, output
<1>0. Len(asked) \in Nat /\ Len(asked') = Len(asked) + 1 /\ \A q \in 1 .. Len(asked) : asked'[q] = asked[q]
  BY SMTT(30), <1>t, <1>u DEF TypeOK
<1>1. /\ Len(asked') \in Nat \ {0} /\ \A b \in 0 .. Len(asked) : b \in 0 .. Len(asked')
      /\ \A q \in 1 .. Len(asked) : q - 1 \in 0 .. Len(asked)
  BY <1>0
<1>2. u[1] = line_units(Len(asked'))[1] /\ u[2] = line_units(Len(asked'))[2]
  BY ZenonT(30), <1>1, SentUnits
<1>3. PICK begun \in 0 .. Len(asked) :
        /\ \E where \in [begun + 1 .. Len(asked) + 1 -> 0 .. Len(pending)] :
             Follows(begun, where) /\ where[begun + 1] = block_left
        /\ Owed(begun)
  BY Zenon DEF InOrder
<1>4. PICK where : Places(begun, where) /\ where[begun + 1] = block_left
  BY Zenon, <1>3 DEF Places
<1>5. PICK w : Places(begun, w)' /\ w[begun + 1] = where[begun + 1]
  BY Zenon, <1>t, <1>u, <1>2, <1>4, PlacesSend
<1>6. block_left' = block_left
  BY Zenon, <1>u DEF block_left
<1>7. Owed(begun)'
  <2>1. \A q \in 0 .. Len(asked) : upto'[q] = upto[q]
    BY Zenon, <1>t, <1>u, SumsSend
  <2>2. state = "conn_nread" => item \in 1 .. Len(asked)
    BY Zenon, <1>t DEF IInv, Holding, TypeOK
  <2>3. message' = message
    BY Zenon, <1>u DEF message
  <2>4. state' = "conn_read" => replies' = upto'[begun] /\ ~noreply'
    BY Zenon, <1>u, <1>3, <2>1 DEF Owed
  <2>5. state' = "conn_nread" =>
          /\ begun = item' /\ replies' = upto'[item' - 1] /\ ~iovused'
          /\ asked'[item'].cmd = "update" /\ noreply' = asked'[item'].noreply
    BY Zenon, <1>0, <1>1, <1>u, <1>3, <2>1, <2>2 DEF Owed
  <2>6. state' \in {"conn_write", "conn_mwrite"} => replies' \o message' = upto'[begun] /\ ~noreply'
    BY Zenon, <1>u, <1>3, <2>1, <2>3 DEF Owed
  <2> QED
    BY Zenon, <2>4, <2>5, <2>6 DEF Owed
<1>8. w[begun + 1] = block_left' /\ begun \in 0 .. Len(asked')
  BY Zenon, <1>1, <1>4, <1>5, <1>6
<1> QED
  BY Zenon, <1>5, <1>7, <1>8 DEF InOrder, Places

LEMMA SendAnswering ==
  ASSUME IInv, IInv', Answering, NEW r \in Request, Send(r)
  PROVE  Answering'
<1>t. TypeOK /\ TypeOK' /\ Sums
  BY Zenon DEF IInv, Answering
<1>u. /\ asked' = Append(asked, r) /\ rest = <<>>
      /\ UNCHANGED <<state, replies, oom, write_and_go, rbuf>>
  BY Zenon DEF Send, input
<1>0. /\ Len(asked) \in Nat /\ Len(asked') = Len(asked) + 1 /\ asked'[Len(asked')] = r /\ asked' # <<>>
      /\ Len(asked') \in Nat \ {0} /\ Len(asked') \in 1 .. Len(asked')
      /\ Len(asked) \in 0 .. Len(asked) /\ Len(asked') \in 0 .. Len(asked')
  <2>1. asked \in Seq(Request) /\ Len(asked) \in Nat
    BY <1>t DEF TypeOK
  <2>2. Len(asked') = Len(asked) + 1 /\ asked'[Len(asked) + 1] = r
    BY <1>u, <2>1
  <2>3. asked' # <<>>
    BY <2>1, <2>2
  <2>4. asked'[Len(asked')] = r
    BY Zenon, <2>2
  <2> QED
    BY SMTT(30), <2>1, <2>2, <2>3, <2>4
<1>1. PICK u : u = line_units(Len(asked'))
                     \o (IF r.cmd = "update" THEN data_units(Len(asked'), r) ELSE <<>>)
  BY Zenon
<1>2. PICK S : S = Unit'
  BY Zenon
<1>3. S = [req : 1 .. Len(asked'), part : {"cmd", "data"}, nl : BOOLEAN]
  BY Zenon, <1>2 DEF Unit
<1>4. u \in Seq(S)
  BY Zenon, <1>0, <1>1, <1>3, Units
<1>5. Len(u) = size(Len(asked))'
  <2>1. Len(u) = (IF r.cmd = "update" THEN r.len + 2 ELSE 2)
    BY Zenon, <1>0, <1>1, SentUnits
  <2> QED
    BY Zenon, <1>0, <2>1 DEF size
<1>6. PICK n \in 1 .. Len(u) : inbox' = inbox \o SubSeq(u, 1, n) /\ rest' = SubSeq(u, n + 1, Len(u))
  BY Zenon, <1>0, <1>1 DEF Send
<1>7. rbuf \in Seq(S) /\ inbox \in Seq(S)
  <2>1. Unit \subseteq S
    BY <1>0, <1>3 DEF Unit
  <2>2. rbuf \in Seq(Unit) /\ inbox \in Seq(Unit)
    BY Zenon, <1>t DEF TypeOK
  <2> QED
    BY <2>1, <2>2
<1>8. pending \in Seq(S) /\ pending' = pending \o u
  <2>1. /\ n \in 0 .. Len(u) /\ SubSeq(u, 1, n) \in Seq(S) /\ SubSeq(u, n + 1, Len(u)) \in Seq(S)
        /\ rbuf \o inbox \in Seq(S)
    <3>1. n \in 0 .. Len(u)
      BY <1>4
    <3> QED
      BY Zenon, <1>4, <1>7, <3>1, Taken, Dropped, Concat
  <2>2. rbuf \o (inbox \o SubSeq(u, 1, n)) = (rbuf \o inbox) \o SubSeq(u, 1, n)
    BY <1>7, <2>1, Regroup
  <2>3. ((rbuf \o inbox) \o SubSeq(u, 1, n)) \o SubSeq(u, n + 1, Len(u)) = (rbuf \o inbox) \o u
    BY Zenon, <1>4, <2>1, Rejoin
  <2>4. (rbuf \o inbox) \o <<>> = rbuf \o inbox
    BY <2>1
  <2>5. pending = rbuf \o inbox
    BY Zenon, <1>u, <2>4 DEF pending
  <2>6. pending' = (rbuf \o (inbox \o SubSeq(u, 1, n))) \o SubSeq(u, n + 1, Len(u))
    BY Zenon, <1>u, <1>6 DEF pending
  <2> QED
    BY Zenon, <2>1, <2>2, <2>3, <2>5, <2>6
<1>9. Len(rest') < size(Len(asked))'
  <2>1. Len(rest') = Len(u) - n /\ Len(u) \in Nat
    BY <1>4, <1>6
  <2>2. Len(rest') < Len(u)
    BY <2>1, <1>6
  <2> QED
    BY Zenon, <1>5, <2>2
<1>10. Sums' /\ prefix(answers, answers')
  BY Zenon, <1>t, <1>u, SumsSend
<1>11. ASSUME ~oom'
       PROVE  /\ write_and_go' = "conn_read" /\ prefix(replies', answers')
              /\ state' \notin {"conn_closing", "closed"} => InOrder'
  <2>1. /\ write_and_go = "conn_read" /\ prefix(replies, answers)
        /\ state \notin {"conn_closing", "closed"} => InOrder
    BY Zenon, <1>u, <1>11 DEF Answering
  <2>2. PICK T : T = Reply'
    BY Zenon
  <2>3. replies \in Seq(T) /\ answers \in Seq(T) /\ answers' \in Seq(T)
    <3>1. Reply \subseteq T
      BY <1>0, <2>2 DEF Reply
    <3>2. replies \in Seq(Reply) /\ answers \in Seq(Reply)
      BY Zenon, <1>t, <1>0 DEF TypeOK, Sums, answers
    <3>3. answers' \in Seq(T)
      BY Zenon, <1>10, <1>0, <2>2 DEF Sums, answers
    <3> HIDE DEF answers
    <3> QED
      BY SMTT(30), <3>1, <3>2, <3>3
  <2>4. prefix(replies, answers')
    BY Zenon, <1>10, <2>1, <2>3, PrefixTrans
  <2>5. ASSUME InOrder
        PROVE  InOrder'
    BY Zenon, <1>1, <1>2, <1>4, <1>5, <1>8, <2>5, SendOrder
  <2> QED
    BY Zenon, <1>u, <2>1, <2>4, <2>5 DEF prefix
<1> QED
  BY Zenon, <1>0, <1>9, <1>10, <1>11 DEF Answering

LEMMA AnsweringInit ==
  ASSUME Init
  PROVE  Answering
<1>0. /\ asked = <<>> /\ Len(asked) = 0 /\ replies = <<>> /\ rest = <<>> /\ state = "conn_read"
      /\ write_and_go = "conn_read" /\ ~noreply /\ rbuf = <<>> /\ inbox = <<>>
  BY DEF Init
<1>1. \E f : Adds(f)
  <2> DEFINE f == [q \in 0 .. 0 |-> <<>>]
  <2>1. f = [q \in 0 .. 0 |-> IF q = 0 THEN <<>> ELSE f[q - 1] \o answer(q)]
    <3>1. \A q \in 0 .. 0 : q = 0
      OBVIOUS
    <3> QED
      BY Zenon, <3>1
  <2>2. Adds(f)
    BY Zenon, <1>0, <2>1 DEF Adds
  <2> QED
    BY Zenon, <2>2
<1>2. Adds(upto) /\ upto[0] = <<>>
  <2>1. Len(asked) \in Nat
    BY <1>0
  <2> QED
    BY Zenon, <1>1, <2>1, AddsUp, AddedUp DEF Added
<1>3. answers = <<>>
  BY Zenon, <1>0, <1>2 DEF answers
<1>4. prefix(<<>>, <<>>) /\ <<>> \in Seq(Reply)
  BY DEF prefix
<1>5. Sums
  <2>1. \A q \in 0 .. Len(asked) : q = 0
    BY <1>0
  <2> QED
    BY Zenon, <1>2, <1>3, <1>4, <2>1 DEF Sums, Adds
<1>6. pending = <<>> /\ Len(pending) = 0 /\ block_left = 0
  BY <1>0 DEF pending, block_left
<1>7. InOrder
  <2> DEFINE w == [q \in 0 + 1 .. Len(asked) + 1 |-> 0]
  <2>1. w \in [0 + 1 .. Len(asked) + 1 -> 0 .. Len(pending)] /\ 0 \in 0 .. Len(asked)
    BY SMTT(30), <1>0, <1>6
  <2>2. Follows(0, w) /\ w[0 + 1] = block_left
    BY SMTT(30), <1>0, <1>6 DEF Follows
  <2>3. Owed(0)
    BY <1>0, <1>2 DEF Owed
  <2> HIDE DEF w
  <2> QED
    BY Zenon, <2>1, <2>2, <2>3 DEF InOrder
<1> QED
  BY Zenon, <1>0, <1>3, <1>4, <1>5, <1>7 DEF Answering

\* With IInv, the account of what has been answered holds in every state.
LEMMA AnsweringNext ==
  ASSUME WellFormed, IInv, IInv', Answering, [Next]_vars
  PROVE  Answering'
<1>t. TypeOK
  BY Zenon DEF IInv
<1>1. CASE drive_machine
  BY Zenon, <1>t, <1>1, ReadCommandAnswering, QuietSteps, GrowBufferAnswering, ClosingSteps, DataSteps,
     CompleteNreadAnswering, TransmitAnswering, TransmitCompleteAnswering DEF drive_machine
<1>2. CASE Fired \/ SendRest \/ Leave \/ UNCHANGED vars
  BY Zenon, <1>t, <1>2, QuietSteps
<1>3. CASE \E r \in Request : Send(r)
  BY Zenon, <1>3, SendAnswering
<1> QED
  BY Zenon, <1>1, <1>2, <1>3 DEF Next

\* When there is nothing left to read, every request has begun.
LEMMA AllAnswered ==
  ASSUME IInv, Answering, ~oom, settled
  PROVE  replies = answers
<1>t. TypeOK /\ rbuf = <<>> /\ inbox = <<>> /\ state = "conn_read"
  BY Zenon DEF IInv, settled
<1>1. InOrder
  BY Zenon, <1>t DEF Answering
<1>2. PICK begun \in 0 .. Len(asked) :
        /\ \E where \in [begun + 1 .. Len(asked) + 1 -> 0 .. Len(pending)] :
             Follows(begun, where) /\ where[begun + 1] = block_left
        /\ Owed(begun)
  BY Zenon, <1>1 DEF InOrder
<1>3. PICK where : Places(begun, where)
  BY Zenon, <1>2 DEF Places
<1>4. Len(asked) \in Nat /\ Len(pending) \in Nat /\ rest \in Seq(Unit)
  BY Zenon, <1>t, Pending DEF TypeOK
<1>5. Len(pending) = Len(rest)
  BY <1>t, <1>4 DEF pending
<1>6. begun = Len(asked)
  <2>1. ASSUME begun # Len(asked)
        PROVE  FALSE
    <3>1. Len(asked) \in begun + 1 .. Len(asked) /\ Len(asked) \in 1 .. Len(asked)
      BY <1>4, <2>1
    <3>2. /\ where[Len(asked)] \in Nat /\ where[Len(asked) + 1] = where[Len(asked)] + size(Len(asked))
      BY Zenon, <1>t, <1>3, <3>1, PlacesWithin
    <3>3. where[Len(asked) + 1] = Len(pending)
      BY Zenon, <1>3 DEF Places, Follows
    <3>4. size(Len(asked)) \in Nat /\ size(Len(asked)) >= 2
      BY Zenon, <1>t, <3>1, Size
    <3>5. Len(rest) >= size(Len(asked)) /\ Len(rest) # 0
      BY SMTT(30), <1>4, <1>5, <3>2, <3>3, <3>4
    <3>6. rest # <<>>
      BY <3>5
    <3>7. Len(rest) < size(Len(asked))
      BY Zenon, <3>6 DEF Answering
    <3> QED
      BY SMTT(30), <1>4, <1>5, <3>4, <3>5, <3>7
  <2> QED
    BY Zenon, <2>1
<1> QED
  BY Zenon, <1>t, <1>2, <1>6 DEF Owed, answers

\* Every request is answered once, in the order of the requests and with its own
\* answer, however the bytes arrive and leave and whatever the buffer sizes, if no
\* get has a key that is too long after one that exists and no set is refused
\* before its data block is read.
THEOREM RequestsAnsweredInOrder ==
  ASSUME WellFormed
  PROVE  Spec => []AnsweredInOrder
<1>1. Init => Answering
  BY AnsweringInit
<1>2. IInv /\ IInv' /\ Answering /\ [Next]_vars => Answering'
  BY Zenon, AnsweringNext
<1>3. IInv /\ Answering => AnsweredInOrder
  BY Zenon, AllAnswered DEF AnsweredInOrder, Answering
<1> QED
  BY <1>1, <1>2, <1>3, Invariant, PTL DEF Spec

=============================================================================
