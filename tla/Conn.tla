-------------------------------- MODULE Conn --------------------------------
(***************************************************************************)
(* One client connection: the state machine drive_machine of beansdb.c     *)
(* with the commands it dispatches, from bytes read to bytes sent.         *)
(*                                                                         *)
(* The stream of bytes is a sequence of units.  A command line is two      *)
(* units, of which the second ends in a newline; a data block is           *)
(* request.len units.  Any number of units may arrive in one read, and a   *)
(* response may take any number of writes.  What the storage answers is    *)
(* part of the request: how many keys of a get exist.                      *)
(*                                                                         *)
(* conn_swallow is left out: process_update_command uses the item it did   *)
(* not get before it would set that state.                                 *)
(***************************************************************************)
EXTENDS Integers, Sequences, FiniteSets

CONSTANTS Request,            \* [cmd, hits, bad, len, chunk, noreply], see Requests
          MaxRequests,        \* bound: requests the client sends
          DATA_BUFFER_SIZE, READ_BUFFER_HIGHWAT,
          OutOfMemory,        \* whether allocations may fail
          NULL

\* bad: a key is too long (for a get, one after its hits) or a number malformed;
\* chunk: the data block ends in \r\n.
Requests == [cmd : {"get", "update", "line", "quit", "unknown"}, hits : Nat, bad : BOOLEAN,
             len : Nat, chunk : BOOLEAN, noreply : BOOLEAN]

ASSUME ConnAssumption ==
  /\ Request \subseteq Requests /\ MaxRequests \in Nat
  /\ DATA_BUFFER_SIZE \in Nat /\ READ_BUFFER_HIGHWAT \in Nat
  /\ NULL \notin Nat \cup BOOLEAN

VARIABLES
  inbox, rest, eof,            \* sent and not read; what the client has still to send
  asked, replies, oom,         \* history: requests, units sent, did an allocation fail
  items,                       \* history: item buffers in use
  driving, ev_flags,           \* a worker is in drive_machine; the event it waits for
  state, write_and_go, noreply,
  rbuf, rsize, reading,        \* reading: inside try_read_network, and gotdata
  item, rlbytes, ileft,        \* item: the request whose data block is read
  wbuf, iov, iovused           \* iov: what is still to be sent

socket == <<inbox, rest, eof>>
history == <<asked, replies, oom>>
input  == <<rbuf, rsize, reading>>
upload == <<item, rlbytes>>
output == <<wbuf, iov, iovused>>
vars   == <<socket, history, items, driving, ev_flags, state, write_and_go, noreply,
            input, upload, ileft, output>>

State == {"conn_read", "conn_nread", "conn_write", "conn_mwrite", "conn_closing", "closed",
          "crashed"}

line_units(q) == <<[req |-> q, part |-> "cmd", nl |-> FALSE], [req |-> q, part |-> "cmd", nl |-> TRUE]>>
data_units(q, r) == [j \in 1 .. r.len |-> [req |-> q, part |-> "data", nl |-> j = r.len /\ r.chunk]]
reply(q, what) == [req |-> q, what |-> what]

Init ==
  /\ inbox = <<>> /\ rest = <<>> /\ eof = FALSE /\ asked = <<>> /\ replies = <<>> /\ oom = FALSE
  /\ items = 0 /\ driving = FALSE /\ ev_flags = "AE_READABLE"
  /\ state = "conn_read" /\ write_and_go = "conn_read" /\ noreply = FALSE
  /\ rbuf = <<>> /\ rsize = DATA_BUFFER_SIZE /\ reading = NULL
  /\ item = NULL /\ rlbytes = 0 /\ ileft = 0
  /\ wbuf = NULL /\ iov = <<>> /\ iovused = FALSE

-----------------------------------------------------------------------------
\* Mutant: the buffer is given back whatever is still in it.
conn_set_state_shrinks(s) ==
  /\ state' = s
  /\ rsize' = IF s = "conn_read" /\ state # s /\ rsize > READ_BUFFER_HIGHWAT
              THEN DATA_BUFFER_SIZE ELSE rsize

\* conn_set_state; conn_shrink gives back a large read buffer between requests.
conn_set_state(s) ==
  /\ state' = s
  /\ rsize' = IF s = "conn_read" /\ state # s /\ rsize > READ_BUFFER_HIGHWAT
                 /\ Len(rbuf) < DATA_BUFFER_SIZE
              THEN DATA_BUFFER_SIZE ELSE rsize

\* Mutant: the flag survives the command that carried it.
out_string_keeps_noreply(q, what, quiet) ==
  IF quiet
  THEN /\ noreply' = TRUE /\ conn_set_state("conn_read")
       /\ UNCHANGED <<wbuf, write_and_go>>
  ELSE /\ wbuf' = reply(q, what) /\ conn_set_state("conn_write")
       /\ write_and_go' = "conn_read" /\ noreply' = quiet

\* out_string, when c->noreply has the value quiet.
out_string(q, what, quiet) ==
  IF quiet
  THEN /\ noreply' = FALSE /\ conn_set_state("conn_read")
       /\ UNCHANGED <<wbuf, write_and_go>>
  ELSE /\ wbuf' = reply(q, what) /\ conn_set_state("conn_write")
       /\ write_and_go' = "conn_read" /\ noreply' = quiet

\* process_get_command, of which found hits made it into the response.  When a
\* key is too long the response has been started, and its items are not in ilist.
process_get_command(q, found) ==
  LET r == asked[q]
      values == [j \in 1 .. found |-> reply(q, "value")]
  IN /\ items' = items + found
     /\ iovused' = (found > 0 \/ ~r.bad)
     /\ IF r.bad
        THEN /\ iov' = values /\ UNCHANGED ileft
             /\ out_string(q, "line", noreply)
        ELSE /\ iov' = Append(values, reply(q, "end")) /\ ileft' = found
             /\ conn_set_state("conn_mwrite")
             /\ UNCHANGED <<wbuf, write_and_go, noreply>>
     /\ UNCHANGED <<upload, oom>>

\* No memory for another hit: the same key is tried again until there is, and
\* the keys after it are never looked at.
get_out_of_memory(q) ==
  /\ OutOfMemory /\ asked[q].hits > 1 /\ ~asked[q].bad
  /\ \E found \in 1 .. asked[q].hits - 1 :
       LET values == [j \in 1 .. found |-> reply(q, "value")]
       IN /\ items' = items + found /\ ileft' = found
          /\ iov' = Append(values, reply(q, "end")) /\ iovused' = TRUE
  /\ oom' = TRUE /\ conn_set_state("conn_mwrite")
  /\ UNCHANGED <<wbuf, write_and_go, noreply, upload>>

\* process_update_command.  A bad line does not consume the data block.
process_update_command(q) ==
  LET r == asked[q]
  IN \/ /\ r.bad
        /\ out_string(q, "line", noreply \/ r.noreply) /\ iov' = <<>> /\ iovused' = FALSE
        /\ UNCHANGED <<items, upload, ileft, oom>>
     \/ /\ ~r.bad
        /\ item' = q /\ rlbytes' = r.len /\ items' = items + 1
        /\ noreply' = (noreply \/ r.noreply) /\ conn_set_state("conn_nread")
        /\ iov' = <<>> /\ iovused' = FALSE
        /\ UNCHANGED <<ileft, wbuf, write_and_go, oom>>
     \/ /\ ~r.bad /\ OutOfMemory       \* it->ver is set before it is compared with NULL
        /\ state' = "crashed" /\ oom' = TRUE
        /\ UNCHANGED <<items, upload, ileft, output, write_and_go, noreply, rsize>>

\* delete, incr, stats, version, verbosity, flush_all, optimize_stat: one line.
process_line(q, what) ==
  /\ out_string(q, what, noreply \/ (what = "line" /\ asked[q].noreply))
  /\ iov' = <<>> /\ iovused' = FALSE
  /\ UNCHANGED <<items, upload, ileft, oom>>

process_quit ==
  /\ conn_set_state("conn_closing")
  /\ iov' = <<>> /\ iovused' = FALSE
  /\ UNCHANGED <<items, upload, ileft, wbuf, write_and_go, noreply, oom>>

\* The request of which these units are the command line, or NULL.
command_of(units) ==
  LET q == units[1].req
  IN IF units = line_units(q) THEN q ELSE NULL

process_command(units) ==
  LET q == command_of(units)
      cmd == IF q = NULL THEN "unknown" ELSE asked[q].cmd
  IN \/ cmd = "get" /\ (process_get_command(q, asked[q].hits) \/ get_out_of_memory(q))
     \/ cmd = "update" /\ process_update_command(q)
     \/ cmd = "line" /\ process_line(q, "line")
     \/ cmd = "quit" /\ process_quit
     \/ cmd = "unknown" /\ process_line(units[1].req, "ERROR")

-----------------------------------------------------------------------------
\* Complete lines in the read buffer; n units are the first.
newlines == {n \in 1 .. Len(rbuf) : rbuf[n].nl}
has_line == newlines # {}
first_line(n) == \A m \in newlines : n <= m

\* try_read_command with a line in the buffer.
ReadCommand ==
  /\ driving /\ state = "conn_read" /\ reading = NULL
  /\ \E n \in newlines : /\ first_line(n)
                         /\ process_command(SubSeq(rbuf, 1, n))
                         /\ rbuf' = SubSeq(rbuf, n + 1, Len(rbuf))
  /\ UNCHANGED <<socket, asked, replies, driving, ev_flags, reading>>

\* ... and without: on to try_read_network.
NoCommand ==
  /\ driving /\ state = "conn_read" /\ reading = NULL /\ ~has_line
  /\ reading' = FALSE
  /\ UNCHANGED <<socket, history, items, driving, ev_flags, state, write_and_go, noreply,
                 rbuf, rsize, upload, ileft, output>>

\* A full buffer is doubled; if that fails what was read is dropped and the
\* connection closed after an error line.
GrowBuffer ==
  /\ driving /\ state = "conn_read" /\ reading # NULL /\ Len(rbuf) >= rsize
  /\ \/ /\ rsize' = rsize * 2
        /\ UNCHANGED <<rbuf, reading, state, wbuf, write_and_go, noreply, oom>>
     \/ /\ OutOfMemory /\ oom' = TRUE
        /\ rbuf' = <<>> /\ reading' = NULL
        /\ IF noreply THEN /\ noreply' = FALSE /\ UNCHANGED <<state, wbuf>>
           ELSE /\ wbuf' = reply(0, "line") /\ state' = "conn_write" /\ UNCHANGED noreply
        /\ write_and_go' = "conn_closing" /\ UNCHANGED rsize
  /\ UNCHANGED <<socket, asked, replies, items, driving, ev_flags, upload, ileft, iov, iovused>>

\* One read() of try_read_network; a read that fills the buffer is followed by another.
ReadNetwork ==
  /\ driving /\ state = "conn_read" /\ reading # NULL /\ Len(rbuf) < rsize /\ inbox # <<>>
  /\ \E n \in 1 .. Len(inbox) :
       /\ n <= rsize - Len(rbuf)
       /\ rbuf' = rbuf \o SubSeq(inbox, 1, n)
       /\ inbox' = SubSeq(inbox, n + 1, Len(inbox))
       /\ reading' = IF n = rsize - Len(rbuf) THEN TRUE ELSE NULL
  /\ UNCHANGED <<rest, eof, history, items, driving, ev_flags, state, write_and_go, noreply,
                 rsize, upload, ileft, output>>

\* EAGAIN: the connection goes back to the event loop unless something was read.
ReadNothing ==
  /\ driving /\ state = "conn_read" /\ reading # NULL /\ Len(rbuf) < rsize
  /\ inbox = <<>> /\ ~eof
  /\ reading' = NULL
  /\ IF reading THEN UNCHANGED <<driving, ev_flags>>
     ELSE driving' = FALSE /\ ev_flags' = "AE_READABLE"
  /\ UNCHANGED <<socket, history, items, state, write_and_go, noreply, rbuf, rsize,
                 upload, ileft, output>>

\* The client has closed the connection, or it broke.
ReadEnds ==
  /\ driving /\ inbox = <<>> /\ eof
  /\ \/ state = "conn_read" /\ reading # NULL /\ Len(rbuf) < rsize
     \/ state = "conn_nread" /\ rlbytes > 0 /\ rbuf = <<>>
  /\ state' = "conn_closing" /\ reading' = NULL
  /\ UNCHANGED <<socket, history, items, driving, ev_flags, write_and_go, noreply,
                 rbuf, rsize, upload, ileft, output>>

\* Mutant: what has been read beyond the data block is taken for data.
LeftoversAll ==
  /\ driving /\ state = "conn_nread" /\ rlbytes > 0 /\ rbuf # <<>>
  /\ rlbytes' = IF Len(rbuf) > rlbytes THEN 0 ELSE rlbytes - Len(rbuf)
  /\ rbuf' = <<>>
  /\ UNCHANGED <<socket, history, items, driving, ev_flags, state, write_and_go, noreply,
                 rsize, reading, item, ileft, output>>

\* conn_nread: the part of the data block that is in the read buffer, ...
Leftovers ==
  /\ driving /\ state = "conn_nread" /\ rlbytes > 0 /\ rbuf # <<>>
  /\ LET tocopy == IF Len(rbuf) > rlbytes THEN rlbytes ELSE Len(rbuf)
     IN /\ rlbytes' = rlbytes - tocopy
        /\ rbuf' = SubSeq(rbuf, tocopy + 1, Len(rbuf))
  /\ UNCHANGED <<socket, history, items, driving, ev_flags, state, write_and_go, noreply,
                 rsize, reading, item, ileft, output>>

\* ... the rest from the socket, ...
ReadData ==
  /\ driving /\ state = "conn_nread" /\ rlbytes > 0 /\ rbuf = <<>> /\ inbox # <<>>
  /\ \E n \in 1 .. Len(inbox) : /\ n <= rlbytes
                                /\ rlbytes' = rlbytes - n
                                /\ inbox' = SubSeq(inbox, n + 1, Len(inbox))
  /\ UNCHANGED <<rest, eof, history, items, driving, ev_flags, state, write_and_go, noreply,
                 input, item, ileft, output>>

WaitForData ==
  /\ driving /\ state = "conn_nread" /\ rlbytes > 0 /\ rbuf = <<>> /\ inbox = <<>> /\ ~eof
  /\ driving' = FALSE /\ ev_flags' = "AE_READABLE"
  /\ UNCHANGED <<socket, history, items, state, write_and_go, noreply, input, upload, ileft,
                 output>>

\* ... until it is complete: complete_nread stores the item and answers.
CompleteNread ==
  /\ driving /\ state = "conn_nread" /\ rlbytes = 0
  /\ out_string(item, "line", noreply)
  /\ item' = NULL /\ items' = items - 1
  /\ UNCHANGED <<socket, history, driving, ev_flags, rbuf, reading, rlbytes, ileft, iov, iovused>>

\* conn_write puts its line into the message unless there is one already, and
\* goes on as conn_mwrite.
message == IF state = "conn_write" /\ ~iovused THEN <<wbuf>> ELSE iov

\* transmit: sendmsg takes a part of the message.
Transmit ==
  /\ driving /\ state \in {"conn_write", "conn_mwrite"} /\ message # <<>>
  /\ \E n \in 1 .. Len(message) : /\ replies' = replies \o SubSeq(message, 1, n)
                                  /\ iov' = SubSeq(message, n + 1, Len(message))
  /\ iovused' = TRUE
  /\ UNCHANGED <<socket, asked, oom, items, driving, ev_flags, state, write_and_go, noreply,
                 input, upload, ileft, wbuf>>

\* Mutant: the event is not changed.
TransmitBlocksReading ==
  /\ driving /\ state \in {"conn_write", "conn_mwrite"} /\ message # <<>>
  /\ driving' = FALSE /\ iov' = message /\ iovused' = TRUE
  /\ UNCHANGED <<socket, history, items, ev_flags, state, write_and_go, noreply,
                 input, upload, ileft, wbuf>>

TransmitBlocks ==
  /\ driving /\ state \in {"conn_write", "conn_mwrite"} /\ message # <<>>
  /\ driving' = FALSE /\ ev_flags' = "AE_WRITABLE" /\ iov' = message /\ iovused' = TRUE
  /\ UNCHANGED <<socket, history, items, state, write_and_go, noreply, input, upload, ileft, wbuf>>

TransmitFails ==
  /\ driving /\ state \in {"conn_write", "conn_mwrite"} /\ message # <<>> /\ eof
  /\ state' = "conn_closing" /\ iov' = message /\ iovused' = TRUE
  /\ UNCHANGED <<socket, history, items, driving, ev_flags, write_and_go, noreply,
                 input, upload, ileft, wbuf>>

TransmitComplete ==
  /\ driving /\ state \in {"conn_write", "conn_mwrite"} /\ message = <<>>
  /\ IF state = "conn_mwrite"
     THEN items' = items - ileft /\ ileft' = 0 /\ conn_set_state("conn_read")
     ELSE conn_set_state(write_and_go) /\ UNCHANGED <<items, ileft>>
  /\ UNCHANGED <<socket, history, driving, ev_flags, write_and_go, noreply, rbuf, reading,
                 upload, output>>

\* conn_close: conn_cleanup frees what the connection holds.
Close ==
  /\ driving /\ state = "conn_closing"
  /\ state' = "closed" /\ driving' = FALSE
  /\ items' = items - ileft - (IF item = NULL THEN 0 ELSE 1)
  /\ item' = NULL /\ ileft' = 0
  /\ UNCHANGED <<socket, history, ev_flags, write_and_go, noreply, input, rlbytes, output>>

drive_machine ==
  \/ ReadCommand \/ NoCommand \/ GrowBuffer \/ ReadNetwork \/ ReadNothing \/ ReadEnds
  \/ Leftovers \/ ReadData \/ WaitForData \/ CompleteNread
  \/ Transmit \/ TransmitBlocks \/ TransmitFails \/ TransmitComplete \/ Close

\* The event loop: a socket that can be read or written gets a worker again.
Fired ==
  /\ ~driving /\ state \notin {"closed", "crashed"}
  /\ ev_flags = "AE_READABLE" => inbox # <<>> \/ eof
  /\ driving' = TRUE
  /\ UNCHANGED <<socket, history, items, ev_flags, state, write_and_go, noreply, input,
                 upload, ileft, output>>

-----------------------------------------------------------------------------
\* The client sends requests without waiting for answers, each at once or in two
\* parts, and may go away.
Send(r) ==
  /\ Len(asked) < MaxRequests /\ rest = <<>> /\ ~eof
  /\ LET q == Len(asked) + 1
         units == line_units(q) \o (IF r.cmd = "update" THEN data_units(q, r) ELSE <<>>)
     IN /\ asked' = Append(asked, r)
        /\ \E n \in 1 .. Len(units) : /\ inbox' = inbox \o SubSeq(units, 1, n)
                                      /\ rest' = SubSeq(units, n + 1, Len(units))
  /\ UNCHANGED <<eof, replies, oom, items, driving, ev_flags, state, write_and_go, noreply, input,
                 upload, ileft, output>>

SendRest ==
  /\ rest # <<>> /\ ~eof
  /\ inbox' = inbox \o rest /\ rest' = <<>>
  /\ UNCHANGED <<eof, history, items, driving, ev_flags, state, write_and_go, noreply, input,
                 upload, ileft, output>>

Leave ==
  /\ ~eof /\ eof' = TRUE
  /\ UNCHANGED <<inbox, rest, history, items, driving, ev_flags, state, write_and_go, noreply, input,
                 upload, ileft, output>>

Next == drive_machine \/ Fired \/ SendRest \/ Leave \/ \E r \in Request : Send(r)

Spec == Init /\ [][Next]_vars

\* A worker stays in drive_machine until the connection has to wait; a socket
\* that is ready fires; a client that is there reads, so that a response is not
\* blocked for ever, and sends the rest of a request.
Fairness == WF_vars(drive_machine) /\ WF_vars(Fired) /\ SF_vars(Transmit) /\ WF_vars(SendRest)

FairSpec == Spec /\ Fairness

-----------------------------------------------------------------------------
\* What is read and written belongs to the requests there were.
Unit == [req : 1 .. Len(asked), part : {"cmd", "data"}, nl : BOOLEAN]
Reply == [req : 0 .. Len(asked), what : {"value", "end", "line", "ERROR"}]

TypeOK ==
  /\ inbox \in Seq(Unit) /\ rest \in Seq(Unit) /\ rbuf \in Seq(Unit) /\ eof \in BOOLEAN
  /\ asked \in Seq(Request) /\ Len(asked) <= MaxRequests /\ replies \in Seq(Reply) /\ oom \in BOOLEAN
  /\ items \in Nat /\ driving \in BOOLEAN /\ ev_flags \in {"AE_READABLE", "AE_WRITABLE"}
  /\ state \in State /\ write_and_go \in {"conn_read", "conn_closing"} /\ noreply \in BOOLEAN
  /\ rsize \in Nat /\ reading \in {NULL, FALSE, TRUE}
  /\ item \in (1 .. Len(asked)) \cup {NULL} /\ rlbytes \in Nat /\ ileft \in Nat
  /\ wbuf \in Reply \cup {NULL} /\ iov \in Seq(Reply) /\ iovused \in BOOLEAN

\* The answer a client waits for.
answer(q) ==
  LET r == asked[q]
      one(what) == <<reply(q, what)>>
  IN CASE r.cmd = "get" /\ ~r.bad -> [j \in 1 .. r.hits |-> reply(q, "value")] \o one("end")
       [] r.cmd = "get" /\ r.bad -> one("line")
       [] r.cmd \in {"update", "line"} -> IF r.noreply THEN <<>> ELSE one("line")
       [] r.cmd = "unknown" -> one("ERROR")
       [] r.cmd = "quit" -> <<>>

\* The answers to the first q requests, and to all of them.
upto[q \in 0 .. Len(asked)] == IF q = 0 THEN <<>> ELSE upto[q - 1] \o answer(q)
answers == upto[Len(asked)]

prefix(s, t) == Len(s) <= Len(t) /\ s = SubSeq(t, 1, Len(s))

\* Nothing is left to do for the worker, which waits for the client.
settled == ~driving /\ state = "conn_read" /\ inbox = <<>> /\ rbuf = <<>>

\* Every request is answered once, in the order of the requests, with its own
\* answer, whatever the pieces in which requests arrive and answers leave;
\* commands sent in one go do not overtake or swallow each other.
AnsweredInOrder ==
  ~oom => prefix(replies, answers) /\ (settled => replies = answers)

\* The item buffers the connection refers to: ilist, and the item being read.
held == ileft + (IF item = NULL THEN 0 ELSE 1)

\* The memory of a connection: the item buffers in use are those it still refers
\* to, so that none is lost on the way and all are given back when it closes; and
\* conn_shrink leaves a read buffer that has room for what is in it.
ItemsHeld == items = held /\ Len(rbuf) <= rsize

\* A connection in the hands of the event loop waits for the event it needs and
\* has left no complete command unread: no wake-up is missed.
WaitsForTheRightEvent ==
  ~driving /\ state \notin {"closed", "crashed"} =>
    /\ ev_flags = IF state \in {"conn_write", "conn_mwrite"} THEN "AE_WRITABLE" ELSE "AE_READABLE"
    /\ state = "conn_read" => ~has_line
    /\ state = "conn_nread" => rlbytes > 0 /\ rbuf = <<>>
    /\ state \in {"conn_write", "conn_mwrite"} => iov # <<>>

(***************************************************************************)
(* The inductive invariant behind ItemsHeld and WaitsForTheRightEvent:     *)
(* which states of drive_machine hold an item or a list of them, how many  *)
(* items there are, and what try_read_network knows of the read buffer.    *)
(***************************************************************************)
Holding ==
  /\ state = "conn_nread" => item # NULL
  /\ item # NULL => state \in {"conn_nread", "conn_closing"}
  /\ ileft # 0 => state \in {"conn_mwrite", "conn_closing"}
  /\ state = "conn_write" => wbuf \in Reply

\* A get that fails at a long key loses the items of the hits before it.
NoHitBeforeLongKey == \A r \in Request : r.cmd = "get" /\ r.bad => r.hits = 0

Counted ==
  /\ items >= held /\ (NoHitBeforeLongKey => items = held)
  /\ Len(rbuf) <= rsize

Reading ==
  /\ reading # NULL => driving /\ state = "conn_read"
  /\ reading = FALSE => ~has_line
  /\ ~driving => state # "conn_closing"

IInv == TypeOK /\ Holding /\ Counted /\ Reading /\ WaitsForTheRightEvent

(***************************************************************************)
(* The inductive invariant behind AnsweredInOrder: of the requests, some   *)
(* have begun, their answers are sent or in the message, and the bytes not *)
(* yet consumed are those of the others, after what is left of a data      *)
(* block.                                                                  *)
(***************************************************************************)
\* A set that is refused leaves its data block to be read as commands.
WellFormed == NoHitBeforeLongKey /\ \A r \in Request : r.cmd = "update" => ~r.bad

size(q) == IF asked[q].cmd = "update" THEN asked[q].len + 2 ELSE 2
pending == (rbuf \o inbox) \o rest
block_left == IF state = "conn_nread" THEN rlbytes ELSE 0

\* The requests after the first begun, and where in the pending bytes they are.
Follows(begun, where) ==
  /\ where[Len(asked) + 1] = Len(pending)
  /\ \A p, q \in begun + 1 .. Len(asked) + 1 : p <= q => where[p] <= where[q]
  /\ \A q \in begun + 1 .. Len(asked) :
       /\ where[q + 1] = where[q] + size(q)
       /\ pending[where[q] + 1] = line_units(q)[1] /\ pending[where[q] + 2] = line_units(q)[2]

\* What the client has got, and is going to get before the next command.
Owed(begun) ==
  /\ state = "conn_read" => replies = upto[begun] /\ ~noreply
  /\ state = "conn_nread" => /\ begun = item /\ replies = upto[item - 1] /\ ~iovused
                             /\ asked[item].cmd = "update" /\ noreply = asked[item].noreply
  /\ state \in {"conn_write", "conn_mwrite"} => replies \o message = upto[begun] /\ ~noreply

InOrder ==
  \E begun \in 0 .. Len(asked) :
    /\ \E where \in [begun + 1 .. Len(asked) + 1 -> 0 .. Len(pending)] :
         Follows(begun, where) /\ where[begun + 1] = block_left
    /\ Owed(begun)

Sums ==
  /\ upto = [q \in 0 .. Len(asked) |-> IF q = 0 THEN <<>> ELSE upto[q - 1] \o answer(q)]
  /\ \A q \in 0 .. Len(asked) : upto[q] \in Seq(Reply) /\ prefix(upto[q], answers)

Answering ==
  /\ Sums
  /\ rest # <<>> => asked # <<>> /\ Len(rest) < size(Len(asked))
  /\ ~oom => /\ write_and_go = "conn_read" /\ prefix(replies, answers)
             /\ state \notin {"conn_closing", "closed"} => InOrder

\* Every request is answered in the end, unless the connection is closed because
\* the client left or asked for it, or memory ran out.
RequestsAnswered == asked # <<>> ~> replies = answers \/ state = "closed" \/ oom

\* After the values of a get the client is told that there are no more.
ValuesEnd == settled /\ replies # <<>> => replies[Len(replies)].what # "value"

\* ERROR is only sent for a command name that does not exist.
ErrorIsUnknownCommand ==
  \A j \in 1 .. Len(replies) : replies[j].what = "ERROR" => asked[replies[j].req].cmd = "unknown"

\* A response that memory ran out for does not end as if it were complete.
EndIsComplete ==
  \A j \in 1 .. Len(replies) :
    replies[j].what = "end" =>
      Cardinality({m \in 1 .. j : replies[m] = reply(replies[j].req, "value")})
        = asked[replies[j].req].hits

\* The server survives a set it has no memory for.
SurvivesNoMemory == state # "crashed"
=============================================================================
