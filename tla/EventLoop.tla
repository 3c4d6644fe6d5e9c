----------------------------- MODULE EventLoop -----------------------------
(***************************************************************************)
(* The event loop of thread.c and ae_epoll.c: worker threads that take     *)
(* turns as the leader, who polls and hands out the sockets that fired;    *)
(* with the life of connections and descriptors in beansdb.c, from accept  *)
(* to the free list.                                                       *)
(*                                                                         *)
(* What drive_machine does for a client is in Conn; here a worker serves   *)
(* what the client sent, then waits for more or closes the connection.     *)
(***************************************************************************)
EXTENDS Integers, Sequences, FiniteSets, Functions

CONSTANTS Worker, Conn, Fd,    \* Fd: numbers
          AE_SETSIZE, Listen,  \* Listen \in Fd: the listening socket
          MaxConnects,         \* bound: connections the clients open
          NULL

ASSUME EventLoopAssumption ==
  /\ Fd \subseteq Nat /\ \A S \in SUBSET Fd : Cardinality(S) \in Nat  \* Fd is finite
  /\ AE_SETSIZE \in Nat
  /\ Listen \in Fd /\ Listen < AE_SETSIZE /\ MaxConnects \in Nat
  /\ NULL \notin Fd /\ NULL \notin Conn /\ NULL \notin Worker

VARIABLES
  conns, fired,                \* loop.conns, and loop.fired up to loop.nready
  registered, armed,           \* the epoll set, and its members with events enabled
  leader, daemon_quit,
  open, ready,                 \* descriptors in use; those with something to read
  backlog, connects,           \* connections to accept; opened so far
  sfd, freeconns, heap,        \* conn.sfd; the free list; memory never handed out
  pc, my,                      \* of each worker; [fd, c, newfd, new]: its locals
  bug                          \* "Bug: conn %d should not be NULL" was logged

epoll  == <<registered, armed>>
kernel == <<open, ready, backlog, connects>>
memory == <<sfd, freeconns, heap>>
vars == <<conns, fired, epoll, leader, daemon_quit, kernel, memory, pc, my, bug>>

Idle == [fd |-> NULL, c |-> NULL, newfd |-> NULL, new |-> NULL]

\* The descriptors that the table has room for.
Table == {n \in Fd : n < AE_SETSIZE}

\* The lists of the members of S, each once; the last of a list, and the rest.
Listings(S) == Bijection(1 .. Cardinality(S), S)
Last(s) == s[Len(s)]
Front(s) == SubSeq(s, 1, Len(s) - 1)

\* server_socket has registered the listening connection.
Init ==
  \E c \in Conn :
    /\ conns = [fd \in Table |-> IF fd = Listen THEN c ELSE NULL]
    /\ fired = <<>> /\ registered = {Listen} /\ armed = {Listen}
    /\ leader = NULL /\ daemon_quit = FALSE
    /\ open = {Listen} /\ ready = {} /\ backlog = 0 /\ connects = 0
    /\ sfd = [d \in Conn |-> IF d = c THEN Listen ELSE NULL]
    /\ freeconns = <<>> /\ heap = Conn \ {c}
    /\ pc = [w \in Worker |-> "top"] /\ my = [w \in Worker |-> Idle] /\ bug = FALSE

goto(w, label) == pc' = [pc EXCEPT ![w] = label]

-----------------------------------------------------------------------------
\* worker_main: the test of the loop, and the lock of the leader.
Top(w) ==
  /\ pc[w] = "top"
  /\ goto(w, IF daemon_quit THEN "stopped" ELSE "lock")
  /\ UNCHANGED <<conns, fired, epoll, leader, daemon_quit, kernel, memory, my, bug>>

Lead(w) ==
  /\ pc[w] = "lock" /\ leader = NULL
  /\ leader' = w /\ goto(w, "lead")
  /\ UNCHANGED <<conns, fired, epoll, daemon_quit, kernel, memory, my, bug>>

\* Mutant: events stay enabled when they fire.
PollNotOneShot(w) ==
  /\ pc[w] = "lead" /\ fired = <<>> /\ ~daemon_quit
  /\ armed \cap ready # {}
  /\ fired' \in Listings(armed \cap ready)
  /\ UNCHANGED <<conns, epoll, leader, daemon_quit, kernel, memory, pc, my, bug>>

\* aeApiPoll: an event is disabled when it fires (EPOLLONESHOT).
Poll(w) ==
  /\ pc[w] = "lead" /\ fired = <<>> /\ ~daemon_quit
  /\ armed \cap ready # {}
  /\ fired' \in Listings(armed \cap ready)
  /\ armed' = armed \ ready
  /\ UNCHANGED <<conns, registered, leader, daemon_quit, kernel, memory, pc, my, bug>>

\* Mutant: the lock is kept.
QuitLocked(w) ==
  /\ pc[w] = "lead" /\ daemon_quit
  /\ goto(w, "stopped")
  /\ UNCHANGED <<conns, fired, epoll, leader, daemon_quit, kernel, memory, my, bug>>

Quit(w) ==
  /\ pc[w] = "lead" /\ daemon_quit
  /\ leader' = NULL /\ goto(w, "stopped")
  /\ UNCHANGED <<conns, fired, epoll, daemon_quit, kernel, memory, my, bug>>

\* The last of the fired descriptors; the leader steps down to drive it.
Take(w) ==
  /\ pc[w] = "lead" /\ fired # <<>> /\ ~daemon_quit
  /\ LET fd == Last(fired)
     IN /\ fired' = Front(fired)
        /\ IF conns[fd] = NULL
           THEN /\ bug' = TRUE /\ armed' = armed \ {fd} /\ registered' = registered \ {fd}
                /\ open' = open \ {fd} /\ ready' = ready \ {fd}
                /\ UNCHANGED <<leader, my, pc>>
           ELSE /\ leader' = NULL /\ my' = [my EXCEPT ![w].fd = fd, ![w].c = conns[fd]]
                /\ goto(w, "drive")
                /\ UNCHANGED <<epoll, open, ready, bug>>
  /\ UNCHANGED <<conns, daemon_quit, backlog, connects, memory>>

-----------------------------------------------------------------------------
\* drive_machine for a client: what has arrived is read and dealt with, ...
Serve(w) ==
  /\ pc[w] = "drive" /\ my[w].fd # Listen /\ my[w].fd \in ready
  /\ ready' = ready \ {my[w].fd}
  /\ UNCHANGED <<conns, fired, epoll, leader, daemon_quit, open, backlog, connects, memory, pc, my, bug>>

\* ... until there is no more (of the listening socket: nobody to accept), ...
Wait(w) ==
  /\ pc[w] = "drive" /\ my[w].fd \notin ready
  /\ goto(w, "update_event")
  /\ UNCHANGED <<conns, fired, epoll, leader, daemon_quit, kernel, memory, my, bug>>

\* ... or the client asked to quit, or is gone.
Hangup(w) ==
  /\ pc[w] = "drive" /\ my[w].fd # Listen
  /\ goto(w, "conn_close")
  /\ UNCHANGED <<conns, fired, epoll, leader, daemon_quit, kernel, memory, my, bug>>

\* update_event: the table first, ...
UpdateEvent(w) ==
  /\ pc[w] = "update_event"
  /\ conns' = [conns EXCEPT ![my[w].fd] = my[w].c]
  /\ goto(w, "mod")
  /\ UNCHANGED <<fired, epoll, leader, daemon_quit, kernel, memory, my, bug>>

\* Mutant: the event is not enabled again.
ModifyNothing(w) ==
  /\ pc[w] = "mod"
  /\ \/ my' = [my EXCEPT ![w] = Idle] /\ goto(w, "top") /\ UNCHANGED <<armed, conns>>
     \/ conns' = [conns EXCEPT ![my[w].fd] = NULL] /\ goto(w, "conn_close")
        /\ UNCHANGED <<armed, my>>
  /\ UNCHANGED <<fired, registered, leader, daemon_quit, kernel, memory, bug>>

\* ... then aeApiUpdateEvent, after which another worker may have the connection.
Modify(w) ==
  /\ pc[w] = "mod"
  /\ \/ /\ armed' = armed \cup {my[w].fd}
        /\ my' = [my EXCEPT ![w] = Idle] /\ goto(w, "top") /\ UNCHANGED conns
     \/ /\ conns' = [conns EXCEPT ![my[w].fd] = NULL] /\ goto(w, "conn_close")
        /\ UNCHANGED <<armed, my>>        \* epoll_ctl failed
  /\ UNCHANGED <<fired, registered, leader, daemon_quit, kernel, memory, bug>>

-----------------------------------------------------------------------------
\* conn_close: delete_event, ...
DeleteEvent(w) ==
  /\ pc[w] = "conn_close"
  /\ conns' = [conns EXCEPT ![sfd[my[w].c]] = NULL]
  /\ goto(w, "del")
  /\ UNCHANGED <<fired, epoll, leader, daemon_quit, kernel, memory, my, bug>>

ApiDelEvent(w) ==
  /\ pc[w] = "del"
  /\ registered' = registered \ {sfd[my[w].c]} /\ armed' = armed \ {sfd[my[w].c]}
  /\ goto(w, "close")
  /\ UNCHANGED <<conns, fired, leader, daemon_quit, kernel, memory, my, bug>>

\* ... close, after which the descriptor may be that of a new connection, ...
CloseSocket(w) ==
  /\ pc[w] = "close"
  /\ open' = open \ {sfd[my[w].c]} /\ ready' = ready \ {sfd[my[w].c]}
  /\ backlog' = IF sfd[my[w].c] = Listen THEN 0 ELSE backlog
  /\ sfd' = [sfd EXCEPT ![my[w].c] = NULL]
  /\ my' = [my EXCEPT ![w].fd = NULL] /\ goto(w, "free")
  /\ UNCHANGED <<conns, fired, epoll, leader, daemon_quit, connects, freeconns, heap, bug>>

\* conn_add_to_freelist, or conn_free if it has big buffers or the list cannot grow.
release(c) ==
  \/ freeconns' = Append(freeconns, c) /\ UNCHANGED heap
  \/ heap' = heap \cup {c} /\ UNCHANGED freeconns

\* ... and the free list.
Free(w) ==
  /\ pc[w] = "free"
  /\ release(my[w].c)
  /\ my' = [my EXCEPT ![w] = Idle] /\ goto(w, "top")
  /\ UNCHANGED <<conns, fired, epoll, leader, daemon_quit, kernel, sfd, bug>>

-----------------------------------------------------------------------------
\* drive_machine for the listening socket.
accepted == /\ backlog' = backlog - 1
            /\ ready' = IF backlog = 1 THEN ready \ {Listen} ELSE ready

Accept(w) ==
  /\ pc[w] = "drive" /\ my[w].fd = Listen /\ backlog > 0
  /\ accepted
  /\ \E fd \in Fd \ open : open' = open \cup {fd} /\ my' = [my EXCEPT ![w].newfd = fd]
  /\ goto(w, "conn_new")
  /\ UNCHANGED <<conns, fired, epoll, leader, daemon_quit, connects, memory, bug>>

\* EMFILE, at any time since the files of the store take descriptors too: the
\* spare one serves to accept and close one connection.
AcceptFull(w) ==
  /\ pc[w] = "drive" /\ my[w].fd = Listen /\ backlog > 0
  /\ accepted
  /\ goto(w, "update_event")
  /\ UNCHANGED <<conns, fired, epoll, leader, daemon_quit, open, connects, memory, my, bug>>

\* conn_new: a structure from the free list, or a new one, or none, ...
ConnNew(w) ==
  /\ pc[w] = "conn_new"
  /\ \/ /\ freeconns # <<>>
        /\ my' = [my EXCEPT ![w].new = Last(freeconns)] /\ freeconns' = Front(freeconns)
        /\ sfd' = [sfd EXCEPT ![Last(freeconns)] = my[w].newfd]
        /\ goto(w, "add_event") /\ UNCHANGED heap
     \/ /\ freeconns = <<>>
        /\ \E c \in heap : /\ my' = [my EXCEPT ![w].new = c] /\ heap' = heap \ {c}
                           /\ sfd' = [sfd EXCEPT ![c] = my[w].newfd]
        /\ goto(w, "add_event") /\ UNCHANGED freeconns
     \/ /\ freeconns = <<>>
        /\ goto(w, "refuse") /\ UNCHANGED <<my, memory>>
  /\ UNCHANGED <<conns, fired, epoll, leader, daemon_quit, kernel, bug>>

\* Mutant: the size of the table is not looked at.
AddEventAny(w) ==
  /\ pc[w] = "add_event"
  /\ conns' = [fd \in DOMAIN conns |-> IF fd = my[w].newfd THEN my[w].new ELSE conns[fd]]
  /\ goto(w, "add")
  /\ UNCHANGED <<fired, epoll, leader, daemon_quit, kernel, memory, my, bug>>

\* ... which add_event enters into the table, ...
AddEvent(w) ==
  /\ pc[w] = "add_event"
  /\ LET fd == my[w].newfd
     IN IF fd >= AE_SETSIZE THEN goto(w, "undo") /\ UNCHANGED conns
        ELSE IF conns[fd] # NULL THEN goto(w, "undo") /\ UNCHANGED conns
        ELSE conns' = [conns EXCEPT ![fd] = my[w].new] /\ goto(w, "add")
  /\ UNCHANGED <<fired, epoll, leader, daemon_quit, kernel, memory, my, bug>>

\* Mutant: a failure leaves the entry in the table.
ApiAddEventKeeps(w) ==
  /\ pc[w] = "add"
  /\ LET fd == my[w].newfd
     IN \/ /\ registered' = registered \cup {fd} /\ armed' = armed \cup {fd}
           /\ my' = [my EXCEPT ![w].newfd = NULL, ![w].new = NULL] /\ goto(w, "drive")
        \/ goto(w, "undo") /\ UNCHANGED <<epoll, my>>
  /\ UNCHANGED <<conns, fired, leader, daemon_quit, kernel, memory, bug>>

\* ... and aeApiAddEvent into the epoll set: from here on another worker may drive it.
ApiAddEvent(w) ==
  /\ pc[w] = "add"
  /\ LET fd == my[w].newfd
     IN \/ /\ registered' = registered \cup {fd} /\ armed' = armed \cup {fd}
           /\ my' = [my EXCEPT ![w].newfd = NULL, ![w].new = NULL]
           /\ goto(w, "drive") /\ UNCHANGED conns
        \/ /\ conns' = [conns EXCEPT ![fd] = NULL]    \* epoll_ctl failed
           /\ goto(w, "undo") /\ UNCHANGED <<epoll, my>>
  /\ UNCHANGED <<fired, leader, daemon_quit, kernel, memory, bug>>

\* A connection that could not be registered is given back, and its socket closed.
Undo(w) ==
  /\ pc[w] = "undo"
  /\ release(my[w].new)
  /\ my' = [my EXCEPT ![w].new = NULL]
  /\ goto(w, "refuse")
  /\ UNCHANGED <<conns, fired, epoll, leader, daemon_quit, kernel, sfd, bug>>

Refuse(w) ==
  /\ pc[w] = "refuse"
  /\ open' = open \ {my[w].newfd} /\ ready' = ready \ {my[w].newfd}
  /\ my' = [my EXCEPT ![w].newfd = NULL]
  /\ goto(w, "drive")
  /\ UNCHANGED <<conns, fired, epoll, leader, daemon_quit, backlog, connects, memory, bug>>

worker_main(w) ==
  \/ Top(w) \/ Lead(w) \/ Poll(w) \/ Quit(w) \/ Take(w) \/ Serve(w) \/ Wait(w) \/ Hangup(w)
  \/ UpdateEvent(w) \/ Modify(w)
  \/ DeleteEvent(w) \/ ApiDelEvent(w) \/ CloseSocket(w) \/ Free(w)
  \/ Accept(w) \/ AcceptFull(w) \/ ConnNew(w) \/ AddEvent(w) \/ ApiAddEvent(w)
  \/ Undo(w) \/ Refuse(w)

-----------------------------------------------------------------------------
\* Clients connect, and send something or close their end, at any time.
Connect ==
  /\ connects < MaxConnects /\ Listen \in open
  /\ connects' = connects + 1 /\ backlog' = backlog + 1 /\ ready' = ready \cup {Listen}
  /\ UNCHANGED <<conns, fired, epoll, leader, daemon_quit, open, memory, pc, my, bug>>

Arrive(fd) ==
  /\ fd \in open \ (ready \cup {Listen})
  /\ ready' = ready \cup {fd}
  /\ UNCHANGED <<conns, fired, epoll, leader, daemon_quit, open, backlog, connects, memory, pc, my, bug>>

\* sig_handler.
Signal ==
  /\ ~daemon_quit /\ daemon_quit' = TRUE
  /\ UNCHANGED <<conns, fired, epoll, leader, kernel, memory, pc, my, bug>>

Next == (\E w \in Worker : worker_main(w)) \/ Connect \/ (\E fd \in Fd : Arrive(fd)) \/ Signal

Spec == Init /\ [][Next]_vars

\* A worker that can go on does, the leader's lock is not kept from a worker for
\* ever, and no client sends so fast that a worker never finds its socket empty.
Fairness ==
  \A w \in Worker :
    WF_vars(worker_main(w)) /\ SF_vars(Lead(w)) /\ SF_vars(Wait(w))

FairSpec == Spec /\ Fairness

-----------------------------------------------------------------------------
\* Where a worker has a new socket; where it drives a connection; all of it.
Accepting == {"conn_new", "add_event", "add", "undo", "refuse"}
Driving == Accepting \cup {"drive", "update_event", "mod", "conn_close", "del", "close"}
Labels == Driving \cup {"top", "lock", "lead", "stopped", "free"}

Locals == [fd : Fd \cup {NULL}, c : Conn \cup {NULL}, newfd : Fd \cup {NULL}, new : Conn \cup {NULL}]

TypeOK ==
  /\ conns \in [Table -> Conn \cup {NULL}] /\ fired \in Seq(Table)
  /\ armed \subseteq Table /\ registered \subseteq Table
  /\ leader \in Worker \cup {NULL} /\ open \subseteq Fd /\ ready \subseteq open
  /\ backlog \in Nat /\ connects \in 0 .. MaxConnects
  /\ sfd \in [Conn -> Fd \cup {NULL}] /\ freeconns \in Seq(Conn) /\ heap \subseteq Conn
  /\ pc \in [Worker -> Labels]
  /\ my \in [Worker -> Locals]
  /\ bug \in BOOLEAN

\* What a worker has in its hands at each label.
Hands ==
  \A w \in Worker :
    /\ pc[w] \notin Driving => my[w].fd = NULL
    /\ pc[w] \notin Driving \cup {"free"} => my[w].c = NULL
    /\ pc[w] \in Driving => /\ my[w].fd \in open \cap Table /\ my[w].c # NULL
                            /\ sfd[my[w].c] = my[w].fd
    /\ pc[w] = "free" => my[w].c # NULL /\ sfd[my[w].c] = NULL
    /\ IF pc[w] \in Accepting THEN my[w].newfd \in open ELSE my[w].newfd = NULL
    /\ IF pc[w] \in {"add_event", "add", "undo"}
       THEN my[w].new # NULL /\ sfd[my[w].new] = my[w].newfd ELSE my[w].new = NULL

\* The table of connections, and what it has for the sockets in a worker's hands.
Entries ==
  /\ \A fd \in Table : conns[fd] # NULL => fd \in open /\ sfd[conns[fd]] = fd
  /\ \A w \in Worker :
       /\ pc[w] \in Accepting \cup {"drive", "update_event", "mod"} => conns[my[w].fd] = my[w].c
       /\ pc[w] \in {"del", "close"} => conns[my[w].fd] = NULL
       /\ pc[w] \in Driving \ {"close"} => my[w].fd \in registered
       /\ pc[w] = "add" => my[w].newfd \in Table /\ conns[my[w].newfd] = my[w].new
       /\ pc[w] \in Accepting \ {"add"} /\ my[w].newfd \in Table => conns[my[w].newfd] = NULL

\* No two workers have the same socket or structure, and none has one twice.
Apart ==
  \A w, v \in Worker :
    /\ w # v /\ my[w].fd # NULL => my[w].fd # my[v].fd
    /\ w # v /\ my[w].c # NULL => my[w].c # my[v].c
    /\ w # v /\ my[w].newfd # NULL => my[w].newfd # my[v].newfd
    /\ w # v /\ my[w].new # NULL => my[w].new # my[v].new
    /\ my[w].fd # NULL => my[w].fd # my[v].newfd
    /\ my[w].c # NULL => my[w].c # my[v].new

\* An event that can fire, or has fired, is that of a connection in nobody's hands.
Events ==
  /\ \A fd \in armed \cup Range(fired) :
       /\ conns[fd] # NULL /\ fd \in registered
       /\ \A w \in Worker : fd # my[w].fd /\ fd # my[w].newfd
  /\ armed \cap Range(fired) = {}
  /\ \A i, j \in 1 .. Len(fired) : fired[i] = fired[j] => i = j

\* The workers that use a structure, as the connection they drive or a new one.
users(c) == {w \in Worker : c \in {my[w].c, my[w].new}}

\* A connection is driven by one worker at a time, and while it is, its event
\* neither waits to be taken nor can fire: drive_machine needs no lock.
OneDriver ==
  \A w \in Worker :
    my[w].c # NULL =>
      /\ users(my[w].c) \subseteq {w}
      /\ my[w].fd \notin armed /\ my[w].fd \notin Range(fired)

\* The leader never finds a fired descriptor without a connection, the case that
\* worker_main logs as a bug.
NoNullConn == ~bug

\* A structure that is free is in nobody's hands, and is free only once.
FreeIsUnused ==
  /\ \A c \in Range(freeconns) \cup heap :
       /\ \A fd \in Table : conns[fd] # c
       /\ \A w \in Worker : c # my[w].c /\ c # my[w].new
  /\ Range(freeconns) \cap heap = {}
  /\ \A i, j \in 1 .. Len(freeconns) : freeconns[i] = freeconns[j] => i = j

\* A worker talks to the socket of its own connection, and no other connection
\* has that socket, although descriptors are used again as soon as they are closed.
OwnSocket ==
  /\ \A fd \in Table : conns[fd] # NULL => fd \in open /\ sfd[conns[fd]] = fd
  /\ \A w \in Worker : pc[w] \in {"drive", "update_event", "mod"} =>
                         my[w].fd \in open /\ sfd[my[w].c] = my[w].fd

\* No socket is forgotten: one that is open, and not in the hands of a worker, is
\* known to the loop and has fired or can fire.
NothingForgotten ==
  \A fd \in open :
    \/ \E w \in Worker : fd = my[w].fd \/ fd = my[w].newfd
    \/ fd \in Table /\ conns[fd] # NULL /\ fd \in armed \cup Range(fired)

\* The inductive invariant of EventLoopProofs; NoNullConn is part of it.
IInv == TypeOK /\ Hands /\ Entries /\ Apart /\ Events /\ FreeIsUnused /\ NothingForgotten /\ NoNullConn

\* What a client sends is read, or its connection is closed, unless the server stops.
Served == \A fd \in Fd : fd \in ready ~> fd \notin ready \/ daemon_quit

\* After a signal every worker leaves worker_main, so that hs_close is reached.
AllStop == daemon_quit ~> \A w \in Worker : pc[w] = "stopped"
=============================================================================
