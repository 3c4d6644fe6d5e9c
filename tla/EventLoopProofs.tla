--------------------------- MODULE EventLoopProofs --------------------------
(***************************************************************************)
(* EventLoop: every action preserves the invariant, and what follows from  *)
(* it, for any number of workers, connections and descriptors.  Each proof *)
(* states first what the action does, value by value, and what the         *)
(* invariant says of the worker, then takes the conjuncts that the action  *)
(* can disturb one by one.  The lemmas that come first are about lists,    *)
(* the locals of a worker, and the types.                                  *)
(***************************************************************************)
EXTENDS EventLoop, TLAPS

\* A sequence is its last element after its front.
LEMMA FrontLast ==
  ASSUME NEW S, NEW s \in Seq(S), s # <<>>,
         \A i, j \in 1 .. Len(s) : s[i] = s[j] => i = j
  PROVE  /\ Front(s) \in Seq(S) /\ Last(s) \in S
         /\ Range(s) = Range(Front(s)) \cup {Last(s)} /\ Last(s) \notin Range(Front(s))
         /\ \A i, j \in 1 .. Len(Front(s)) : Front(s)[i] = Front(s)[j] => i = j
  <1>1. Len(s) \in Nat \ {0} /\ DOMAIN s = 1 .. Len(s)
    OBVIOUS
  <1>2. \A i \in 1 .. Len(s) : s[i] \in S
    BY <1>1
  <1> DEFINE f == Front(s)
  <1>3. f \in Seq(S) /\ Len(f) = Len(s) - 1 /\ \A i \in 1 .. Len(s) - 1 : f[i] = s[i]
    BY <1>1, <1>2, Z3 DEF Front
  <1>4. DOMAIN f = 1 .. Len(s) - 1
    BY <1>3
  <1>5. Last(s) = s[Len(s)] /\ Last(s) \in S
    BY <1>1, <1>2 DEF Last
  <1>6. Range(s) = Range(f) \cup {Last(s)}
    <2>1. 1 .. Len(s) = (1 .. Len(s) - 1) \cup {Len(s)}
      BY <1>1
    <2> QED
      BY <1>1, <1>3, <1>4, <1>5, <2>1 DEF Range
  <1>7. Last(s) \notin Range(f)
    BY <1>1, <1>3, <1>4, <1>5 DEF Range
  <1> QED
    BY <1>1, <1>3, <1>4, <1>5, <1>6, <1>7

\* A sequence with one more element.
LEMMA AppendRange ==
  ASSUME NEW S, NEW s \in Seq(S), NEW c \in S
  PROVE  /\ Append(s, c) \in Seq(S)
         /\ Range(Append(s, c)) = Range(s) \cup {c}
         /\ c \notin Range(s) /\ (\A i, j \in 1 .. Len(s) : s[i] = s[j] => i = j)
              => \A i, j \in 1 .. Len(Append(s, c)) : Append(s, c)[i] = Append(s, c)[j] => i = j
  <1>1. Len(s) \in Nat /\ DOMAIN s = 1 .. Len(s)
    OBVIOUS
  <1> DEFINE a == Append(s, c)
  <1>2. /\ a \in Seq(S) /\ Len(a) = Len(s) + 1 /\ a[Len(s) + 1] = c
        /\ \A i \in 1 .. Len(s) : a[i] = s[i]
    OBVIOUS
  <1>3. DOMAIN a = 1 .. Len(s) + 1
    BY <1>2
  <1>4. 1 .. Len(s) + 1 = (1 .. Len(s)) \cup {Len(s) + 1}
    BY <1>1
  <1>5. Range(a) = Range(s) \cup {c}
    BY <1>1, <1>2, <1>3, <1>4 DEF Range
  <1>6. ASSUME c \notin Range(s), \A i, j \in 1 .. Len(s) : s[i] = s[j] => i = j
        PROVE  \A i, j \in 1 .. Len(a) : a[i] = a[j] => i = j
    BY <1>1, <1>2, <1>4, <1>6 DEF Range
  <1> QED
    BY Zenon, <1>2, <1>5, <1>6

\* A sequence over a set is one over a larger set.
LEMMA SeqSubset ==
  ASSUME NEW S, NEW T, S \subseteq T, NEW s \in Seq(S)
  PROVE  s \in Seq(T)
  <1>1. Len(s) \in Nat /\ s \in [1 .. Len(s) -> S]
    OBVIOUS
  <1>2. s \in [1 .. Len(s) -> T]
    BY Zenon, <1>1
  <1> QED
    BY <1>1, <1>2

\* What a worker does to its locals.
LEMMA LocalsChange ==
  ASSUME my \in [Worker -> Locals], NEW w \in Worker,
         NEW f \in Fd \cup {NULL}, NEW c \in Conn \cup {NULL}
  PROVE  /\ [my EXCEPT ![w].fd = f, ![w].c = c] \in [Worker -> Locals]
         /\ [my EXCEPT ![w].newfd = f] \in [Worker -> Locals]
         /\ [my EXCEPT ![w].new = c] \in [Worker -> Locals]
         /\ [my EXCEPT ![w].newfd = f, ![w].new = c] \in [Worker -> Locals]
  <1>1. [my EXCEPT ![w].fd = f, ![w].c = c] \in [Worker -> Locals]
    BY Zenon, ZenonT(30) DEF Locals
  <1>2. [my EXCEPT ![w].newfd = f] \in [Worker -> Locals]
    BY Zenon DEF Locals
  <1>3. [my EXCEPT ![w].new = c] \in [Worker -> Locals]
    BY Zenon DEF Locals
  <1>4. [my EXCEPT ![w].newfd = f, ![w].new = c] \in [Worker -> Locals]
    BY Zenon, ZenonT(30) DEF Locals
  <1> QED
    BY Zenon, <1>1, <1>2, <1>3, <1>4

\* What aeApiPoll may report: each event once.
LEMMA Listing ==
  ASSUME NEW S, Cardinality(S) \in Nat, NEW f \in Listings(S)
  PROVE  /\ f \in Seq(S) /\ Range(f) = S
         /\ \A i, j \in 1 .. Len(f) : f[i] = f[j] => i = j
  <1> DEFINE D == 1 .. Cardinality(S)
  <1>2. /\ f \in [D -> S] /\ \A i, j \in D : f[i] = f[j] => i = j
        /\ \A e \in S : \E i \in D : f[i] = e
    BY Zenon DEF Listings, Bijection, Injection, Surjection, IsInjective
  <1>3. f \in Seq(S) /\ Len(f) = Cardinality(S)
    BY <1>2
  <1>4. Range(f) = S
    BY <1>2 DEF Range
  <1> QED
    BY Zenon, <1>2, <1>3, <1>4

\* The fired descriptors are in the table, and the last of them is one of a connection.
LEMMA FiredLast ==
  ASSUME IInv
  PROVE  /\ Range(fired) \subseteq Table /\ Range(freeconns) \subseteq Conn
         /\ fired # <<>> =>
              /\ Front(fired) \in Seq(Table) /\ Last(fired) \in Table
              /\ Range(fired) = Range(Front(fired)) \cup {Last(fired)}
              /\ Last(fired) \notin Range(Front(fired))
              /\ \A i, j \in 1 .. Len(Front(fired)) : Front(fired)[i] = Front(fired)[j] => i = j
         /\ freeconns # <<>> =>
              /\ Front(freeconns) \in Seq(Conn) /\ Last(freeconns) \in Conn
              /\ Range(freeconns) = Range(Front(freeconns)) \cup {Last(freeconns)}
              /\ Last(freeconns) \notin Range(Front(freeconns))
              /\ \A i, j \in 1 .. Len(Front(freeconns)) :
                   Front(freeconns)[i] = Front(freeconns)[j] => i = j
  <1>1. fired \in Seq(Table) /\ freeconns \in Seq(Conn)
    BY Zenon DEF IInv, TypeOK
  <1>2. Range(fired) \subseteq Table /\ Range(freeconns) \subseteq Conn
    BY <1>1 DEF Range
  <1>3. /\ \A i, j \in 1 .. Len(fired) : fired[i] = fired[j] => i = j
        /\ \A i, j \in 1 .. Len(freeconns) : freeconns[i] = freeconns[j] => i = j
    BY Zenon DEF IInv, Events, FreeIsUnused
  <1> QED
    BY Zenon, <1>1, <1>2, <1>3, FrontLast

\* What conn_close and conn_new give back joins the structures that are free.
LEMMA Released ==
  ASSUME IInv, NEW c \in Conn, c \notin Range(freeconns) \cup heap, release(c)
  PROVE  /\ freeconns' \in Seq(Conn) /\ heap' \subseteq Conn
         /\ Range(freeconns') \cup heap' = Range(freeconns) \cup heap \cup {c}
         /\ Range(freeconns') \cap heap' = {}
         /\ \A i, j \in 1 .. Len(freeconns') : freeconns'[i] = freeconns'[j] => i = j
  <1>1. /\ freeconns \in Seq(Conn) /\ heap \subseteq Conn /\ Range(freeconns) \cap heap = {}
        /\ \A i, j \in 1 .. Len(freeconns) : freeconns[i] = freeconns[j] => i = j
    BY Zenon DEF IInv, TypeOK, FreeIsUnused
  <1>2. CASE freeconns' = Append(freeconns, c) /\ UNCHANGED heap
    <2>1. /\ freeconns' \in Seq(Conn) /\ Range(freeconns') = Range(freeconns) \cup {c}
          /\ \A i, j \in 1 .. Len(freeconns') : freeconns'[i] = freeconns'[j] => i = j
      BY <1>1, <1>2, AppendRange
    <2>2. heap' = heap
      BY Zenon, <1>2
    <2> QED
      BY Zenon, <1>1, <2>1, <2>2
  <1>3. CASE heap' = heap \cup {c} /\ UNCHANGED freeconns
    <2>1. heap' = heap \cup {c} /\ freeconns' = freeconns
      BY Zenon, <1>3
    <2> QED
      BY Zenon, <1>1, <2>1
  <1> QED
    BY Zenon, <1>2, <1>3 DEF release

\* What the types say, in the form in which the lemmas below use it.
Typed ==
  /\ conns \in [Table -> Conn \cup {NULL}] /\ sfd \in [Conn -> Fd \cup {NULL}]
  /\ pc \in [Worker -> Labels] /\ my \in [Worker -> Locals]
  /\ Range(fired) \subseteq Table /\ armed \subseteq Table /\ open \subseteq Fd
  /\ Range(freeconns) \subseteq Conn /\ heap \subseteq Conn
  /\ Table \subseteq Fd /\ NULL \notin Fd /\ NULL \notin Conn
  /\ \A v \in Worker : /\ my[v].fd \in Fd \cup {NULL} /\ my[v].newfd \in Fd \cup {NULL}
                       /\ my[v].c \in Conn \cup {NULL} /\ my[v].new \in Conn \cup {NULL}

\* The invariant has these types.
LEMMA Basics ==
  ASSUME IInv
  PROVE  Typed
  <1>1. /\ conns \in [Table -> Conn \cup {NULL}] /\ sfd \in [Conn -> Fd \cup {NULL}]
        /\ pc \in [Worker -> Labels] /\ my \in [Worker -> Locals]
        /\ armed \subseteq Table /\ open \subseteq Fd /\ heap \subseteq Conn
    BY Zenon DEF IInv, TypeOK
  <1>2. \A v \in Worker : /\ my[v].fd \in Fd \cup {NULL} /\ my[v].newfd \in Fd \cup {NULL}
                          /\ my[v].c \in Conn \cup {NULL} /\ my[v].new \in Conn \cup {NULL}
    BY Zenon, <1>1 DEF Locals
  <1>3. Range(fired) \subseteq Table /\ Range(freeconns) \subseteq Conn
    BY Zenon, FiredLast
  <1>4. Table \subseteq Fd /\ NULL \notin Fd /\ NULL \notin Conn
    BY Zenon, EventLoopAssumption DEF Table
  <1> QED
    BY Zenon, <1>1, <1>2, <1>3, <1>4 DEF Typed

-----------------------------------------------------------------------------
USE DEF Labels, Driving, Accepting

\* add_event enters the new connection into the table, if that has room.
LEMMA AddEventInv ==
  ASSUME IInv, NEW w \in Worker, AddEvent(w)
  PROVE  IInv'
  <1>1. ASSUME pc[w] = "add_event",
               my[w].newfd \in Table,
               conns[my[w].newfd] = NULL,
               conns' = [conns EXCEPT ![my[w].newfd] = my[w].new],
               goto(w, "add"),
               UNCHANGED <<fired, registered, armed, leader, open, ready, backlog, connects,
                           sfd, freeconns, heap, my, bug>>
        PROVE  IInv'
    <2>t. Typed
      BY Zenon, Basics
    <2>a. /\ pc[w] = "add_event"
          /\ pc' \in [Worker -> Labels] /\ \A v \in Worker : pc'[v] = IF v = w THEN "add" ELSE pc[v]
          /\ my[w].newfd \in Table /\ conns[my[w].newfd] = NULL
          /\ UNCHANGED <<fired, registered, armed, leader, open, ready, backlog, connects, sfd,
                         freeconns, heap, my, bug>>
      BY Zenon, <1>1, <2>t DEF Typed, goto
    <2>b. my[w].new \in Conn /\ sfd[my[w].new] = my[w].newfd /\ my[w].newfd \in open
      BY Zenon, <2>t, <2>a DEF IInv, Hands, Typed
    <2>c. /\ conns' \in [Table -> Conn \cup {NULL}]
          /\ \A n \in Table : conns'[n] = IF n = my[w].newfd THEN my[w].new ELSE conns[n]
      BY Zenon, <1>1, <2>t, <2>b DEF Typed
    <2> USE <2>t, <2>a, <2>b, <2>c DEF Typed
    <2>1. TypeOK'
      BY Zenon DEF IInv, TypeOK
    <2>2. Hands'
      BY DEF IInv, Hands
    <2>3. Entries'
      BY DEF IInv, Entries, Hands, Apart
    <2>4. Events'
      BY DEF IInv, Events
    <2>5. FreeIsUnused'
      BY DEF IInv, FreeIsUnused
    <2>6. NothingForgotten'
      BY ZenonT(30) DEF IInv, NothingForgotten
    <2>7. Apart' /\ NoNullConn'
      BY DEF IInv, Apart, NoNullConn
    <2> QED
      BY Zenon, <2>1, <2>2, <2>3, <2>4, <2>5, <2>6, <2>7 DEF IInv
  <1>2. ASSUME pc[w] = "add_event",
               goto(w, "undo"),
               UNCHANGED <<conns, fired, registered, armed, leader, open, ready, backlog,
                           connects, sfd, freeconns, heap, my, bug>>
        PROVE  IInv'
    <2>t. Typed
      BY Basics
    <2>a. /\ pc[w] = "add_event"
          /\ pc' \in [Worker -> Labels] /\ \A v \in Worker : pc'[v] = IF v = w THEN "undo" ELSE pc[v]
          /\ UNCHANGED <<conns, fired, registered, armed, leader, open, ready, backlog,
                         connects, sfd, freeconns, heap, my, bug>>
      BY Zenon, <1>2, <2>t DEF Typed, goto
    <2> USE <2>t, <2>a DEF Typed
    <2>1. TypeOK'
      BY Zenon DEF IInv, TypeOK
    <2>2. Hands'
      BY DEF IInv, Hands
    <2>3. Entries'
      BY SMTT(30) DEF IInv, Entries
    <2>4. Apart' /\ Events' /\ FreeIsUnused' /\ NothingForgotten' /\ NoNullConn'
      BY DEF IInv, Apart, Events, FreeIsUnused, NothingForgotten, NoNullConn
    <2> QED
      BY Zenon, <2>1, <2>2, <2>3, <2>4 DEF IInv
  <1> QED
    <2>1. pc[w] = "add_event"
      BY Zenon DEF AddEvent
    <2>2. my[w].newfd \in Fd
      <3>1. my[w].newfd \in open
        BY Zenon, <2>1 DEF IInv, Hands
      <3>2. open \subseteq Fd
        BY Zenon, Basics DEF Typed
      <3> QED
        BY Zenon, <3>1, <3>2
    <2>3. UNCHANGED <<fired, registered, armed, leader, open, ready, backlog, connects, sfd,
                      freeconns, heap, my, bug>>
      BY Zenon DEF AddEvent, epoll, kernel, memory
    <2>4. \/ /\ my[w].newfd \in Table /\ conns[my[w].newfd] = NULL
             /\ conns' = [conns EXCEPT ![my[w].newfd] = my[w].new] /\ goto(w, "add")
          \/ goto(w, "undo") /\ UNCHANGED conns
      <3>1. ~(my[w].newfd >= AE_SETSIZE) => my[w].newfd \in Table
        <4>1. my[w].newfd \in Nat /\ AE_SETSIZE \in Nat
          BY Zenon, <2>2, EventLoopAssumption, ZenonT(30)
        <4> QED
          BY <2>2, <4>1 DEF Table
      <3> QED
        BY Zenon, <3>1 DEF AddEvent
    <2> QED
      BY Zenon, <1>1, <1>2, <2>1, <2>3, <2>4

\* aeApiAddEvent adds it to the epoll set, or fails.
LEMMA ApiAddEventInv ==
  ASSUME IInv, NEW w \in Worker, ApiAddEvent(w)
  PROVE  IInv'
  <1>1. ASSUME pc[w] = "add",
               registered' = registered \cup {my[w].newfd},
               armed' = armed \cup {my[w].newfd},
               my' = [my EXCEPT ![w].newfd = NULL, ![w].new = NULL],
               goto(w, "drive"),
               UNCHANGED <<conns, fired, leader, open, ready, backlog, connects, sfd,
                           freeconns, heap, bug>>
        PROVE  IInv'
    <2>t. Typed
      BY Basics
    <2>a. /\ pc[w] = "add"
          /\ pc' \in [Worker -> Labels] /\ \A v \in Worker : pc'[v] = IF v = w THEN "drive" ELSE pc[v]
          /\ registered' = registered \cup {my[w].newfd}
          /\ armed' = armed \cup {my[w].newfd}
          /\ UNCHANGED <<conns, fired, leader, open, ready, backlog, connects, sfd, freeconns,
                         heap, bug>>
      BY Zenon, <1>1, <2>t DEF Typed, goto
    <2>b. /\ my[w].new \in Conn /\ sfd[my[w].new] = my[w].newfd /\ my[w].newfd \in open
          /\ my[w].newfd \in Table /\ conns[my[w].newfd] = my[w].new
      BY Zenon, <2>t, <2>a DEF IInv, Hands, Entries, Typed
    <2>c. /\ my' \in [Worker -> Locals] /\ \A v \in Worker : v # w => my'[v] = my[v]
          /\ my'[w].fd = my[w].fd /\ my'[w].c = my[w].c
          /\ my'[w].newfd = NULL /\ my'[w].new = NULL
      <3>1. my' \in [Worker -> Locals]
        BY Zenon, <1>1, <2>t, LocalsChange, ZenonT(30) DEF Typed
      <3> QED
        BY <1>1, <2>t, <3>1 DEF Typed, Locals
    <2> USE <2>t, <2>a, <2>b, <2>c DEF Typed
    <2>1. TypeOK'
      BY ZenonT(30) DEF IInv, TypeOK
    <2>2. Hands'
      BY SMTT(30) DEF IInv, Hands
    <2>3. Entries'
      BY DEF IInv, Entries
    <2>4. Apart'
      BY SMTT(30) DEF IInv, Apart
    <2>5. Events'
      BY DEF IInv, Events, Apart
    <2>6. FreeIsUnused'
      BY SMTT(30) DEF IInv, FreeIsUnused
    <2>7. NothingForgotten'
      BY DEF IInv, NothingForgotten
    <2>8. NoNullConn'
      BY Zenon DEF IInv, NoNullConn
    <2> QED
      BY Zenon, <2>1, <2>2, <2>3, <2>4, <2>5, <2>6, <2>7, <2>8 DEF IInv
  <1>2. ASSUME pc[w] = "add",
               conns' = [conns EXCEPT ![my[w].newfd] = NULL],
               goto(w, "undo"),
               UNCHANGED <<fired, registered, armed, leader, open, ready, backlog, connects,
                           sfd, freeconns, heap, my, bug>>
        PROVE  IInv'
    <2>t. Typed
      BY Basics
    <2>a. /\ pc[w] = "add"
          /\ pc' \in [Worker -> Labels] /\ \A v \in Worker : pc'[v] = IF v = w THEN "undo" ELSE pc[v]
          /\ UNCHANGED <<fired, registered, armed, leader, open, ready, backlog, connects, sfd,
                         freeconns, heap, my, bug>>
      BY Zenon, <1>2, <2>t DEF Typed, goto
    <2>b. /\ my[w].new \in Conn /\ sfd[my[w].new] = my[w].newfd /\ my[w].newfd \in open
          /\ my[w].newfd \in Table /\ conns[my[w].newfd] = my[w].new
      BY Zenon, <2>t, <2>a DEF IInv, Hands, Entries, Typed
    <2>c. /\ conns' \in [Table -> Conn \cup {NULL}]
          /\ \A n \in Table : conns'[n] = IF n = my[w].newfd THEN NULL ELSE conns[n]
      BY Zenon, <1>2, <2>t, <2>b DEF Typed
    <2> USE <2>t, <2>a, <2>b, <2>c DEF Typed
    <2>1. TypeOK'
      BY Zenon DEF IInv, TypeOK
    <2>2. Hands'
      BY SMTT(30) DEF IInv, Hands
    <2>3. Entries'
      BY SMTT(30) DEF IInv, Entries, Hands, Apart
    <2>4. Events'
      BY DEF IInv, Events
    <2>5. FreeIsUnused'
      BY DEF IInv, FreeIsUnused
    <2>6. NothingForgotten'
      BY Zenon DEF IInv, NothingForgotten
    <2>7. Apart' /\ NoNullConn'
      BY DEF IInv, Apart, NoNullConn
    <2> QED
      BY Zenon, <2>1, <2>2, <2>3, <2>4, <2>5, <2>6, <2>7 DEF IInv
  <1> QED
    BY Zenon, <1>1, <1>2 DEF ApiAddEvent, epoll, kernel, memory

\* aeApiUpdateEvent enables the event again, or fails.
LEMMA ModifyInv ==
  ASSUME IInv, NEW w \in Worker, Modify(w)
  PROVE  IInv'
  <1>1. ASSUME pc[w] = "mod",
               armed' = armed \cup {my[w].fd},
               my' = [my EXCEPT ![w] = Idle],
               goto(w, "top"),
               UNCHANGED <<conns, fired, registered, leader, open, ready, backlog, connects,
                           sfd, freeconns, heap, bug>>
        PROVE  IInv'
    <2>t. Typed
      BY Zenon, Basics
    <2>a. /\ armed' = armed \cup {my[w].fd}
          /\ pc[w] = "mod"
          /\ pc' \in [Worker -> Labels] /\ \A v \in Worker : pc'[v] = IF v = w THEN "top" ELSE pc[v]
          /\ UNCHANGED <<conns, fired, registered, leader, open, ready, backlog, connects, sfd,
                         freeconns, heap, bug>>
      BY Zenon, <1>1, <2>t DEF Typed, goto
    <2>b. /\ my' \in [Worker -> Locals] /\ \A v \in Worker : v # w => my'[v] = my[v]
          /\ my'[w].fd = NULL /\ my'[w].c = NULL
          /\ my'[w].newfd = NULL /\ my'[w].new = NULL
      BY Zenon, <1>1, <2>t DEF Typed, Locals, Idle
    <2>c. my[w].fd \in open /\ my[w].fd \in Table /\ my[w].c \in Conn /\ sfd[my[w].c] = my[w].fd
      BY Zenon, <2>t, <2>a DEF IInv, Hands, Typed
    <2>d. /\ conns[my[w].fd] = my[w].c /\ my[w].fd \in registered
          /\ my[w].newfd = NULL /\ my[w].new = NULL
      BY Zenon, <2>a DEF IInv, Hands, Entries
    <2> USE <2>t, <2>a, <2>b, <2>c, <2>d DEF Typed
    <2>1. TypeOK'
      BY Zenon DEF IInv, TypeOK
    <2>2. Hands'
      BY DEF IInv, Hands
    <2>3. Entries'
      BY DEF IInv, Entries
    <2>4. Apart'
      BY DEF IInv, Apart
    <2>5. Events'
      BY DEF IInv, Events, Apart
    <2>6. FreeIsUnused'
      BY DEF IInv, FreeIsUnused
    <2>7. NothingForgotten'
      BY DEF IInv, NothingForgotten
    <2>8. NoNullConn'
      BY Zenon DEF IInv, NoNullConn
    <2> QED
      BY Zenon, <2>1, <2>2, <2>3, <2>4, <2>5, <2>6, <2>7, <2>8 DEF IInv
  <1>2. ASSUME pc[w] = "mod",
               conns' = [conns EXCEPT ![my[w].fd] = NULL],
               goto(w, "conn_close"),
               UNCHANGED <<fired, registered, armed, leader, open, ready, backlog, connects,
                           sfd, freeconns, heap, my, bug>>
        PROVE  IInv'
    <2>t. Typed
      BY Basics
    <2>a. /\ pc[w] = "mod"
          /\ pc' \in [Worker -> Labels] /\ \A v \in Worker : pc'[v] = IF v = w THEN "conn_close" ELSE pc[v]
          /\ UNCHANGED <<fired, registered, armed, leader, open, ready, backlog, connects, sfd,
                         freeconns, heap, my, bug>>
      BY Zenon, <1>2, <2>t DEF Typed, goto
    <2>b. my[w].fd \in open /\ my[w].fd \in Table /\ my[w].c \in Conn /\ sfd[my[w].c] = my[w].fd
      BY Zenon, <2>t, <2>a DEF IInv, Hands, Typed
    <2>c. /\ conns' \in [Table -> Conn \cup {NULL}]
          /\ \A n \in Table : conns'[n] = IF n = my[w].fd THEN NULL ELSE conns[n]
      BY Zenon, <1>2, <2>t, <2>b DEF Typed
    <2> USE <2>t, <2>a, <2>b, <2>c DEF Typed
    <2>1. TypeOK'
      BY Zenon DEF IInv, TypeOK
    <2>2. Hands'
      BY SMTT(30) DEF IInv, Hands
    <2>3. Entries'
      BY SMTT(30) DEF IInv, Entries, Hands, Apart
    <2>4. Events'
      BY DEF IInv, Events
    <2>5. FreeIsUnused'
      BY DEF IInv, FreeIsUnused
    <2>6. NothingForgotten'
      BY Zenon DEF IInv, NothingForgotten
    <2>7. Apart' /\ NoNullConn'
      BY DEF IInv, Apart, NoNullConn
    <2> QED
      BY Zenon, <2>1, <2>2, <2>3, <2>4, <2>5, <2>6, <2>7 DEF IInv
  <1> QED
    BY Zenon, <1>1, <1>2 DEF Modify, epoll, kernel, memory

\* aeApiPoll: the events that fire are disabled.
LEMMA PollInv ==
  ASSUME IInv, NEW w \in Worker, Poll(w)
  PROVE  IInv'
  <1>t. Typed
    BY Basics
  <1>a. /\ armed' = armed \ ready
        /\ UNCHANGED <<conns, registered, leader, open, ready, backlog, connects, sfd,
                       freeconns, heap, my, bug, pc>>
    BY Zenon DEF Poll, epoll, kernel, memory
  <1>b. /\ fired' \in Seq(Table) /\ Range(fired') = armed \cap ready
        /\ \A i, j \in 1 .. Len(fired') : fired'[i] = fired'[j] => i = j
    <2>1. armed \cap ready \subseteq Fd /\ armed \cap ready \subseteq Table
      BY Zenon, <1>t DEF Typed
    <2>2. Cardinality(armed \cap ready) \in Nat
      BY Zenon, <2>1, EventLoopAssumption
    <2> QED
      BY Zenon, <2>1, <2>2, Listing, SeqSubset DEF Poll
  <1>c. Range(fired) = {}
    BY DEF Poll, Range
  <1> USE <1>t, <1>a, <1>b, <1>c DEF Typed
  <1>1. TypeOK'
    BY Zenon DEF IInv, TypeOK
  <1>2. Hands'
    BY Zenon DEF IInv, Hands
  <1>3. Entries'
    BY Zenon DEF IInv, Entries
  <1>4. Events'
    BY ZenonT(30) DEF IInv, Events
  <1>5. NothingForgotten'
    BY Zenon DEF IInv, NothingForgotten
  <1>6. Apart' /\ FreeIsUnused' /\ NoNullConn'
    BY DEF IInv, Apart, FreeIsUnused, NoNullConn
  <1> QED
    BY Zenon, <1>1, <1>2, <1>3, <1>4, <1>5, <1>6 DEF IInv

\* The leader takes the last fired descriptor and steps down to drive it.
LEMMA TakeInv ==
  ASSUME IInv, NEW w \in Worker, Take(w)
  PROVE  IInv'
  <1>t. Typed
    BY Basics
  <1>a. /\ Front(fired) \in Seq(Table) /\ Last(fired) \in Table
        /\ Range(fired) = Range(Front(fired)) \cup {Last(fired)}
        /\ Last(fired) \notin Range(Front(fired))
        /\ \A i, j \in 1 .. Len(Front(fired)) : Front(fired)[i] = Front(fired)[j] => i = j
    <2>1. fired # <<>>
      BY Zenon DEF Take
    <2> QED
      BY Zenon, <2>1, FiredLast
  <1>b. /\ conns[Last(fired)] \in Conn /\ Last(fired) \in open \cap registered
        /\ sfd[conns[Last(fired)]] = Last(fired)
        /\ \A v \in Worker : Last(fired) # my[v].fd /\ Last(fired) # my[v].newfd
    BY <1>t, <1>a DEF IInv, Events, Entries, Typed
  <1>c. /\ pc[w] = "lead" /\ pc' = [pc EXCEPT ![w] = "drive"]
        /\ leader' = NULL /\ fired' = Front(fired)
        /\ my' = [my EXCEPT ![w].fd = Last(fired), ![w].c = conns[Last(fired)]]
        /\ UNCHANGED <<conns, registered, armed, open, ready, backlog, connects, sfd,
                       freeconns, heap, bug>>
    BY Zenon, <1>b, EventLoopAssumption DEF Take, goto, epoll, memory
  <1>d. /\ pc' \in [Worker -> Labels] /\ \A v \in Worker : pc'[v] = IF v = w THEN "drive" ELSE pc[v]
        /\ my' \in [Worker -> Locals] /\ \A v \in Worker : v # w => my'[v] = my[v]
        /\ my'[w].fd = Last(fired) /\ my'[w].c = conns[Last(fired)]
        /\ my'[w].newfd = my[w].newfd /\ my'[w].new = my[w].new
    <2>1. Last(fired) \in Fd
      BY Zenon, <1>t, <1>a DEF Typed
    <2>2. my' \in [Worker -> Locals]
      BY Zenon, <1>t, <1>b, <1>c, <2>1, LocalsChange, ZenonT(30) DEF Typed
    <2> QED
      BY <1>t, <1>c, <2>2 DEF Typed, Locals
  <1>e. my[w].fd = NULL /\ my[w].c = NULL /\ my[w].newfd = NULL /\ my[w].new = NULL
    BY Zenon, <1>c DEF IInv, Hands
  <1> USE <1>t, <1>a, <1>b, <1>c, <1>d, <1>e DEF Typed
  <1>1. TypeOK'
    BY ZenonT(30) DEF IInv, TypeOK
  <1>2. Hands'
    BY DEF IInv, Hands
  <1>3. Entries'
    BY DEF IInv, Entries
  <1>4. Apart'
    BY DEF IInv, Apart, Hands
  <1>5. Events'
    BY DEF IInv, Events
  <1>6. FreeIsUnused'
    BY SMTT(30) DEF IInv, FreeIsUnused
  <1>7. NothingForgotten'
    <2> SUFFICES ASSUME NEW n \in open'
                 PROVE  \/ \E v \in Worker : n = my'[v].fd \/ n = my'[v].newfd
                        \/ n \in Table /\ conns'[n] # NULL /\ n \in armed' \cup Range(fired')
      BY Zenon DEF NothingForgotten
    <2>1. CASE n = Last(fired)
      BY Zenon, <1>d, <2>1
    <2>2. CASE \E v \in Worker : n = my[v].fd \/ n = my[v].newfd
      <3>1. PICK v \in Worker : n = my[v].fd \/ n = my[v].newfd
        BY Zenon, <2>2
      <3>2. n # NULL
        BY <1>t, <1>c DEF Typed
      <3>3. v # w
        BY Zenon, <1>e, <3>1, <3>2
      <3> QED
        BY Zenon, <1>d, <3>1, <3>3
    <2> QED
      BY <1>a, <1>c, <2>1, <2>2 DEF IInv, NothingForgotten
  <1>8. NoNullConn'
    BY Zenon DEF IInv, NoNullConn
  <1> QED
    BY Zenon, <1>1, <1>2, <1>3, <1>4, <1>5, <1>6, <1>7, <1>8 DEF IInv

\* What the steps have in common that only move a worker on, among the labels at
\* which it has nothing or among those at which it drives a connection.
Moves(w) ==
  /\ pc' \in [Worker -> Labels] /\ \A v \in Worker : v # w => pc'[v] = pc[v]
  /\ \/ pc[w] \in {"top", "lock", "lead"} /\ pc'[w] \in {"lock", "lead", "stopped"}
     \/ /\ pc[w] \in {"drive", "update_event"}
        /\ pc'[w] \in {"drive", "update_event", "mod", "conn_close"}
  /\ leader' \in {leader, w, NULL} /\ ready' \subseteq ready
  /\ UNCHANGED <<conns, fired, registered, armed, open, backlog, connects, sfd, freeconns, heap,
                 my, bug>>

\* They are looking at daemon_quit, becoming the leader, stopping, reading what
\* the client has sent, leaving drive_machine either way, and update_event, which
\* enters the connection into the table where it is.
LEMMA Moving ==
  ASSUME IInv, NEW w \in Worker,
         Top(w) \/ Lead(w) \/ Quit(w) \/ Serve(w) \/ Wait(w) \/ Hangup(w) \/ UpdateEvent(w)
  PROVE  Moves(w)
  <1>t. Typed
    BY Zenon, Basics
  <1>1. CASE Top(w)
    BY Zenon, <1>1, <1>t DEF Typed, Top, Moves, goto, epoll, kernel, memory
  <1>2. CASE Lead(w) \/ Quit(w)
    BY Zenon, <1>2, <1>t DEF Typed, Lead, Quit, Moves, goto, epoll, kernel, memory
  <1>3. CASE Serve(w) \/ Wait(w) \/ Hangup(w)
    BY Zenon, <1>3, <1>t DEF Typed, Serve, Wait, Hangup, Moves, goto, epoll, kernel, memory
  <1>4. CASE UpdateEvent(w)
    <2>1. conns' = conns
      BY <1>4, <1>t DEF IInv, Hands, Entries, Typed, UpdateEvent
    <2> QED
      BY ZenonT(30), <1>4, <1>t, <2>1 DEF Typed, UpdateEvent, Moves, goto, epoll, kernel, memory
  <1> QED
    BY Zenon, <1>1, <1>2, <1>3, <1>4

\* Such a step preserves the invariant.
LEMMA MoveInv ==
  ASSUME IInv, NEW w \in Worker, Moves(w)
  PROVE  IInv'
  <1>t. Typed
    BY Zenon, Basics
  <1> USE <1>t DEF Typed, Moves
  <1>1. TypeOK'
    BY Zenon DEF IInv, TypeOK
  <1>2. Hands'
    BY SMTT(30) DEF IInv, Hands
  <1>3. Entries'
    BY SMTT(30) DEF IInv, Entries
  <1>4. Apart' /\ Events'
    BY SMTT(30) DEF IInv, Apart, Events
  <1>5. FreeIsUnused' /\ NothingForgotten' /\ NoNullConn'
    BY DEF IInv, FreeIsUnused, NothingForgotten, NoNullConn
  <1> QED
    BY Zenon, <1>1, <1>2, <1>3, <1>4, <1>5 DEF IInv

\* delete_event clears the entry of the table.
LEMMA DeleteEventInv ==
  ASSUME IInv, NEW w \in Worker, DeleteEvent(w)
  PROVE  IInv'
  <1>t. Typed
    BY Basics
  <1>a. /\ pc[w] = "conn_close"
        /\ pc' \in [Worker -> Labels] /\ \A v \in Worker : pc'[v] = IF v = w THEN "del" ELSE pc[v]
        /\ UNCHANGED <<fired, registered, armed, leader, open, ready, backlog, connects, sfd,
                       freeconns, heap, my, bug>>
    BY Zenon, <1>t DEF Typed, DeleteEvent, goto, epoll, kernel, memory
  <1>b. my[w].fd \in open /\ my[w].fd \in Table /\ my[w].c \in Conn /\ sfd[my[w].c] = my[w].fd
    BY Zenon, <1>t, <1>a DEF IInv, Hands, Typed
  <1>c. /\ conns' \in [Table -> Conn \cup {NULL}]
        /\ \A n \in Table : conns'[n] = IF n = my[w].fd THEN NULL ELSE conns[n]
    BY Zenon, <1>t, <1>b DEF Typed, DeleteEvent
  <1> USE <1>t, <1>a, <1>b, <1>c DEF Typed
  <1>1. TypeOK'
    BY ZenonT(30) DEF IInv, TypeOK
  <1>2. Hands'
    BY SMTT(30) DEF IInv, Hands
  <1>3. Entries'
    BY SMTT(30) DEF IInv, Entries, Hands, Apart
  <1>4. Events'
    BY DEF IInv, Events
  <1>5. FreeIsUnused'
    BY DEF IInv, FreeIsUnused
  <1>6. NothingForgotten'
    BY ZenonT(30) DEF IInv, NothingForgotten
  <1>7. Apart' /\ NoNullConn'
    BY DEF IInv, Apart, NoNullConn
  <1> QED
    BY Zenon, <1>1, <1>2, <1>3, <1>4, <1>5, <1>6, <1>7 DEF IInv

\* aeApiDelEvent takes the descriptor out of the epoll set.
LEMMA ApiDelEventInv ==
  ASSUME IInv, NEW w \in Worker, ApiDelEvent(w)
  PROVE  IInv'
  <1>t. Typed
    BY Zenon, Basics
  <1>a. /\ pc[w] = "del"
        /\ pc' \in [Worker -> Labels] /\ \A v \in Worker : pc'[v] = IF v = w THEN "close" ELSE pc[v]
        /\ UNCHANGED <<conns, fired, leader, open, ready, backlog, connects, sfd, freeconns,
                       heap, my, bug>>
    BY Zenon, <1>t DEF Typed, ApiDelEvent, goto, kernel, memory
  <1>b. my[w].fd \in open /\ my[w].fd \in Table /\ my[w].c \in Conn /\ sfd[my[w].c] = my[w].fd
    BY Zenon, <1>t, <1>a DEF IInv, Hands, Typed
  <1>c. /\ registered' = registered \ {my[w].fd}
        /\ armed' = armed
    BY Zenon, <1>b DEF ApiDelEvent, IInv, Events
  <1> USE <1>t, <1>a, <1>b, <1>c DEF Typed
  <1>1. TypeOK'
    BY ZenonT(30) DEF IInv, TypeOK
  <1>2. Hands'
    BY SMTT(30) DEF IInv, Hands
  <1>3. Entries'
    BY SMTT(30) DEF IInv, Entries, Hands, Apart
  <1>4. Events'
    <2>1. my[w].fd \notin armed \cup Range(fired)
      BY Zenon DEF IInv, Events
    <2> QED
      BY <2>1 DEF IInv, Events
  <1>5. NothingForgotten'
    BY ZenonT(30) DEF IInv, NothingForgotten
  <1>6. Apart' /\ FreeIsUnused' /\ NoNullConn'
    BY DEF IInv, Apart, FreeIsUnused, NoNullConn
  <1> QED
    BY Zenon, <1>1, <1>2, <1>3, <1>4, <1>5, <1>6 DEF IInv

\* conn_close closes the socket: its number can be used again.
LEMMA CloseSocketInv ==
  ASSUME IInv, NEW w \in Worker, CloseSocket(w)
  PROVE  IInv'
  <1>t. Typed
    BY Basics
  <1>a. /\ pc[w] = "close"
        /\ pc' \in [Worker -> Labels] /\ \A v \in Worker : pc'[v] = IF v = w THEN "free" ELSE pc[v]
        /\ UNCHANGED <<conns, fired, registered, armed, leader, connects, freeconns, heap, bug>>
    BY Zenon, <1>t DEF Typed, CloseSocket, goto, epoll
  <1>b. my[w].fd \in open /\ my[w].fd \in Table /\ my[w].c \in Conn /\ sfd[my[w].c] = my[w].fd
    BY Zenon, <1>t, <1>a DEF IInv, Hands, Typed
  <1>c. /\ open' = open \ {my[w].fd} /\ ready' = ready \ {my[w].fd}
        /\ backlog' \in {0, backlog}
        /\ my' = [my EXCEPT ![w].fd = NULL]
        /\ sfd' \in [Conn -> Fd \cup {NULL}]
        /\ \A c \in Conn : sfd'[c] = IF c = my[w].c THEN NULL ELSE sfd[c]
    BY Zenon, <1>t, <1>b DEF Typed, CloseSocket
  <1>d. /\ my' \in [Worker -> Locals] /\ \A v \in Worker : v # w => my'[v] = my[v]
        /\ my'[w].fd = NULL /\ my'[w].c = my[w].c
        /\ my'[w].newfd = my[w].newfd /\ my'[w].new = my[w].new
    BY <1>t, <1>c DEF Typed, Locals
  <1>e. /\ my[w].newfd = NULL /\ my[w].new = NULL
        /\ conns[my[w].fd] = NULL
    BY Zenon, <1>a DEF IInv, Hands, Entries
  <1> USE <1>t, <1>a, <1>b, <1>c, <1>d, <1>e DEF Typed
  <1>1. TypeOK'
    BY DEF IInv, TypeOK
  <1>2. Hands'
    BY SMTT(30) DEF IInv, Hands, Apart
  <1>3. Entries'
    BY DEF IInv, Entries, Hands, Apart
  <1>4. Apart'
    BY DEF IInv, Apart
  <1>5. Events'
    BY DEF IInv, Events
  <1>6. FreeIsUnused'
    BY DEF IInv, FreeIsUnused
  <1>7. NothingForgotten'
    BY DEF IInv, NothingForgotten
  <1>8. NoNullConn'
    BY Zenon DEF IInv, NoNullConn
  <1> QED
    BY Zenon, <1>1, <1>2, <1>3, <1>4, <1>5, <1>6, <1>7, <1>8 DEF IInv

\* conn_close gives the structure back.
LEMMA FreeInv ==
  ASSUME IInv, NEW w \in Worker, Free(w)
  PROVE  IInv'
  <1>t. Typed
    BY Basics
  <1>a. /\ pc[w] = "free"
        /\ pc' \in [Worker -> Labels] /\ \A v \in Worker : pc'[v] = IF v = w THEN "top" ELSE pc[v]
        /\ UNCHANGED <<conns, fired, registered, armed, leader, open, ready, backlog, connects,
                       sfd, bug>>
    BY Zenon, <1>t DEF Typed, Free, goto, epoll, kernel
  <1>b. /\ my[w].c \in Conn /\ sfd[my[w].c] = NULL
        /\ my[w].fd = NULL /\ my[w].newfd = NULL /\ my[w].new = NULL
    BY Zenon, <1>t, <1>a DEF IInv, Hands, Typed
  <1>c. /\ my' \in [Worker -> Locals] /\ \A v \in Worker : v # w => my'[v] = my[v]
        /\ my'[w].fd = NULL /\ my'[w].c = NULL
        /\ my'[w].newfd = NULL /\ my'[w].new = NULL
    BY Zenon, <1>t DEF Typed, Locals, Idle, Free
  <1>d. /\ freeconns' \in Seq(Conn) /\ heap' \subseteq Conn
        /\ Range(freeconns') \cup heap' = Range(freeconns) \cup heap \cup {my[w].c}
        /\ Range(freeconns') \cap heap' = {}
        /\ \A i, j \in 1 .. Len(freeconns') : freeconns'[i] = freeconns'[j] => i = j
    <2>1. my[w].c \notin Range(freeconns) \cup heap
      BY Zenon DEF IInv, FreeIsUnused
    <2> QED
      BY Zenon, <1>b, <2>1, Released DEF Free
  <1>e. /\ \A n \in Table : conns[n] # my[w].c
        /\ \A v \in Worker : v # w => my[v].c # my[w].c /\ my[v].new # my[w].c
    BY <1>t, <1>b DEF IInv, Entries, Apart, Typed
  <1> USE <1>t, <1>a, <1>b, <1>c DEF Typed
  <1>1. TypeOK'
    BY ZenonT(30), <1>d DEF IInv, TypeOK
  <1>2. Hands'
    BY SMTT(30) DEF IInv, Hands
  <1>3. Entries'
    BY SMTT(30) DEF IInv, Entries
  <1>4. Apart'
    BY SMTT(30) DEF IInv, Apart
  <1>5. Events'
    BY DEF IInv, Events
  <1>6. FreeIsUnused'
    BY <1>d, <1>e DEF IInv, FreeIsUnused
  <1>7. NothingForgotten'
    BY ZenonT(30) DEF IInv, NothingForgotten
  <1>8. NoNullConn'
    BY Zenon DEF IInv, NoNullConn
  <1> QED
    BY Zenon, <1>1, <1>2, <1>3, <1>4, <1>5, <1>6, <1>7, <1>8 DEF IInv

\* drive_machine accepts a connection.
LEMMA AcceptInv ==
  ASSUME IInv, NEW w \in Worker, Accept(w)
  PROVE  IInv'
  <1>1. ASSUME pc[w] = "drive",
               my[w].fd = Listen,
               backlog > 0,
               backlog' = backlog - 1,
               ready' \subseteq ready,
               NEW fd \in Fd \ open,
               open' = open \cup {fd},
               my' = [my EXCEPT ![w].newfd = fd],
               goto(w, "conn_new"),
               UNCHANGED <<conns, fired, registered, armed, leader, connects, sfd, freeconns,
                           heap, bug>>
        PROVE  IInv'
    <2>t. Typed
      BY Zenon, Basics
    <2>a. /\ pc[w] = "drive"
          /\ pc' \in [Worker -> Labels] /\ \A v \in Worker : pc'[v] = IF v = w THEN "conn_new" ELSE pc[v]
          /\ open' = open \cup {fd} /\ ready' \subseteq ready
          /\ UNCHANGED <<conns, fired, registered, armed, leader, connects, sfd, freeconns,
                         heap, bug>>
      BY Zenon, <1>1, <2>t DEF Typed, goto
    <2>b. backlog' \in Nat
      BY <1>1 DEF IInv, TypeOK
    <2>c. /\ my' \in [Worker -> Locals] /\ \A v \in Worker : v # w => my'[v] = my[v]
          /\ my'[w].fd = my[w].fd /\ my'[w].c = my[w].c
          /\ my'[w].newfd = fd /\ my'[w].new = my[w].new
      <3>1. my' \in [Worker -> Locals]
        BY Zenon, <1>1, <2>t, LocalsChange, ZenonT(30) DEF Typed
      <3> QED
        BY <1>1, <2>t, <3>1 DEF Typed, Locals
    <2>d. /\ my[w].newfd = NULL /\ my[w].new = NULL
          /\ fd \in Fd /\ fd \notin open
      BY Zenon, <1>1, <2>a DEF IInv, Hands
    <2> USE <2>t, <2>a, <2>b, <2>c, <2>d DEF Typed
    <2>1. TypeOK'
      BY Zenon DEF IInv, TypeOK
    <2>2. Hands'
      BY SMTT(30) DEF IInv, Hands
    <2>3. Entries'
      BY SMTT(30) DEF IInv, Entries
    <2>4. Apart'
      BY SMTT(30) DEF IInv, Apart, Hands
    <2>5. Events'
      BY SMTT(30) DEF IInv, Events, Entries
    <2>6. FreeIsUnused'
      <3>1. \A v \in Worker : my'[v].c = my[v].c /\ my'[v].new = my[v].new
        OBVIOUS
      <3>2. UNCHANGED <<freeconns, heap, conns>>
        OBVIOUS
      <3> QED
        BY SMTT(30), <3>1, <3>2 DEF IInv, FreeIsUnused
    <2>7. NothingForgotten'
        <3> SUFFICES ASSUME NEW n \in open'
                     PROVE  \/ \E v \in Worker : n = my'[v].fd \/ n = my'[v].newfd
                            \/ n \in Table /\ conns'[n] # NULL /\ n \in armed' \cup Range(fired')
          BY Zenon DEF NothingForgotten
        <3>1. CASE n = fd
          BY Zenon, <2>c, <3>1
        <3>2. CASE \E v \in Worker : n = my[v].fd \/ n = my[v].newfd
          <4>1. PICK v \in Worker : n = my[v].fd \/ n = my[v].newfd
            BY Zenon, <3>2
          <4>2. n # NULL
            BY Zenon, <2>t, <2>a, <2>d DEF Typed
          <4> QED
            BY Zenon, <2>c, <2>d, <4>1, <4>2
        <3> QED
          BY Zenon, <2>a, <3>1, <3>2 DEF IInv, NothingForgotten
    <2>8. NoNullConn'
      BY Zenon DEF IInv, NoNullConn
    <2> QED
      BY Zenon, <2>1, <2>2, <2>3, <2>4, <2>5, <2>6, <2>7, <2>8 DEF IInv
  <1> QED
    BY Zenon, <1>1, ZenonT(30) DEF Accept, accepted, epoll, memory

\* drive_machine accepts with the spare descriptor, and closes.
LEMMA AcceptFullInv ==
  ASSUME IInv, NEW w \in Worker, AcceptFull(w)
  PROVE  IInv'
  <1>t. Typed
    BY Basics
  <1>a. /\ pc[w] = "drive" /\ pc' \in [Worker -> Labels]
        /\ \A v \in Worker : pc'[v] = IF v = w THEN "update_event" ELSE pc[v]
        /\ ready' \subseteq ready
        /\ backlog' \in Nat
        /\ UNCHANGED <<conns, fired, registered, armed, leader, open, connects, sfd, freeconns,
                       heap, my, bug>>
    BY <1>t DEF Typed, AcceptFull, accepted, goto, epoll, memory, IInv, TypeOK
  <1> USE <1>t, <1>a DEF Typed
  <1>1. TypeOK'
    BY ZenonT(30) DEF IInv, TypeOK
  <1>2. Hands'
    BY SMTT(30) DEF IInv, Hands
  <1>3. Entries'
    BY SMTT(30) DEF IInv, Entries
  <1>4. Apart' /\ Events' /\ FreeIsUnused' /\ NothingForgotten' /\ NoNullConn'
    BY DEF IInv, Apart, Events, FreeIsUnused, NothingForgotten, NoNullConn
  <1> QED
    BY Zenon, <1>1, <1>2, <1>3, <1>4 DEF IInv

\* conn_new finds a structure, or none.
LEMMA ConnNewInv ==
  ASSUME IInv, NEW w \in Worker, ConnNew(w)
  PROVE  IInv'
  <1>1. ASSUME pc[w] = "conn_new",
               NEW c \in (Range(freeconns) \cup heap) \cap Conn,
               freeconns' \in Seq(Conn),
               heap' \subseteq Conn,
               Range(freeconns') \cup heap' \subseteq (Range(freeconns) \cup heap) \ {c},
               Range(freeconns') \cap heap' = {},
               \A i, j \in 1 .. Len(freeconns') : freeconns'[i] = freeconns'[j] => i = j,
               my' = [my EXCEPT ![w].new = c],
               sfd' = [sfd EXCEPT ![c] = my[w].newfd],
               goto(w, "add_event"),
               UNCHANGED <<conns, fired, registered, armed, leader, open, ready, backlog,
                           connects, bug>>
        PROVE  IInv'
    <2>t. Typed
      BY Zenon, Basics
    <2>a. /\ pc[w] = "conn_new"
          /\ pc' \in [Worker -> Labels] /\ \A v \in Worker : pc'[v] = IF v = w THEN "add_event" ELSE pc[v]
          /\ UNCHANGED <<conns, fired, registered, armed, leader, open, ready, backlog,
                         connects, bug>>
      BY Zenon, <1>1, <2>t DEF Typed, goto
    <2>b. /\ my' \in [Worker -> Locals] /\ \A v \in Worker : v # w => my'[v] = my[v]
          /\ my'[w].fd = my[w].fd /\ my'[w].c = my[w].c
          /\ my'[w].newfd = my[w].newfd /\ my'[w].new = c
      <3>1. my' \in [Worker -> Locals]
        BY Zenon, <1>1, <2>t, LocalsChange, ZenonT(30) DEF Typed
      <3> QED
        BY ZenonT(30), <1>1, <2>t, <3>1 DEF Typed, Locals
    <2>c. /\ freeconns' \in Seq(Conn)
          /\ heap' \subseteq Conn
          /\ Range(freeconns') \cup heap' \subseteq (Range(freeconns) \cup heap) \ {c}
          /\ Range(freeconns') \cap heap' = {}
          /\ \A i, j \in 1 .. Len(freeconns') : freeconns'[i] = freeconns'[j] => i = j
      BY Zenon, <1>1
    <2>d. /\ sfd' \in [Conn -> Fd \cup {NULL}]
          /\ \A d \in Conn : sfd'[d] = IF d = c THEN my[w].newfd ELSE sfd[d]
          /\ my[w].newfd \in open /\ my[w].new = NULL
      BY Zenon, <1>1, <2>t DEF Typed, IInv, Hands
    <2>e. /\ c \in Conn /\ \A fd \in Table : conns[fd] # c
          /\ \A v \in Worker : c # my[v].c /\ c # my[v].new
      BY Zenon, <1>1 DEF IInv, FreeIsUnused
    <2> USE <2>t, <2>a, <2>b, <2>c, <2>d, <2>e DEF Typed
    <2>1. TypeOK'
      BY ZenonT(30) DEF IInv, TypeOK
    <2>2. Hands'
      BY SMTT(30) DEF IInv, Hands
    <2>3. Entries'
      BY SMTT(30) DEF IInv, Entries
    <2>4. Apart'
      BY SMTT(30) DEF IInv, Apart
    <2>5. Events'
      BY SMTT(30) DEF IInv, Events
    <2>6. FreeIsUnused'
      BY SMTT(30) DEF IInv, FreeIsUnused
    <2>7. NothingForgotten'
      BY DEF IInv, NothingForgotten
    <2>8. NoNullConn'
      BY Zenon DEF IInv, NoNullConn
    <2> QED
      BY Zenon, <2>1, <2>2, <2>3, <2>4, <2>5, <2>6, <2>7, <2>8 DEF IInv
  <1>2. ASSUME pc[w] = "conn_new",
               goto(w, "refuse"),
               UNCHANGED <<conns, fired, registered, armed, leader, open, ready, backlog,
                           connects, sfd, freeconns, heap, my, bug>>
        PROVE  IInv'
    <2>t. Typed
      BY Basics
    <2>a. /\ pc[w] = "conn_new"
          /\ pc' \in [Worker -> Labels] /\ \A v \in Worker : pc'[v] = IF v = w THEN "refuse" ELSE pc[v]
          /\ UNCHANGED <<conns, fired, registered, armed, leader, open, ready, backlog,
                         connects, sfd, freeconns, heap, my, bug>>
      BY Zenon, <1>2, <2>t DEF Typed, goto
    <2> USE <2>t, <2>a DEF Typed
    <2>1. TypeOK'
      BY ZenonT(30) DEF IInv, TypeOK
    <2>2. Hands'
      BY SMTT(30) DEF IInv, Hands
    <2>3. Entries'
      BY SMTT(30) DEF IInv, Entries
    <2>4. Apart' /\ Events'
      BY SMTT(30) DEF IInv, Apart, Events
    <2>5. FreeIsUnused' /\ NoNullConn'
      BY DEF IInv, FreeIsUnused, NoNullConn
    <2>6. NothingForgotten'
      BY Zenon DEF IInv, NothingForgotten
    <2> QED
      BY Zenon, <2>1, <2>2, <2>3, <2>4, <2>5, <2>6 DEF IInv
  <1> QED
    <2>1. pc[w] = "conn_new"
      BY Zenon DEF ConnNew
    <2>2. CASE /\ freeconns # <<>>
               /\ my' = [my EXCEPT ![w].new = Last(freeconns)] /\ freeconns' = Front(freeconns)
               /\ sfd' = [sfd EXCEPT ![Last(freeconns)] = my[w].newfd]
               /\ goto(w, "add_event") /\ UNCHANGED heap
      <3>1. /\ Last(freeconns) \in (Range(freeconns) \cup heap) \cap Conn
            /\ freeconns' \in Seq(Conn)
            /\ Range(freeconns) = Range(freeconns') \cup {Last(freeconns)}
            /\ Last(freeconns) \notin Range(freeconns')
            /\ \A i, j \in 1 .. Len(freeconns') : freeconns'[i] = freeconns'[j] => i = j
        BY Zenon, <2>2, FiredLast
      <3>2. heap' \subseteq Conn /\ Range(freeconns) \cap heap' = {} /\ heap' = heap
        BY Zenon, <2>2 DEF IInv, TypeOK, FreeIsUnused
      <3>3. /\ Range(freeconns') \cup heap' \subseteq (Range(freeconns) \cup heap) \ {Last(freeconns)}
            /\ Range(freeconns') \cap heap' = {}
        BY Zenon, <3>1, <3>2
      <3>4. UNCHANGED <<conns, fired, registered, armed, leader, daemon_quit, open, ready,
                        backlog, connects, bug>>
        BY Zenon DEF ConnNew, epoll, kernel
      <3> QED
        BY Zenon, <1>1, <2>1, <2>2, <3>1, <3>2, <3>3, <3>4, ZenonT(30)
    <2>3. ASSUME NEW c \in heap, my' = [my EXCEPT ![w].new = c], heap' = heap \ {c},
                 sfd' = [sfd EXCEPT ![c] = my[w].newfd], goto(w, "add_event"),
                 UNCHANGED freeconns,
                 UNCHANGED <<conns, fired, registered, armed, leader, daemon_quit, open, ready,
                             backlog, connects, bug>>
          PROVE  IInv'
      <3>1. /\ freeconns' \in Seq(Conn) /\ heap \subseteq Conn /\ Range(freeconns) \cap heap = {}
            /\ freeconns' = freeconns
            /\ \A i, j \in 1 .. Len(freeconns') : freeconns'[i] = freeconns'[j] => i = j
        BY Zenon, <2>3 DEF IInv, TypeOK, FreeIsUnused
      <3>2. /\ c \in (Range(freeconns) \cup heap) \cap Conn /\ heap' \subseteq Conn
            /\ Range(freeconns') \cup heap' \subseteq (Range(freeconns) \cup heap) \ {c}
            /\ Range(freeconns') \cap heap' = {}
        BY Zenon, <2>3, <3>1
      <3> QED
        BY Zenon, <1>1, <2>1, <2>3, <3>1, <3>2, ZenonT(30)
    <2> QED
      BY Zenon, <1>2, <2>1, <2>2, <2>3 DEF ConnNew, epoll, kernel, memory

\* conn_new gives the structure back.
LEMMA UndoInv ==
  ASSUME IInv, NEW w \in Worker, Undo(w)
  PROVE  IInv'
  <1>t. Typed
    BY Basics
  <1>a. /\ pc[w] = "undo"
        /\ pc' \in [Worker -> Labels] /\ \A v \in Worker : pc'[v] = IF v = w THEN "refuse" ELSE pc[v]
        /\ UNCHANGED <<conns, fired, registered, armed, leader, open, ready, backlog, connects,
                       sfd, bug>>
    BY Zenon, <1>t DEF Typed, Undo, goto, epoll, kernel
  <1>b. /\ my[w].new \in Conn /\ sfd[my[w].new] = my[w].newfd /\ my[w].newfd \in open
        /\ my[w].newfd \in Table => conns[my[w].newfd] = NULL
    BY Zenon, <1>t, <1>a DEF IInv, Hands, Entries, Typed
  <1>c. /\ my' \in [Worker -> Locals] /\ \A v \in Worker : v # w => my'[v] = my[v]
        /\ my'[w].fd = my[w].fd /\ my'[w].c = my[w].c
        /\ my'[w].newfd = my[w].newfd /\ my'[w].new = NULL
    <2>1. my' = [my EXCEPT ![w].new = NULL]
      BY Zenon DEF Undo
    <2>2. my' \in [Worker -> Locals]
      BY Zenon, <1>t, <2>1, LocalsChange, ZenonT(30) DEF Typed
    <2> QED
      BY <1>t, <2>1, <2>2 DEF Typed, Locals
  <1>d. /\ freeconns' \in Seq(Conn) /\ heap' \subseteq Conn
        /\ Range(freeconns') \cup heap' = Range(freeconns) \cup heap \cup {my[w].new}
        /\ Range(freeconns') \cap heap' = {}
        /\ \A i, j \in 1 .. Len(freeconns') : freeconns'[i] = freeconns'[j] => i = j
    <2>1. my[w].new \notin Range(freeconns) \cup heap
      BY ZenonT(30) DEF IInv, FreeIsUnused
    <2> QED
      BY Zenon, <1>b, <2>1, Released DEF Undo
  <1>e. /\ \A n \in Table : conns[n] # my[w].new
        /\ \A v \in Worker : my[v].c # my[w].new /\ (v # w => my[v].new # my[w].new)
    BY <1>t, <1>b DEF IInv, Entries, Apart, Typed
  <1> USE <1>t, <1>a, <1>b, <1>c DEF Typed
  <1>1. TypeOK'
    BY ZenonT(30), <1>d DEF IInv, TypeOK
  <1>2. Hands'
    BY SMTT(30) DEF IInv, Hands
  <1>3. Entries'
    BY SMTT(30) DEF IInv, Entries
  <1>4. Apart'
    BY SMTT(30) DEF IInv, Apart
  <1>5. Events'
    BY DEF IInv, Events
  <1>6. FreeIsUnused'
    <2>1. ASSUME NEW c \in Range(freeconns') \cup heap'
          PROVE  /\ \A n \in Table : conns'[n] # c
                 /\ \A v \in Worker : c # my'[v].c /\ c # my'[v].new
      <3>1. CASE c \in Range(freeconns) \cup heap
        BY SMTT(30), <3>1 DEF IInv, FreeIsUnused
      <3>2. CASE c = my[w].new
        BY SMTT(30), <1>e, <3>2
      <3> QED
        BY ZenonT(30), <1>d, <2>1, <3>1, <3>2
    <2> QED
      BY Zenon, <1>d, <2>1 DEF FreeIsUnused
  <1>7. NothingForgotten'
    BY DEF IInv, NothingForgotten
  <1>8. NoNullConn'
    BY Zenon DEF IInv, NoNullConn
  <1> QED
    BY Zenon, <1>1, <1>2, <1>3, <1>4, <1>5, <1>6, <1>7, <1>8 DEF IInv

\* drive_machine closes the socket that it cannot serve.
LEMMA RefuseInv ==
  ASSUME IInv, NEW w \in Worker, Refuse(w)
  PROVE  IInv'
  <1>t. Typed
    BY Basics
  <1>a. /\ pc[w] = "refuse"
        /\ pc' \in [Worker -> Labels] /\ \A v \in Worker : pc'[v] = IF v = w THEN "drive" ELSE pc[v]
        /\ open' = open \ {my[w].newfd} /\ ready' = ready \ {my[w].newfd}
        /\ my' = [my EXCEPT ![w].newfd = NULL]
        /\ UNCHANGED <<conns, fired, registered, armed, leader, backlog, connects, sfd,
                       freeconns, heap, bug>>
    BY Zenon, <1>t DEF Typed, Refuse, goto, epoll, memory
  <1>b. /\ my' \in [Worker -> Locals] /\ \A v \in Worker : v # w => my'[v] = my[v]
        /\ my'[w].fd = my[w].fd /\ my'[w].c = my[w].c
        /\ my'[w].newfd = NULL /\ my'[w].new = my[w].new
    <2>1. my' \in [Worker -> Locals]
      BY Zenon, <1>t, <1>a, LocalsChange, ZenonT(30) DEF Typed
    <2> QED
      BY <1>t, <1>a, <2>1 DEF Typed, Locals
  <1>c. /\ my[w].newfd \in open
        /\ my[w].newfd \in Table => conns[my[w].newfd] = NULL
    BY Zenon, <1>a DEF IInv, Hands, Entries
  <1> USE <1>t, <1>a, <1>b, <1>c DEF Typed
  <1>1. TypeOK'
    BY Zenon DEF IInv, TypeOK
  <1>2. Hands'
    BY SMTT(30) DEF IInv, Hands, Apart
  <1>3. Entries'
    BY DEF IInv, Entries, Hands, Apart
  <1>4. Apart'
    BY DEF IInv, Apart
  <1>5. Events'
    BY DEF IInv, Events
  <1>6. FreeIsUnused'
    BY DEF IInv, FreeIsUnused
  <1>7. NothingForgotten'
    BY DEF IInv, NothingForgotten
  <1>8. NoNullConn'
    BY Zenon DEF IInv, NoNullConn
  <1> QED
    BY Zenon, <1>1, <1>2, <1>3, <1>4, <1>5, <1>6, <1>7, <1>8 DEF IInv

-----------------------------------------------------------------------------
USE EventLoopAssumption DEF Labels, Driving, Accepting, Table

\* The clients and the signal preserve the invariant.
LEMMA EnvironmentInv ==
  ASSUME IInv, Connect \/ (\E fd \in Fd : Arrive(fd)) \/ Signal
  PROVE  IInv'
  <1>1. /\ UNCHANGED <<conns, fired, registered, armed, leader, open, sfd, freeconns, heap, pc,
                       my, bug>>
        /\ ready' \subseteq open /\ backlog' \in Nat /\ connects' \in 0 .. MaxConnects
    <2>1. ready \subseteq open /\ backlog \in Nat /\ connects \in 0 .. MaxConnects
      BY Zenon DEF IInv, TypeOK
    <2>2. CASE Connect
      BY <2>1, <2>2 DEF Connect, epoll, memory
    <2>3. CASE \E fd \in Fd : Arrive(fd)
      BY Zenon, <2>1, <2>3 DEF Arrive, epoll, memory
    <2>4. CASE Signal
      BY Zenon, <2>1, <2>4 DEF Signal, epoll, kernel, memory
    <2> QED
      BY Zenon, <2>2, <2>3, <2>4
  <1>2. TypeOK'
    BY Zenon, <1>1 DEF IInv, TypeOK
  <1>3. Hands' /\ Apart'
    BY ZenonT(30), <1>1 DEF IInv, Hands, Apart
  <1>4. Entries'
    BY Zenon, <1>1 DEF IInv, Entries
  <1>5. Events'
    BY Zenon, <1>1 DEF IInv, Events
  <1>6. FreeIsUnused' /\ NothingForgotten' /\ NoNullConn'
    BY ZenonT(30), <1>1 DEF IInv, FreeIsUnused, NothingForgotten, NoNullConn
  <1> QED
    BY Zenon, <1>2, <1>3, <1>4, <1>5, <1>6 DEF IInv

\* A step that changes nothing preserves the invariant.
LEMMA StutterInv ==
  ASSUME IInv, UNCHANGED vars
  PROVE  IInv'
  <1>1. UNCHANGED <<conns, fired, registered, armed, leader, open, ready, backlog, connects,
                    sfd, freeconns, heap, pc, my, bug>>
    BY Zenon DEF vars, epoll, kernel, memory
  <1>2. TypeOK'
    BY Zenon, <1>1 DEF IInv, TypeOK
  <1>3. Hands' /\ Apart'
    BY ZenonT(30), <1>1 DEF IInv, Hands, Apart
  <1>4. Entries'
    BY Zenon, <1>1 DEF IInv, Entries
  <1>5. Events'
    BY Zenon, <1>1 DEF IInv, Events
  <1>6. FreeIsUnused' /\ NothingForgotten' /\ NoNullConn'
    BY Zenon, <1>1 DEF IInv, FreeIsUnused, NothingForgotten, NoNullConn
  <1> QED
    BY Zenon, <1>2, <1>3, <1>4, <1>5, <1>6 DEF IInv

\* What server_socket leaves satisfies the invariant.
LEMMA InitInv ==
  ASSUME Init
  PROVE  IInv
  <1>1. PICK c \in Conn :
          /\ conns = [fd \in Table |-> IF fd = Listen THEN c ELSE NULL]
          /\ sfd = [d \in Conn |-> IF d = c THEN Listen ELSE NULL]
          /\ heap = Conn \ {c}
    BY Zenon DEF Init
  <1>2. /\ fired = <<>> /\ registered = {Listen} /\ armed = {Listen}
        /\ leader = NULL /\ open = {Listen} /\ ready = {} /\ backlog = 0 /\ connects = 0
        /\ freeconns = <<>> /\ bug = FALSE
        /\ pc = [w \in Worker |-> "top"] /\ my = [w \in Worker |-> Idle]
    BY Zenon DEF Init
  <1>3. Range(fired) = {} /\ Range(freeconns) = {} /\ Len(fired) = 0 /\ Len(freeconns) = 0
    BY <1>2 DEF Range
  <1>4. Listen \in Table /\ Listen # NULL /\ c # NULL /\ Table \subseteq Fd
    BY Zenon, EventLoopAssumption DEF Table
  <1>5. \A w \in Worker : my[w].fd = NULL /\ my[w].c = NULL /\ my[w].newfd = NULL /\ my[w].new = NULL
    BY Zenon, <1>2 DEF Idle
  <1>6. TypeOK
    <2>1. my \in [Worker -> Locals]
      BY Zenon, <1>2 DEF Idle, Locals
    <2>2. connects \in 0 .. MaxConnects
      BY <1>2, EventLoopAssumption
    <2>3. conns \in [Table -> Conn \cup {NULL}] /\ sfd \in [Conn -> Fd \cup {NULL}] /\ heap \subseteq Conn
      BY Zenon, <1>1, <1>4
    <2>4. fired \in Seq(Table) /\ freeconns \in Seq(Conn)
      BY <1>2
    <2>5. armed \subseteq Table /\ registered \subseteq Table /\ open \subseteq Fd /\ ready \subseteq open
      BY Zenon, <1>2, <1>4
    <2>6. pc \in [Worker -> Labels]
      BY Zenon, <1>2
    <2>7. leader \in Worker \cup {NULL} /\ backlog \in Nat /\ bug \in BOOLEAN
      BY Zenon, <1>2, ZenonT(30)
    <2> QED
      BY Zenon, <2>1, <2>2, <2>3, <2>4, <2>5, <2>6, <2>7 DEF TypeOK
  <1>7. Hands /\ Apart
    BY Zenon, <1>2, <1>5 DEF Hands, Apart
  <1>8. Entries
    BY Zenon, <1>1, <1>2, <1>4, <1>5 DEF Entries
  <1>9. Events
    BY <1>1, <1>2, <1>3, <1>4, <1>5 DEF Events
  <1>10. FreeIsUnused
    BY <1>1, <1>2, <1>3, <1>4, <1>5 DEF FreeIsUnused
  <1>11. NothingForgotten /\ NoNullConn
    BY Zenon, <1>1, <1>2, <1>4 DEF NothingForgotten, NoNullConn
  <1> QED
    BY Zenon, <1>6, <1>7, <1>8, <1>9, <1>10, <1>11 DEF IInv

\* Every step of the event loop preserves the invariant.
LEMMA NextInv ==
  ASSUME IInv, [Next]_vars
  PROVE  IInv'
  <1>1. ASSUME NEW w \in Worker, worker_main(w)
        PROVE  IInv'
    BY Zenon, <1>1, Moving, MoveInv, PollInv, TakeInv, ModifyInv, DeleteEventInv, ApiDelEventInv,
       CloseSocketInv, FreeInv, AcceptInv, AcceptFullInv, ConnNewInv, AddEventInv,
       ApiAddEventInv, UndoInv, RefuseInv
    DEF worker_main
  <1> QED
    BY Zenon, <1>1, EnvironmentInv, StutterInv DEF Next

-----------------------------------------------------------------------------
\* The invariant holds whatever the number of workers, connections and
\* descriptors: in particular worker_main never finds a fired descriptor without
\* a connection (NoNullConn).
THEOREM Invariant == Spec => []IInv
  <1>1. Init => IInv
    BY Zenon, InitInv
  <1>2. IInv /\ [Next]_vars => IInv'
    BY Zenon, NextInv
  <1> QED
    BY <1>1, <1>2, PTL DEF Spec

\* drive_machine runs for a connection in one thread at a time, and its event
\* cannot fire meanwhile: the one-shot events stand in for a lock of the connection.
THEOREM AlwaysOneDriver == Spec => []OneDriver
  <1>1. IInv => OneDriver
    <2> SUFFICES ASSUME IInv, NEW w \in Worker, my[w].c # NULL
                 PROVE  /\ users(my[w].c) \subseteq {w}
                        /\ my[w].fd \notin armed /\ my[w].fd \notin Range(fired)
      BY Zenon DEF OneDriver
    <2>1. my[w].fd \notin armed /\ my[w].fd \notin Range(fired)
      BY Zenon DEF IInv, Events
    <2>2. users(my[w].c) \subseteq {w}
      BY Zenon DEF IInv, Apart, users
    <2> QED
      BY Zenon, <2>1, <2>2
  <1> QED
    BY <1>1, Invariant, PTL

\* A worker reads and writes the socket of its own connection, although the
\* numbers of closed sockets are used again at once.
THEOREM AlwaysOwnSocket == Spec => []OwnSocket
  <1>1. IInv => OwnSocket
    BY Zenon DEF IInv, Entries, Hands, OwnSocket
  <1> QED
    BY <1>1, Invariant, PTL

\* conn_add_to_freelist and conn_free never release a structure that is in the
\* table or in the hands of a worker, nor one twice.
THEOREM FreeNeverUsed == Spec => []FreeIsUnused
  <1>1. IInv => FreeIsUnused
    BY Zenon DEF IInv
  <1> QED
    BY <1>1, Invariant, PTL

\* No open socket is lost to the loop: its event can fire, has fired, or a worker
\* has it.
THEOREM NeverForgotten == Spec => []NothingForgotten
  <1>1. IInv => NothingForgotten
    BY Zenon DEF IInv
  <1> QED
    BY <1>1, Invariant, PTL

=============================================================================
