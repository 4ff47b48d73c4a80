---------------------------- MODULE ServerProofs ----------------------------
(***************************************************************************)
(* The proofs about TcpServer.tla and about ChatServer.tla, which builds   *)
(* on it, for any number of workers, clients, messages and calls of        *)
(* stop().                                                                 *)
(*                                                                         *)
(* Of the server: addresses are not mixed up, there is one accept at a     *)
(* time and there is one until the server is stopped, and a single stop()  *)
(* closes the listening socket once and nothing else.  The inductive       *)
(* invariant follows the one accept from the kernel to the completion      *)
(* queue and to its handler, and a lone stop() from its request to the     *)
(* handler that carries it out.                                            *)
(*                                                                         *)
(* Of the program: it uses its server as TcpServer.tla says a server is    *)
(* used, so that what is proved there holds here; all events of the server *)
(* come one at a time, on one worker; and they are about clients that are  *)
(* in the pool.  The inductive invariant follows a connection: the worker  *)
(* of the accept is the one of its read, and of its events; a client is in *)
(* the pool from before its read is submitted until its close event.  And  *)
(* on_receive takes the frames of a client apart as they were put          *)
(* together: what is in the buffer of a socket, with its read and in the   *)
(* kernel is what was sent after one of the client's frames, as many texts *)
(* having been chatted as were in the frames before.                       *)
(***************************************************************************)
EXTENDS ChatServer, FiniteSetTheorems, SequenceTheorems, TLAPS

-----------------------------------------------------------------------------
(* The server.                                                             *)

Requests == [st : {"pending", "done", "handled"}, ring : Workers, fd : {ServerFd, Stdin}]

Types ==
    /\ TypeOK
    /\ shutdowns \in Seq(Requests)
    /\ stops \in 0..MaxStops /\ Len(shutdowns) = stops
    /\ log \in [failed : BOOLEAN, closed : Seq({ServerFd, Stdin}),
                reported : Seq(Clients \cup {NoClient}),
                remote : Seq(Clients \cup {NoClient})]

\* The accept is with the kernel or in a completion queue, or with one handler.
OneAccept ==
    /\ \A w \in Workers : Accepting(w) => accept.st = "none"
    /\ \A v, w \in Workers : Accepting(v) /\ Accepting(w) => v = w

\* Nothing but stop() and a failure keeps the accept from its socket and from a client.
GoesOn ==
    /\ accept.st = "pending" => accept.got = NoClient
    /\ stops = 0 =>
          /\ server_socket = ServerFd /\ ~listener.deaf
          /\ \A w \in Workers : worker[w].at \notin {"zero", "close"}
          /\ accept.st = "pending" => accept.fd = ServerFd
          /\ ~log.failed => /\ accept.st = "done" => accept.got # NoClient
                            /\ accept.st # "none" \/ \E w \in Workers : Accepting(w)

\* addr6 is that of the connection between the completion and set_remote_info().
Fits ==
    /\ accept.st = "done" /\ accept.got # NoClient => addr6 = accept.got
    /\ \A w \in Workers : worker[w].at = "event" => worker[w].addr = worker[w].peer

Stopping(w) == worker[w].at \in {"zero", "close"}

\* One stop() is in one place: not made yet, in a request, with a handler, or over.
StopsOnce ==
    MaxStops = 1 =>
        /\ log.closed # <<>> => log.closed = <<ServerFd>>
        /\ stops = 0 => server_socket = ServerFd /\ log.closed = <<>>
        /\ stops = 1 /\ shutdowns[1].st # "handled" =>
              /\ server_socket = ServerFd /\ log.closed = <<>>
              /\ \A w \in Workers : ~Stopping(w)
        /\ \A w \in Workers : Stopping(w) => worker[w].fd = ServerFd /\ log.closed = <<>>
        /\ \A v, w \in Workers : Stopping(v) /\ Stopping(w) => v = w
        /\ stops = 0 => \A w \in Workers : ~Stopping(w)

IInv == Types /\ OneAccept /\ GoesOn /\ Fits /\ RemoteIsPeer /\ StopsOnce

Handlers == [at : {"wait", "event", "next", "activate", "zero", "close"},
             peer : Clients \cup {NoClient}, addr : Clients \cup {NoClient},
             fd : {ServerFd, Stdin}]

\* A worker that goes on to the next step of its handler keeps what it works on.
LEMMA HandlerMovesOn ==
    ASSUME TypeOK, NEW w \in Workers, NEW a \in {"wait", "next", "close"},
           worker' = [worker EXCEPT ![w].at = a]
    PROVE  worker' \in [Workers -> Handlers]
<1>1. worker \in [Workers -> Handlers]
  BY DEF TypeOK, Handlers
<1>2. worker[w] \in Handlers
  BY <1>1
<1>3. [worker[w] EXCEPT !.at = a] \in Handlers
  BY <1>2 DEF Handlers
<1> QED
  BY <1>1, <1>3

\* The invariant holds when tcp_server::run has submitted its first accept (tcp_server.cpp:113-146).
LEMMA InitEstablishes == Init => IInv
  <1> SUFFICES ASSUME Init PROVE IInv
      OBVIOUS
  <1>1. Types
    BY TcpServerAssumption DEF Init, Types, TypeOK, Requests, Idle, ServerFd, Stdin
  <1>2. OneAccept
    BY DEF Init, OneAccept, Accepting, Idle
  <1>3. GoesOn
    BY DEF Init, GoesOn, Accepting, Idle
  <1>4. Fits /\ RemoteIsPeer
    BY DEF Init, Fits, RemoteIsPeer, Idle
  <1>5. StopsOnce
    BY DEF Init, StopsOnce, Stopping, Idle
  <1> QED BY <1>1, <1>2, <1>3, <1>4, <1>5 DEF IInv

\* A client that connects only joins the backlog.
LEMMA ConnectsPreserves ==
    ASSUME IInv, NEW c \in Clients, Connects(c)
    PROVE  IInv'
  <1> USE DEF IInv
  <1>1. Types'
    <2>1. Append(listener.backlog, c) \in Seq(Clients)
      BY AppendProperties DEF Types, TypeOK
    <2>2. listener' \in [open : BOOLEAN, deaf : BOOLEAN, backlog : Seq(Clients)]
      BY <2>1 DEF Connects, Types, TypeOK
    <2> QED BY <2>2 DEF Connects, Types, TypeOK
  <1>2. OneAccept'
    BY DEF Connects, Types, TypeOK, OneAccept, Accepting
  <1>3. GoesOn'
    BY DEF Connects, Types, TypeOK, OneAccept, GoesOn, Accepting
  <1>4. Fits' /\ RemoteIsPeer'
    BY DEF Connects, Types, TypeOK, Fits, RemoteIsPeer
  <1>5. StopsOnce'
    BY DEF Connects, Types, TypeOK, StopsOnce, Stopping
  <1> QED BY <1>1, <1>2, <1>3, <1>4, <1>5

\* The kernel completes the one pending accept and writes addr6: keeps the inductive invariant.
LEMMA KernelAcceptsPreserves ==
    ASSUME IInv, KernelAccepts
    PROVE  IInv'
  <1> USE DEF IInv
  <1>0. /\ Head(listener.backlog) \in Clients /\ Tail(listener.backlog) \in Seq(Clients)
        /\ Head(listener.backlog) # NoClient
    BY TcpServerAssumption DEF KernelAccepts, Types, TypeOK
  <1>1. Types'
    <2>1. listener' \in [open : BOOLEAN, deaf : BOOLEAN, backlog : Seq(Clients)]
      BY <1>0 DEF KernelAccepts, Types, TypeOK
    <2> QED BY <1>0, <2>1 DEF KernelAccepts, Types, TypeOK
  <1>2. OneAccept'
    BY DEF KernelAccepts, Types, TypeOK, OneAccept, Accepting
  <1>3. GoesOn'
    BY <1>0 DEF KernelAccepts, Types, TypeOK, OneAccept, GoesOn, Accepting
  <1>4. Fits' /\ RemoteIsPeer'
    BY DEF KernelAccepts, Types, TypeOK, Fits, RemoteIsPeer
  <1>5. StopsOnce'
    BY DEF KernelAccepts, Types, TypeOK, StopsOnce, Stopping
  <1> QED BY <1>1, <1>2, <1>3, <1>4, <1>5

\* A failed accept completes without a client: keeps the inductive invariant.
LEMMA KernelFailsPreserves ==
    ASSUME IInv, KernelFails
    PROVE  IInv'
  <1> USE DEF IInv
  <1>1. Types'
    BY DEF KernelFails, Types, TypeOK, ServerFd, Stdin
  <1>2. OneAccept'
    BY DEF KernelFails, Types, TypeOK, OneAccept, Accepting
  <1>3. GoesOn'
    BY DEF KernelFails, Types, TypeOK, OneAccept, GoesOn, Accepting
  <1>4. Fits' /\ RemoteIsPeer'
    BY DEF KernelFails, Types, TypeOK, OneAccept, GoesOn, Accepting, Fits, RemoteIsPeer
  <1>5. StopsOnce'
    BY DEF KernelFails, Types, TypeOK, StopsOnce, Stopping
  <1> QED BY <1>1, <1>2, <1>3, <1>4, <1>5

\* An accept on the socket that was shut down completes without a client.
LEMMA KernelRefusesPreserves ==
    ASSUME IInv, KernelRefuses
    PROVE  IInv'
  <1> USE DEF IInv
  <1>1. Types'
    BY DEF KernelRefuses, Types, TypeOK, ServerFd, Stdin
  <1>2. OneAccept'
    BY DEF KernelRefuses, Types, TypeOK, OneAccept, Accepting
  <1>3. GoesOn'
    BY DEF KernelRefuses, Types, TypeOK, OneAccept, GoesOn, Accepting
  <1>4. Fits' /\ RemoteIsPeer'
    BY DEF KernelRefuses, Types, TypeOK, OneAccept, GoesOn, Accepting, Fits, RemoteIsPeer
  <1>5. StopsOnce'
    BY DEF KernelRefuses, Types, TypeOK, StopsOnce, Stopping
  <1> QED BY <1>1, <1>2, <1>3, <1>4, <1>5

\* A step of a request keeps the number of requests, and what they are.
LEMMA RequestsStay ==
    ASSUME shutdowns \in Seq(Requests), NEW i \in DOMAIN shutdowns,
           NEW st \in {"pending", "done", "handled"}
    PROVE  /\ [shutdowns EXCEPT ![i].st = st] \in Seq(Requests)
           /\ Len([shutdowns EXCEPT ![i].st = st]) = Len(shutdowns)
  <1>1. i \in 1..Len(shutdowns) /\ shutdowns[i] \in Requests
    OBVIOUS
  <1> DEFINE e == [shutdowns[i] EXCEPT !.st = st]
  <1>2. e \in Requests
    BY <1>1 DEF Requests
  <1>3. [shutdowns EXCEPT ![i].st = st] = [shutdowns EXCEPT ![i] = e]
    OBVIOUS
  <1> HIDE DEF e
  <1> QED BY <1>1, <1>2, <1>3, ExceptSeq

\* The kernel shuts the listening socket down for a stop() that was asked for.
LEMMA KernelShutsDownPreserves ==
    ASSUME IInv, NEW i \in DOMAIN shutdowns, KernelShutsDown(i)
    PROVE  IInv'
  <1> USE DEF IInv
  <1>1. Types'
    <2>1. shutdowns' \in Seq(Requests) /\ Len(shutdowns') = Len(shutdowns)
      BY RequestsStay DEF KernelShutsDown, Types
    <2>2. listener' \in [open : BOOLEAN, deaf : BOOLEAN, backlog : Seq(Clients)]
      BY DEF KernelShutsDown, Types, TypeOK
    <2> QED BY <2>1, <2>2 DEF KernelShutsDown, Types, TypeOK
  <1>2. OneAccept'
    BY DEF KernelShutsDown, Types, TypeOK, OneAccept, Accepting
  <1>3. GoesOn'
    BY DEF KernelShutsDown, Types, TypeOK, OneAccept, GoesOn, Accepting
  <1>4. Fits' /\ RemoteIsPeer'
    BY DEF KernelShutsDown, Types, TypeOK, Fits, RemoteIsPeer
  <1>5. StopsOnce'
    BY DEF KernelShutsDown, Types, TypeOK, StopsOnce, Stopping
  <1> QED BY <1>1, <1>2, <1>3, <1>4, <1>5

\* io_accepting takes the completion and copies addr6 (tcp_server.cpp:164-168).
LEMMA AcceptsPreserves ==
    ASSUME IInv, NEW w \in Workers, Accepts(w)
    PROVE  IInv'
  <1> USE DEF IInv
  <1>1. Types'
    BY DEF Accepts, Types, TypeOK, Idle, NoAccept, ServerFd, Stdin, RemoteInfo
  <1>2. OneAccept'
    BY DEF Accepts, Types, TypeOK, OneAccept, Accepting, Idle, NoAccept
  <1>3. GoesOn'
    BY DEF Accepts, Types, TypeOK, OneAccept, GoesOn, Accepting, Idle, NoAccept
  <1>4. Fits' /\ RemoteIsPeer'
    BY DEF Accepts, Types, TypeOK, Fits, RemoteIsPeer, Idle, NoAccept, RemoteInfo
  <1>5. StopsOnce'
    BY DEF Accepts, Types, TypeOK, StopsOnce, Stopping, Idle, NoAccept
  <1> QED BY <1>1, <1>2, <1>3, <1>4, <1>5

\* A failed accept is dropped with its context (io_service.cpp:416-422).
LEMMA DropsPreserves ==
    ASSUME IInv, NEW w \in Workers, Drops(w)
    PROVE  IInv'
  <1> USE DEF IInv
  <1>1. Types'
    BY DEF Drops, Types, TypeOK, NoAccept, ServerFd, Stdin
  <1>2. OneAccept'
    BY DEF Drops, Types, TypeOK, OneAccept, Accepting, NoAccept
  <1>3. GoesOn'
    BY DEF Drops, Types, TypeOK, OneAccept, GoesOn, Accepting, NoAccept
  <1>4. Fits' /\ RemoteIsPeer'
    BY DEF Drops, Types, TypeOK, Fits, RemoteIsPeer, NoAccept
  <1>5. StopsOnce'
    BY DEF Drops, Types, TypeOK, StopsOnce, Stopping, NoAccept
  <1> QED BY <1>1, <1>2, <1>3, <1>4, <1>5

\* on_accept hears of the connection with the address taken for it (tcp_server.cpp:172-175).
LEMMA ReportsPreserves ==
    ASSUME IInv, NEW w \in Workers, Reports(w)
    PROVE  IInv'
  <1> USE DEF IInv
  <1>1. Types'
    <2>1. /\ worker[w].peer \in Clients \cup {NoClient}
          /\ worker[w].addr \in Clients \cup {NoClient}
      BY DEF Types, TypeOK
    <2>2. /\ log'.reported \in Seq(Clients \cup {NoClient})
          /\ log'.remote \in Seq(Clients \cup {NoClient})
      BY <2>1 DEF Reports, Types
    <2>3. log' \in [failed : BOOLEAN, closed : Seq({ServerFd, Stdin}),
                    reported : Seq(Clients \cup {NoClient}),
                    remote : Seq(Clients \cup {NoClient})]
      BY <2>2 DEF Reports, Types
    <2>4. worker' \in [Workers -> Handlers]
      BY HandlerMovesOn DEF Reports, Types
    <2>5. UNCHANGED <<server_socket, addr6, listener, accept, shutdowns, client, stops>>
      BY DEF Reports
    <2> QED BY <2>3, <2>4, <2>5 DEF Types, TypeOK, Handlers
  <1>2. OneAccept'
    BY DEF Reports, Types, TypeOK, OneAccept, Accepting
  <1>3. GoesOn'
    BY DEF Reports, Types, TypeOK, OneAccept, GoesOn, Accepting
  <1>4. Fits' /\ RemoteIsPeer'
    BY DEF Reports, Types, TypeOK, Fits, RemoteIsPeer
  <1>5. StopsOnce'
    BY DEF Reports, Types, TypeOK, StopsOnce, Stopping
  <1> QED BY <1>1, <1>2, <1>3, <1>4, <1>5

\* submit_accept runs while no other accept is under way (tcp_server.cpp:156-162).
LEMMA SubmitsNextPreserves ==
    ASSUME IInv, NEW w \in Workers, SubmitsNext(w)
    PROVE  IInv'
  <1> USE DEF IInv
  <1>1. Types'
    BY DEF SubmitsNext, Types, TypeOK
  <1>2. OneAccept'
    BY DEF SubmitsNext, Types, TypeOK, OneAccept, Accepting
  <1>3. GoesOn'
    BY DEF SubmitsNext, Types, TypeOK, OneAccept, GoesOn, Accepting
  <1>4. Fits' /\ RemoteIsPeer'
    BY DEF SubmitsNext, Types, TypeOK, Fits, RemoteIsPeer
  <1>5. StopsOnce'
    BY DEF SubmitsNext, Types, TypeOK, StopsOnce, Stopping
  <1> QED BY <1>1, <1>2, <1>3, <1>4, <1>5

\* The handler ends by activating the connection (tcp_server.cpp:169-170).
LEMMA ActivatesPreserves ==
    ASSUME IInv, NEW w \in Workers, Activates(w)
    PROVE  IInv'
  <1> USE DEF IInv
  <1>1. Types'
    BY DEF Activates, Types, TypeOK, Idle, ServerFd, Stdin
  <1>2. OneAccept'
    BY DEF Activates, Types, TypeOK, OneAccept, Accepting, Idle
  <1>3. GoesOn'
    BY DEF Activates, Types, TypeOK, OneAccept, GoesOn, Accepting, Idle
  <1>4. Fits' /\ RemoteIsPeer'
    BY DEF Activates, Types, TypeOK, Fits, RemoteIsPeer, Idle
  <1>5. StopsOnce'
    BY DEF Activates, Types, TypeOK, StopsOnce, Stopping, Idle
  <1> QED BY <1>1, <1>2, <1>3, <1>4, <1>5

\* tcp_server::stop submits a shutdown of the listening socket (tcp_server.cpp:148-154).
LEMMA StopsPreserves ==
    ASSUME IInv, Stops
    PROVE  IInv'
  <1> USE DEF IInv
  <1>1. Types'
    BY TcpServerAssumption DEF Stops, Types, TypeOK, Requests
  <1>2. OneAccept'
    BY DEF Stops, Types, TypeOK, OneAccept, Accepting
  <1>3. GoesOn'
    BY DEF Stops, Types, TypeOK, OneAccept, GoesOn, Accepting
  <1>4. Fits' /\ RemoteIsPeer'
    BY DEF Stops, Types, TypeOK, Fits, RemoteIsPeer
  <1>5. StopsOnce'
    BY DEF Stops, Types, TypeOK, StopsOnce, Stopping
  <1> QED BY <1>1, <1>2, <1>3, <1>4, <1>5

\* A worker takes the completion of a shutdown (io_service.cpp:446-448).
LEMMA TakesShutdownPreserves ==
    ASSUME IInv, NEW w \in Workers, TakesShutdown(w)
    PROVE  IInv'
  <1> USE DEF IInv
  <1>1. Types'
    <2>1. shutdowns' \in Seq(Requests) /\ Len(shutdowns') = Len(shutdowns)
      <3>1. PICK i \in DOMAIN shutdowns : shutdowns' = [shutdowns EXCEPT ![i].st = "handled"]
        BY DEF TakesShutdown
      <3> QED BY <3>1, RequestsStay DEF Types
    <2>2. worker' \in [Workers -> [at : {"wait", "event", "next", "activate", "zero", "close"},
                                   peer : Clients \cup {NoClient},
                                   addr : Clients \cup {NoClient}, fd : {ServerFd, Stdin}]]
      BY DEF TakesShutdown, Types, TypeOK, Idle
    <2> QED BY <2>1, <2>2 DEF TakesShutdown, Types, TypeOK
  <1>2. OneAccept'
    BY DEF TakesShutdown, Types, TypeOK, OneAccept, Accepting, Idle
  <1>3. GoesOn'
    BY DEF TakesShutdown, Types, TypeOK, OneAccept, GoesOn, Accepting, Idle
  <1>4. Fits' /\ RemoteIsPeer'
    BY DEF TakesShutdown, Types, TypeOK, Fits, RemoteIsPeer, Idle
  <1>5. StopsOnce'
    BY DEF TakesShutdown, Types, TypeOK, StopsOnce, Stopping, Idle
  <1> QED BY <1>1, <1>2, <1>3, <1>4, <1>5

\* The handler resets server_socket before it closes the descriptor (io_service.cpp:449).
LEMMA ZeroesPreserves ==
    ASSUME IInv, NEW w \in Workers, Zeroes(w)
    PROVE  IInv'
  <1> USE DEF IInv
  <1>1. Types'
    <2>1. worker' \in [Workers -> Handlers]
      BY HandlerMovesOn DEF Zeroes, Types
    <2>2. server_socket' \in {ServerFd, Stdin}
      BY DEF Zeroes, ServerFd, Stdin
    <2>3. UNCHANGED <<addr6, listener, accept, shutdowns, client, stops, log>>
      BY DEF Zeroes
    <2> QED BY <2>1, <2>2, <2>3 DEF Types, TypeOK, Handlers
  <1>2. OneAccept'
    BY DEF Zeroes, Types, TypeOK, OneAccept, Accepting
  <1>3. GoesOn'
    BY DEF Zeroes, Types, TypeOK, OneAccept, GoesOn, Accepting
  <1>4. Fits' /\ RemoteIsPeer'
    BY DEF Zeroes, Types, TypeOK, Fits, RemoteIsPeer
  <1>5. StopsOnce'
    BY DEF Zeroes, Types, TypeOK, StopsOnce, Stopping
  <1> QED BY <1>1, <1>2, <1>3, <1>4, <1>5

\* The handler closes the descriptor of its own request (io_service.cpp:451-453).
LEMMA ClosesPreserves ==
    ASSUME IInv, NEW w \in Workers, Closes(w)
    PROVE  IInv'
  <1> USE DEF IInv
  <1>1. Types'
    <2>1. worker[w].fd \in {ServerFd, Stdin}
      BY DEF Types, TypeOK
    <2>2. Append(log.closed, worker[w].fd) \in Seq({ServerFd, Stdin})
      BY <2>1, AppendProperties DEF Types
    <2>3. log' \in [failed : BOOLEAN, closed : Seq({ServerFd, Stdin}),
                    reported : Seq(Clients \cup {NoClient}),
                    remote : Seq(Clients \cup {NoClient})]
      BY <2>2 DEF Closes, Types
    <2>4. listener' \in [open : BOOLEAN, deaf : BOOLEAN, backlog : Seq(Clients)]
      <3>1. <<>> \in Seq(Clients)
        OBVIOUS
      <3>2. [open |-> FALSE, deaf |-> TRUE, backlog |-> <<>>]
                \in [open : BOOLEAN, deaf : BOOLEAN, backlog : Seq(Clients)]
        BY <3>1
      <3>3. listener' \in {listener, [open |-> FALSE, deaf |-> TRUE, backlog |-> <<>>]}
        BY DEF Closes
      <3> QED BY <3>2, <3>3 DEF Types, TypeOK
    <2>5. client' \in [Clients -> {"away", "queued", "accepted", "active", "reset"}]
      BY DEF Closes, Types, TypeOK
    <2> QED BY <2>3, <2>4, <2>5 DEF Closes, Types, TypeOK, Idle, Stdin, ServerFd
  <1>2. OneAccept'
    BY DEF Closes, Types, TypeOK, OneAccept, Accepting, Idle
  <1>3. GoesOn'
    BY DEF Closes, Types, TypeOK, OneAccept, GoesOn, Accepting, Idle
  <1>4. Fits' /\ RemoteIsPeer'
    BY DEF Closes, Types, TypeOK, Fits, RemoteIsPeer, Idle
  <1>5. StopsOnce'
    <2> SUFFICES ASSUME MaxStops = 1 PROVE StopsOnce'
      BY DEF StopsOnce
    <2>1. worker[w].fd = ServerFd /\ log.closed = <<>>
      BY DEF StopsOnce, Stopping, Closes
    <2>2. log'.closed = <<ServerFd>>
      BY <2>1 DEF Closes, Types
    <2>3. \A v \in Workers : ~Stopping(v)'
      BY DEF Closes, Types, TypeOK, StopsOnce, Stopping, Idle
    <2>4. stops # 0 /\ (stops = 1 => shutdowns[1].st = "handled")
      BY DEF Closes, StopsOnce, Stopping
    <2> QED BY <2>2, <2>3, <2>4 DEF Closes, StopsOnce
  <1> QED BY <1>1, <1>2, <1>3, <1>4, <1>5

\* Every step of the server keeps the inductive invariant: one lemma above for each.
LEMMA NextPreserves ==
    ASSUME IInv, Next
    PROVE  IInv'
  <1>1. CASE \E c \in Clients : Connects(c)
    BY <1>1, ConnectsPreserves
  <1>2. CASE Kernel \/ KernelFails
    BY <1>2, KernelAcceptsPreserves, KernelFailsPreserves, KernelRefusesPreserves,
       KernelShutsDownPreserves DEF Kernel
  <1>3. CASE \E w \in Workers : Works(w)
    BY <1>3, AcceptsPreserves, DropsPreserves, ReportsPreserves, SubmitsNextPreserves,
       ActivatesPreserves, TakesShutdownPreserves, ZeroesPreserves, ClosesPreserves
       DEF Works
  <1>4. CASE Stops
    BY <1>4, StopsPreserves
  <1> QED BY <1>1, <1>2, <1>3, <1>4 DEF Next

\* A step of something else keeps the invariant of the server.
LEMMA StutterPreserves == IInv /\ UNCHANGED vars => IInv'
  BY DEF IInv, vars, Types, TypeOK, OneAccept, GoesOn, Accepting, Fits, RemoteIsPeer,
         StopsOnce, Stopping

\* The inductive invariant of the server, of run() and stop() with everything in between.
THEOREM Invariance == Spec => []IInv
  <1>1. IInv /\ [Next]_vars => IInv'
    BY NextPreserves, StutterPreserves
  <1> QED BY InitEstablishes, <1>1, PTL DEF Spec

\* One accept at a time, and one as long as the server is not stopped and none failed.
LEMMA AcceptFollows == IInv => AcceptAlive
  <1> SUFFICES ASSUME IInv PROVE AcceptAlive
      OBVIOUS
  <1> DEFINE A == {w \in Workers : Accepting(w)}
  <1>1. CASE A = {}
    <2>1. Cardinality(A) = 0
      BY <1>1, FS_EmptySet
    <2> QED BY <1>1, <2>1 DEF IInv, GoesOn, AcceptAlive
  <1>2. CASE A # {}
    <2>1. PICK w \in Workers : Accepting(w)
      BY <1>2
    <2>2. A = {w}
      BY <2>1 DEF IInv, OneAccept
    <2>3. Cardinality(A) = 1
      BY <2>2, FS_Singleton
    <2>4. accept.st = "none"
      BY <2>1 DEF IInv, OneAccept
    <2> QED BY <2>1, <2>3, <2>4 DEF AcceptAlive
  <1> QED BY <1>1, <1>2

\* Every member holds what its declaration says: a descriptor is the listening socket's or 0.
THEOREM TypeCorrect == Spec => []TypeOK
  <1>1. IInv => TypeOK
    BY DEF IInv, Types
  <1> QED BY <1>1, Invariance, PTL

\* tcp_server::set_remote_info is given the address of the connection that was accepted,
\* although every accept writes it to the same member.
THEOREM RemoteInfoRight == Spec => []RemoteIsPeer
  <1>1. IInv => RemoteIsPeer
    BY DEF IInv
  <1> QED BY <1>1, Invariance, PTL

\* io_accepting keeps the chain of accepts going, and single.
THEOREM AcceptGoesOn == Spec => []AcceptAlive
  BY AcceptFollows, Invariance, PTL

\* The handler of one stop() closes the listening socket and no other descriptor.
THEOREM OneStopClosesOnce == Spec => []StopClosesOnce
  <1>1. IInv => StopClosesOnce
    BY DEF IInv, StopsOnce, StopClosesOnce
  <1> QED BY <1>1, Invariance, PTL

-----------------------------------------------------------------------------
(* The program.                                                            *)

Handling(w) == worker[w].at \in {"event", "next", "activate"}

\* Every accept, every read and every event is with worker h.
AllAt(h) ==
    /\ accept.st # "none" => accept.ring = h
    /\ \A w \in Workers : Handling(w) \/ event[w].at # "none" => w = h
    /\ \A c \in Clients : sock[c].read # "none" => sock[c].ring = h

\* A connection is queued, then accepted, then activated, then read until its close event.
Queued ==
    \A i, j \in DOMAIN listener.backlog :
        /\ client[listener.backlog[i]] = "queued"
        /\ listener.backlog[i] = listener.backlog[j] => i = j

Accepted == accept.got # NoClient => client[accept.got] = "accepted"

Activating(w) == Handling(w) => /\ worker[w].peer \in Clients
                                /\ client[worker[w].peer] = "accepted"
                                /\ accept.got # worker[w].peer
                                /\ event[w].at = "none"

Active(w) == event[w].at # "none" => /\ event[w].from \in Clients
                                     /\ client[event[w].from] = "active"
                                     /\ event[w].at = "close" =>
                                            sock[event[w].from].read = "none"

Reading == \A c \in Clients : sock[c].read # "none" => client[c] = "active"

Stages == /\ Queued /\ Accepted /\ Reading
          /\ \A w \in Workers : Activating(w) /\ Active(w)

\* The pool has those whose read is submitted or about to be.
InPool ==
    /\ \A w \in Workers : worker[w].at \in {"next", "activate"} => worker[w].peer \in clients
    /\ \A w \in Workers : event[w].at \in {"receive", "chat", "all", "corrupt"} =>
                              event[w].from \in clients
    /\ \A c \in Clients : sock[c].read # "none" => c \in clients

CInv == /\ IInv /\ ChatTypeOK
        /\ \E h \in Workers : AllAt(h)
        /\ Stages /\ InPool

\* The invariant holds when main() has started the server (main.cpp:28-60).
LEMMA ChatInitEstablishes == ChatInit => CInv
  <1> SUFFICES ASSUME ChatInit PROVE CInv
      OBVIOUS
  <1>0. IInv
    BY InitEstablishes DEF ChatInit
  <1>1. ChatTypeOK
    BY DEF ChatInit, ChatTypeOK, Socket, Event, NewSocket, NoEvent
  <1>2. \E h \in Workers : AllAt(h)
    BY DEF ChatInit, Init, AllAt, Handling, NewSocket, NoEvent, Idle
  <1>3. Stages
    BY DEF ChatInit, Init, Stages, Queued, Accepted, Activating, Active, Reading, Handling,
           NewSocket, NoEvent, NoAccept, Idle
  <1>4. InPool
    BY DEF ChatInit, Init, InPool, NewSocket, NoEvent, Idle
  <1> QED BY <1>0, <1>1, <1>2, <1>3, <1>4 DEF CInv

-----------------------------------------------------------------------------
(* Steps that start and end no read, that start no event and end none but  *)
(* a receive event, and that leave the server and the pool alone.          *)

SameReads ==
    \A c \in Clients : sock'[c].read # "none" =>
        sock[c].read # "none" /\ sock'[c].ring = sock[c].ring

InPoolEvent == {"receive", "chat", "all", "corrupt"}

SameEvents ==
    \A w \in Workers :
        /\ event'[w].at # "none" => event[w].at # "none" /\ event'[w].from = event[w].from
        /\ event'[w].at \in InPoolEvent => event[w].at \in InPoolEvent
        /\ event'[w].at = "close" => event[w].at = "close"

Quiet == /\ ChatTypeOK' /\ SameReads /\ SameEvents
         /\ UNCHANGED <<vars, clients>>

\* A step that changes neither the server, nor who handles what, nor a read, keeps the invariant.
LEMMA QuietKeeps ==
    ASSUME CInv, Quiet
    PROVE  CInv'
  <1>0. IInv'
    BY StutterPreserves DEF CInv, Quiet
  <1>1. PICK h \in Workers : AllAt(h)
    BY DEF CInv
  <1>2. AllAt(h)'
    BY <1>1 DEF Quiet, vars, SameReads, SameEvents, AllAt, Handling
  <1>3. Stages'
    BY DEF CInv, Quiet, vars, SameReads, SameEvents, Stages, Queued, Accepted, Activating,
           Active, Reading, Handling
  <1>4. InPool'
    BY DEF CInv, Quiet, vars, SameReads, SameEvents, InPoolEvent, InPool
  <1> QED BY <1>0, <1>2, <1>3, <1>4 DEF CInv, Quiet

\* One socket changes, but not where its read is.
LEMMA SocketStep ==
    ASSUME CInv, NEW c \in Clients, NEW s \in Socket, sock' = [sock EXCEPT ![c] = s],
           s.read # "none" => sock[c].read # "none" /\ s.ring = sock[c].ring
    PROVE  sock' \in [Clients -> Socket] /\ SameReads
  <1>1. sock \in [Clients -> Socket]
    BY DEF CInv, ChatTypeOK
  <1> QED BY <1>1 DEF SameReads

\* One worker goes on with its receive event, or ends it.
LEMMA EventStep ==
    ASSUME CInv, NEW w \in Workers, NEW e \in Event, event' = [event EXCEPT ![w] = e],
           e.at = "none" \/ (/\ e.at \in InPoolEvent /\ event[w].at \in InPoolEvent
                             /\ e.from = event[w].from)
    PROVE  event' \in [Workers -> Event] /\ SameEvents
  <1>1. event \in [Workers -> Event]
    BY DEF CInv, ChatTypeOK
  <1> QED BY <1>1 DEF SameEvents, InPoolEvent

\* A part of a sequence is a sequence over the same set.
LEMMA SequencePart ==
    ASSUME NEW S, NEW s \in Seq(S), NEW m \in Nat \ {0}, NEW n \in Nat, n <= Len(s)
    PROVE  SubSeq(s, m, n) \in Seq(S)
  <1>1. \A i \in m..n : s[i] \in S
    OBVIOUS
  <1> QED BY <1>1, SubSeqProperties

\* What on_receive copies out of the buffer is bytes again (io_buffer.cpp:60-68).
LEMMA PickedType ==
    ASSUME NEW old \in Seq(Byte), NEW b \in Seq(Byte), NEW n \in Nat \ {0}, n <= Len(b)
    PROVE  Picked(old, b, n) \in Seq(Byte) /\ Picked(old, b, n) # <<>>
  <1> DEFINE l == SubSeq(b, 1, n)
             r == SubSeq(old, n + 1, Len(old))
  <1>1. l \in Seq(Byte) /\ Len(l) = n
    BY SequencePart
  <1>2. r \in Seq(Byte)
    BY SequencePart
  <1>3. Picked(old, b, n) = l \o r
    BY DEF Picked
  <1> HIDE DEF l, r
  <1>4. l \o r \in Seq(Byte) /\ Len(l \o r) = Len(l) + Len(r) /\ Len(r) \in Nat
    BY <1>1, <1>2, ConcatProperties, LenProperties
  <1>5. Len(l \o r) # 0
    BY <1>1, <1>4
  <1> QED BY <1>3, <1>4, <1>5

\* A client that sends a line changes only its socket.
LEMMA SaysKeeps ==
    ASSUME CInv, NEW c \in Clients, Says(c)
    PROVE  CInv'
  <1>1. PICK kind \in case.kinds :
            \E n \in (IF kind = "chat" THEN case.texts ELSE {0}) :
                /\ stream' = [stream EXCEPT ![c] =
                                  @ \o Frame(kind, Text(n, Len(hist.said[c]) + 1))]
                /\ hist' = [hist EXCEPT !.frames = @ + 1,
                                !.said[c] = IF n = 0 THEN @
                                            ELSE Append(@, Text(n, Len(hist.said[c]) + 1))]
    BY DEF Says
  <1>a. PICK n \in (IF kind = "chat" THEN case.texts ELSE {0}) :
            /\ stream' = [stream EXCEPT ![c] =
                              @ \o Frame(kind, Text(n, Len(hist.said[c]) + 1))]
            /\ hist' = [hist EXCEPT !.frames = @ + 1,
                            !.said[c] = IF n = 0 THEN @
                                        ELSE Append(@, Text(n, Len(hist.said[c]) + 1))]
    BY <1>1
  <1> DEFINE k == Len(hist.said[c]) + 1
             text == Text(n, k)
  <1>2. n \in Nat /\ k \in Nat /\ kind \in {"chat", "bad", "nil"}
    <2>1. hist.said[c] \in Seq(Seq(Byte))
      BY DEF CInv, ChatTypeOK
    <2>2. case \in Case
      BY ChatServerAssumption DEF CInv, ChatTypeOK
    <2>3. case.texts \subseteq Nat /\ case.kinds \subseteq {"chat", "bad", "nil"}
      BY <2>2 DEF Case
    <2>4. n \in Nat
      BY <2>3
    <2> QED BY <2>1, <2>3, <2>4
  <1>3. text \in Seq(Byte) /\ Len(text) \in Nat
    BY <1>2 DEF Text, Byte
  <1>4. Frame(kind, text) \in Seq(Byte)
    <2>1. <<<<kind, Len(text)>>>> \in Seq(Byte)
      BY <1>2, <1>3 DEF Byte
    <2> QED BY <2>1, <1>3, ConcatProperties DEF Frame
  <1> HIDE DEF text, k
  <1>5. stream' \in [Clients -> Seq(Byte)]
    <2>1. stream[c] \o Frame(kind, text) \in Seq(Byte)
      BY <1>4, ConcatProperties DEF CInv, ChatTypeOK
    <2> QED BY <1>a, <2>1 DEF CInv, ChatTypeOK, text, k
  <1>6. hist' \in [said : [Clients -> Seq(Seq(Byte))], chats : [Clients -> Seq(Seq(Byte))],
                   frames : Nat]
    <2>1. Append(hist.said[c], text) \in Seq(Seq(Byte))
      BY <1>3, AppendProperties DEF CInv, ChatTypeOK
    <2> DEFINE t == IF n = 0 THEN hist.said[c] ELSE Append(hist.said[c], text)
    <2>2. t \in Seq(Seq(Byte))
      BY <2>1 DEF CInv, ChatTypeOK
    <2> DEFINE said == [hist.said EXCEPT ![c] = t]
    <2>3. hist' = [hist EXCEPT !.frames = @ + 1, !.said = said]
      BY <1>a DEF text, k
    <2> HIDE DEF t
    <2>4. said \in [Clients -> Seq(Seq(Byte))]
      BY <2>2 DEF CInv, ChatTypeOK
    <2> HIDE DEF said
    <2>5. hist' = [said |-> said, chats |-> hist.chats, frames |-> hist.frames + 1]
      BY <2>3 DEF CInv, ChatTypeOK
    <2> QED BY <2>4, <2>5 DEF CInv, ChatTypeOK
  <1>7. ChatTypeOK'
    BY <1>5, <1>6 DEF CInv, ChatTypeOK, Says
  <1> QED BY <1>7, QuietKeeps DEF Quiet, Says, SameReads, SameEvents

\* A client that closes its side changes only its socket.
LEMMA LeavesKeeps ==
    ASSUME CInv, NEW c \in Clients, Leaves(c)
    PROVE  CInv'
  <1> DEFINE s == [sock[c] EXCEPT !.ended = TRUE]
  <1>1. s \in Socket /\ s.read = sock[c].read /\ s.ring = sock[c].ring
    <2>1. sock[c] \in Socket
      BY DEF CInv, ChatTypeOK
    <2> QED BY <2>1 DEF Socket
  <1>2. sock' = [sock EXCEPT ![c] = s]
    BY DEF Leaves
  <1> HIDE DEF s
  <1>3. sock' \in [Clients -> Socket] /\ SameReads
    BY <1>1, <1>2, SocketStep
  <1>4. ChatTypeOK'
    BY <1>3 DEF CInv, ChatTypeOK, Leaves
  <1> QED BY <1>3, <1>4, QuietKeeps DEF Quiet, Leaves, SameEvents

\* SHUT_RD at a client's socket ends its pending read, if there is one.
LEMMA KernelShutsKeeps ==
    ASSUME CInv, NEW c \in Clients, KernelShuts(c)
    PROVE  CInv'
  <1> DEFINE s == [sock[c] EXCEPT !.asked = {}, !.ended = TRUE,
                            !.answered = sock[c].answered \cup sock[c].asked]
  <1>1. s \in Socket /\ s.read = sock[c].read /\ s.ring = sock[c].ring
    <2>1. sock[c] \in Socket
      BY DEF CInv, ChatTypeOK
    <2> QED BY <2>1 DEF Socket
  <1>2. sock' = [sock EXCEPT ![c] = s]
    BY DEF KernelShuts
  <1> HIDE DEF s
  <1>3. sock' \in [Clients -> Socket] /\ SameReads
    BY <1>1, <1>2, SocketStep
  <1>4. ChatTypeOK'
    BY <1>3 DEF CInv, ChatTypeOK, KernelShuts
  <1> QED BY <1>3, <1>4, QuietKeeps DEF Quiet, KernelShuts, SameEvents

\* io_sent empties the send buffer and may ask for the postponed shutdown (socket_object.cpp:96-111).
LEMMA DrainsKeeps ==
    ASSUME CInv, NEW w \in Workers, NEW c \in Clients, Drains(w, c)
    PROVE  CInv'
  <1> DEFINE s == [sock[c] EXCEPT !.unsent = FALSE,
                            !.asked = IF sock[c].graceful THEN sock[c].asked \cup {w}
                                     ELSE sock[c].asked]
  <1>1. s \in Socket /\ s.read = sock[c].read /\ s.ring = sock[c].ring
    <2>1. sock[c] \in Socket
      BY DEF CInv, ChatTypeOK
    <2> QED BY <2>1 DEF Socket
  <1>2. sock' = [sock EXCEPT ![c] = s]
    BY DEF Drains
  <1> HIDE DEF s
  <1>3. sock' \in [Clients -> Socket] /\ SameReads
    BY <1>1, <1>2, SocketStep
  <1>4. ChatTypeOK'
    BY <1>3 DEF CInv, ChatTypeOK, Drains
  <1> QED BY <1>3, <1>4, QuietKeeps DEF Quiet, Drains, SameEvents

\* A worker takes the completion of a client's shutdown (io_service.cpp:437-445).
LEMMA TakesShutKeeps ==
    ASSUME CInv, NEW w \in Workers, NEW c \in Clients, TakesShut(w, c)
    PROVE  CInv'
  <1> DEFINE s == [sock[c] EXCEPT !.answered = sock[c].answered \ {w}, !.open = FALSE]
  <1>1. s \in Socket /\ s.read = sock[c].read /\ s.ring = sock[c].ring
    <2>1. sock[c] \in Socket
      BY DEF CInv, ChatTypeOK
    <2> QED BY <2>1 DEF Socket
  <1>2. sock' = [sock EXCEPT ![c] = s]
    BY DEF TakesShut
  <1> HIDE DEF s
  <1>3. sock' \in [Clients -> Socket] /\ SameReads
    BY <1>1, <1>2, SocketStep
  <1>4. stream' \in [Clients -> Seq(Byte)]
    <2>1. <<>> \in Seq(Byte)
      OBVIOUS
    <2> QED BY <2>1 DEF CInv, ChatTypeOK, TakesShut
  <1>5. ChatTypeOK'
    BY <1>3, <1>4 DEF CInv, ChatTypeOK, TakesShut
  <1> QED BY <1>3, <1>5, QuietKeeps DEF Quiet, TakesShut, SameEvents

\* A read completes at the ring it was submitted to, which is the acceptor's.
LEMMA KernelReadsKeeps ==
    ASSUME CInv, NEW c \in Clients, KernelReads(c)
    PROVE  CInv'
  <1>0. stream[c] \in Seq(Byte)
    BY DEF CInv, ChatTypeOK
  <1>1. PICK n \in (IF stream[c] = <<>> THEN {0} ELSE 1..Len(stream[c])) :
            /\ sock' = [sock EXCEPT ![c].read = "done", ![c].got = SubSeq(stream[c], 1, n)]
            /\ stream' = [stream EXCEPT ![c] = SubSeq(@, n + 1, Len(@))]
    BY DEF KernelReads
  <1>n. n \in Nat /\ n <= Len(stream[c])
    BY <1>0
  <1>2. SubSeq(stream[c], 1, n) \in Seq(Byte)
    BY <1>0, <1>n, SequencePart
  <1>3. SubSeq(stream[c], n + 1, Len(stream[c])) \in Seq(Byte)
    BY <1>0, <1>n, SequencePart
  <1> DEFINE s == [sock[c] EXCEPT !.read = "done", !.got = SubSeq(stream[c], 1, n)]
  <1>4. s \in Socket /\ sock[c].read # "none" /\ s.ring = sock[c].ring
    <2>1. sock[c] \in Socket
      BY DEF CInv, ChatTypeOK
    <2> QED BY <1>2, <2>1 DEF Socket, KernelReads
  <1>5. sock' = [sock EXCEPT ![c] = s]
    BY <1>1
  <1> HIDE DEF s
  <1>6. sock' \in [Clients -> Socket] /\ SameReads
    BY <1>4, <1>5, SocketStep
  <1>7. stream' \in [Clients -> Seq(Byte)]
    BY <1>1, <1>3 DEF CInv, ChatTypeOK
  <1>8. ChatTypeOK'
    BY <1>6, <1>7 DEF CInv, ChatTypeOK, KernelReads
  <1> QED BY <1>6, <1>8, QuietKeeps DEF Quiet, KernelReads, SameEvents

\* on_receive leaves its loop with an incomplete packet (receiver.cpp:40-42).
LEMMA BreaksKeeps ==
    ASSUME CInv, NEW w \in Workers, Breaks(w)
    PROVE  CInv'
  <1>1. NoEvent \in Event /\ NoEvent.at = "none"
    BY DEF NoEvent, Event
  <1>2. event' \in [Workers -> Event] /\ SameEvents
    BY <1>1, EventStep DEF Breaks
  <1>3. ChatTypeOK'
    BY <1>2 DEF CInv, ChatTypeOK, Breaks
  <1> QED BY <1>2, <1>3, QuietKeeps DEF Quiet, Breaks, SameReads

\* What on_receive reads and pops is there.
LEMMA FrameIsThere ==
    ASSUME CInv, NEW w \in Workers, InReceive(w), Whole(Said(w))
    PROVE  /\ event[w].from \in Clients
           /\ Said(w) \in Seq(Byte)
           /\ FrameLength(Said(w)) \in Nat \ {0} /\ FrameLength(Said(w)) <= Len(Said(w))
  <1>1. event[w].from \in Clients
    BY DEF CInv, Stages, Active, InReceive
  <1>2. Said(w) \in Seq(Byte)
    BY <1>1 DEF CInv, ChatTypeOK, Said
  <1>3. Said(w)[1] \in Byte
    BY <1>2 DEF Whole
  <1>4. Said(w)[1][2] \in Nat
    BY <1>3 DEF Byte
  <1> QED BY <1>1, <1>2, <1>4 DEF Whole, FrameLength

\* What is left of the buffer when a packet was popped is bytes (receiver.cpp:43).
LEMMA PopsType ==
    ASSUME CInv, NEW w \in Workers, InReceive(w), Whole(Said(w)), Pops(w)
    PROVE  buffer' \in [Clients -> Seq(Byte)]
  <1> DEFINE b == Said(w)
             rest == SubSeq(b, FrameLength(b) + 1, Len(b))
  <1>1. rest \in Seq(Byte)
    BY FrameIsThere, SequencePart
  <1>2. buffer' = [buffer EXCEPT ![event[w].from] = rest]
    BY DEF Pops, Said
  <1> HIDE DEF rest
  <1> QED BY <1>1, <1>2 DEF CInv, ChatTypeOK

\* What the array of on_receive holds after a read is bytes (receiver.cpp:41-42).
LEMMA ReadsType ==
    ASSUME CInv, NEW w \in Workers, InReceive(w), Whole(Said(w))
    PROVE  Reads(w) \in Seq(Byte) /\ Reads(w) # <<>>
  <1>1. event[w].picked \in Seq(Byte)
    BY DEF CInv, ChatTypeOK, Event
  <1> QED BY <1>1, FrameIsThere, PickedType DEF Reads

\* A step that only moves the worker's place in its receive event changes nothing else
\* (receiver.cpp:40-57).
LEMMA AtStep ==
    ASSUME CInv, NEW w \in Workers, InReceive(w), NEW at \in InPoolEvent,
           event' = [event EXCEPT ![w].at = at],
           UNCHANGED <<vars, clients, pool, sock, stream, buffer, main, case, hist>>
    PROVE  CInv'
  <1> DEFINE e == [event[w] EXCEPT !.at = at]
  <1>1. event[w] \in Event
    BY DEF CInv, ChatTypeOK
  <1>2. e \in Event /\ e.at = at /\ e.from = event[w].from
    BY <1>1 DEF Event, InPoolEvent
  <1>3. event' = [event EXCEPT ![w] = e]
    BY <1>1
  <1> HIDE DEF e
  <1>4. event' \in [Workers -> Event] /\ SameEvents
    BY <1>2, <1>3, EventStep DEF InReceive, InPoolEvent
  <1>5. ChatTypeOK'
    BY <1>4 DEF CInv, ChatTypeOK
  <1> QED BY <1>4, <1>5, QuietKeeps DEF Quiet, SameReads

\* An array that is overrun stops the worker here (receiver.cpp:42, client.cpp:28).
LEMMA OverrunsKeeps ==
    ASSUME CInv, NEW w \in Workers, Overruns(w)
    PROVE  CInv'
  BY AtStep DEF Overruns, InPoolEvent

\* The request in the array is chatted again (receiver.cpp:54-56).
LEMMA RepeatsKeeps ==
    ASSUME CInv, NEW w \in Workers, Repeats(w)
    PROVE  CInv'
  BY AtStep DEF Repeats, NextIs, InPoolEvent

\* on_receive passes over a request without a text (receiver.cpp:54).
LEMMA SkipsKeeps ==
    ASSUME CInv, NEW w \in Workers, Skips(w)
    PROVE  CInv'
  <1> DEFINE e == [event[w] EXCEPT !.picked = Reads(w)]
  <1>1. event[w] \in Event /\ InReceive(w) /\ Whole(Said(w))
    BY DEF CInv, ChatTypeOK, Skips, NextIs
  <1>2. e \in Event /\ e.at = "receive" /\ e.from = event[w].from
    BY <1>1, ReadsType DEF Event, InReceive
  <1>3. event' = [event EXCEPT ![w] = e]
    BY DEF Skips
  <1> HIDE DEF e
  <1>4. event' \in [Workers -> Event] /\ SameEvents
    BY <1>1, <1>2, <1>3, EventStep DEF InReceive, InPoolEvent
  <1>5. buffer' \in [Clients -> Seq(Byte)]
    BY <1>1, PopsType DEF Skips
  <1>6. ChatTypeOK'
    BY <1>4, <1>5 DEF CInv, ChatTypeOK, Skips
  <1> QED BY <1>4, <1>6, QuietKeeps DEF Quiet, Skips, SameReads

\* on_receive closes the client of an invalid packet (receiver.cpp:45-49).
LEMMA RefusesKeeps ==
    ASSUME CInv, NEW w \in Workers, Refuses(w)
    PROVE  CInv'
  <1> DEFINE c == event[w].from
             s == [sock[c] EXCEPT !.asked = sock[c].asked \cup {w}]
  <1>0. c \in Clients
    BY FrameIsThere DEF Refuses, NextIs
  <1>1. s \in Socket /\ s.read = sock[c].read /\ s.ring = sock[c].ring
    <2>1. sock[c] \in Socket
      BY <1>0 DEF CInv, ChatTypeOK
    <2> QED BY <2>1 DEF Socket
  <1>2. sock' = [sock EXCEPT ![c] = s]
    BY DEF Refuses
  <1> HIDE DEF s
  <1>3. sock' \in [Clients -> Socket] /\ SameReads
    BY <1>0, <1>1, <1>2, SocketStep
  <1>4. NoEvent \in Event /\ NoEvent.at = "none"
    BY DEF NoEvent, Event
  <1>5. event' \in [Workers -> Event] /\ SameEvents
    BY <1>4, EventStep DEF Refuses
  <1>6. buffer' \in [Clients -> Seq(Byte)]
    BY PopsType DEF Refuses, NextIs
  <1>7. ChatTypeOK'
    BY <1>3, <1>5, <1>6 DEF CInv, ChatTypeOK, Refuses
  <1> QED BY <1>3, <1>5, <1>7, QuietKeeps DEF Quiet, Refuses

\* on_receive hands a packet to client::chat (receiver.cpp:51-56).
LEMMA ChatsKeeps ==
    ASSUME CInv, NEW w \in Workers, Chats(w)
    PROVE  CInv'
  <1> DEFINE c == event[w].from
             p == Reads(w)
             e == [event[w] EXCEPT !.at = "chat", !.picked = p]
  <1>0. c \in Clients
    BY FrameIsThere DEF Chats, NextIs
  <1>1. event[w] \in Event
    BY DEF CInv, ChatTypeOK
  <1>2. p \in Seq(Byte) /\ p # <<>>
    BY ReadsType DEF Chats, NextIs
  <1>3. /\ event' = [event EXCEPT ![w] = e]
        /\ hist' = [hist EXCEPT !.chats[c] = Append(@, Tail(p))]
    BY DEF Chats
  <1> HIDE DEF p
  <1>4. e \in Event /\ e.at = "chat" /\ e.from = event[w].from
    BY <1>1, <1>2 DEF Event
  <1> HIDE DEF e
  <1>5. event' \in [Workers -> Event] /\ SameEvents
    BY <1>3, <1>4, EventStep DEF Chats, NextIs, InReceive, InPoolEvent
  <1>6. hist' \in [said : [Clients -> Seq(Seq(Byte))], chats : [Clients -> Seq(Seq(Byte))],
                   frames : Nat]
    <2>1. Tail(p) \in Seq(Byte)
      BY <1>2, HeadTailProperties
    <2>2. hist.chats[c] \in Seq(Seq(Byte))
      BY <1>0 DEF CInv, ChatTypeOK
    <2>3. Append(hist.chats[c], Tail(p)) \in Seq(Seq(Byte))
      BY <2>1, <2>2, AppendProperties
    <2> QED BY <1>3, <2>3 DEF CInv, ChatTypeOK
  <1>7. buffer' \in [Clients -> Seq(Byte)]
    BY PopsType DEF Chats, NextIs
  <1>8. ChatTypeOK'
    BY <1>5, <1>6, <1>7 DEF CInv, ChatTypeOK, Chats
  <1> QED BY <1>5, <1>8, QuietKeeps DEF Quiet, Chats, SameReads

\* client::chat takes the lock of the pool (client.cpp:18-35).
LEMMA ChatLocksKeeps ==
    ASSUME CInv, NEW w \in Workers, ChatLocks(w)
    PROVE  CInv'
  <1> DEFINE e == [event[w] EXCEPT !.at = "all", !.todo = clients]
  <1>1. e \in Event /\ e.at = "all" /\ e.from = event[w].from
    <2>1. event[w] \in Event /\ clients \subseteq Clients
      BY DEF CInv, ChatTypeOK
    <2> QED BY <2>1 DEF Event
  <1>2. event' = [event EXCEPT ![w] = e]
    BY DEF ChatLocks
  <1> HIDE DEF e
  <1>3. event' \in [Workers -> Event] /\ SameEvents
    BY <1>1, <1>2, EventStep DEF ChatLocks, InPoolEvent
  <1>4. ChatTypeOK'
    BY <1>3 DEF CInv, ChatTypeOK, ChatLocks
  <1> QED BY <1>3, <1>4, QuietKeeps DEF Quiet, ChatLocks, SameReads

\* pool::chat_all sends to one more client (pool.cpp:42-47).
LEMMA ChatSendsKeeps ==
    ASSUME CInv, NEW w \in Workers, ChatSends(w)
    PROVE  CInv'
  <1>0. event[w] \in Event
    BY DEF CInv, ChatTypeOK
  <1>1. PICK c \in event[w].todo :
            /\ event' = [event EXCEPT ![w].todo = @ \ {c}]
            /\ sock' = [sock EXCEPT ![c].unsent =
                            @ \/ (sock[c].connected /\ ~sock[c].graceful)]
    BY DEF ChatSends
  <1>2. c \in Clients
    BY <1>0 DEF Event
  <1> DEFINE e == [event[w] EXCEPT !.todo = event[w].todo \ {c}]
             s == [sock[c] EXCEPT !.unsent = sock[c].unsent \/ (sock[c].connected /\ ~sock[c].graceful)]
  <1>3. e \in Event /\ e.at = "all" /\ e.from = event[w].from
    BY <1>0 DEF Event, ChatSends
  <1>4. s \in Socket /\ s.read = sock[c].read /\ s.ring = sock[c].ring
    <2>1. sock[c] \in Socket
      BY <1>2 DEF CInv, ChatTypeOK
    <2> QED BY <2>1 DEF Socket
  <1>5. event' = [event EXCEPT ![w] = e] /\ sock' = [sock EXCEPT ![c] = s]
    BY <1>1
  <1> HIDE DEF e, s
  <1>6. event' \in [Workers -> Event] /\ SameEvents
    BY <1>3, <1>5, EventStep DEF ChatSends, InPoolEvent
  <1>7. sock' \in [Clients -> Socket] /\ SameReads
    BY <1>2, <1>4, <1>5, SocketStep
  <1>8. ChatTypeOK'
    BY <1>6, <1>7 DEF CInv, ChatTypeOK, ChatSends
  <1> QED BY <1>6, <1>7, <1>8, QuietKeeps DEF Quiet, ChatSends

\* pool::chat_all releases the lock and the receiver goes on (pool.cpp:42-48).
LEMMA ChatUnlocksKeeps ==
    ASSUME CInv, NEW w \in Workers, ChatUnlocks(w)
    PROVE  CInv'
  <1> DEFINE e == [event[w] EXCEPT !.at = "receive"]
  <1>1. e \in Event /\ e.at = "receive" /\ e.from = event[w].from
    <2>1. event[w] \in Event
      BY DEF CInv, ChatTypeOK
    <2> QED BY <2>1 DEF Event
  <1>2. event' = [event EXCEPT ![w] = e]
    BY DEF ChatUnlocks
  <1> HIDE DEF e
  <1>3. event' \in [Workers -> Event] /\ SameEvents
    BY <1>1, <1>2, EventStep DEF ChatUnlocks, InPoolEvent
  <1>4. ChatTypeOK'
    BY <1>3 DEF CInv, ChatTypeOK, ChatUnlocks
  <1> QED BY <1>3, <1>4, QuietKeeps DEF Quiet, ChatUnlocks, SameReads

\* The steps of main() that only lock, unlock and wait (pool.cpp:28-40).
LEMMA MainKeeps ==
    ASSUME CInv, Interrupted \/ LeaveLocks \/ LeaveUnlocks \/ WaitEnds
    PROVE  CInv'
  <1>1. ChatTypeOK'
    BY DEF CInv, ChatTypeOK, Interrupted, LeaveLocks, LeaveUnlocks, WaitEnds
  <1> QED BY <1>1, QuietKeeps DEF Quiet, SameReads, SameEvents, Interrupted, LeaveLocks,
                                   LeaveUnlocks, WaitEnds

\* leave_all closes one more client, gracefully or not (pool.cpp:30-33).
LEMMA LeaveClosesKeeps ==
    ASSUME CInv, LeaveCloses
    PROVE  CInv'
  <1>1. PICK c \in main.todo, r \in Workers :
            /\ main' = [main EXCEPT !.todo = @ \ {c}]
            /\ sock' = [sock EXCEPT ![c].graceful = @ \/ sock[c].unsent,
                                    ![c].asked = IF sock[c].unsent THEN @ ELSE @ \cup {r}]
    BY DEF LeaveCloses
  <1>2. c \in Clients
    BY DEF CInv, ChatTypeOK
  <1> DEFINE s == [sock[c] EXCEPT !.graceful = sock[c].graceful \/ sock[c].unsent,
                                  !.asked = IF sock[c].unsent THEN sock[c].asked
                                            ELSE sock[c].asked \cup {r}]
  <1>3. s \in Socket /\ s.read = sock[c].read /\ s.ring = sock[c].ring
    <2>1. sock[c] \in Socket
      BY <1>2 DEF CInv, ChatTypeOK
    <2> QED BY <2>1 DEF Socket
  <1>4. sock' = [sock EXCEPT ![c] = s]
    BY <1>1
  <1> HIDE DEF s
  <1>5. sock' \in [Clients -> Socket] /\ SameReads
    BY <1>2, <1>3, <1>4, SocketStep
  <1>6. ChatTypeOK'
    BY <1>1, <1>5 DEF CInv, ChatTypeOK, LeaveCloses
  <1> QED BY <1>5, <1>6, QuietKeeps DEF Quiet, LeaveCloses, SameEvents
-----------------------------------------------------------------------------
(* The steps of the server in which the program has no part.               *)

\* A connection is one the server has not seen before.
LEMMA ConnectsKeeps ==
    ASSUME CInv, NEW c \in Clients, Connects(c), UNCHANGED chatvars
    PROVE  CInv'
  <1>0. IInv'
    BY ConnectsPreserves DEF CInv
  <1>1. ChatTypeOK'
    BY DEF CInv, ChatTypeOK, chatvars
  <1>2. PICK h \in Workers : AllAt(h)
    BY DEF CInv
  <1>3. AllAt(h)'
    BY <1>2 DEF AllAt, Handling, Connects, chatvars
  <1>4. client \in [Clients -> {"away", "queued", "accepted", "active", "reset"}]
        /\ listener.backlog \in Seq(Clients)
    BY DEF CInv, IInv, Types, TypeOK
  <1>5. Stages'
    <2> DEFINE b == listener.backlog
    <2>1. /\ client' = [client EXCEPT ![c] = "queued"] /\ client[c] = "away"
          /\ listener'.backlog = Append(b, c)
      BY DEF Connects, CInv, IInv, Types, TypeOK
    <2>2. Queued'
      <3>1. \A i \in DOMAIN b : client[b[i]] = "queued" /\ b[i] \in Clients
        BY <1>4 DEF CInv, Stages, Queued
      <3>2. DOMAIN Append(b, c) = 1..(Len(b) + 1) /\ DOMAIN b = 1..Len(b) /\ Len(b) \in Nat
        BY <1>4
      <3>3. \A i \in 1..(Len(b) + 1) : Append(b, c)[i] = IF i \in DOMAIN b THEN b[i] ELSE c
        BY <1>4, <3>2
      <3>4. \A i \in DOMAIN b : b[i] # c
        BY <3>1, <2>1
      <3>5. \A i, j \in DOMAIN b : b[i] = b[j] => i = j
        BY DEF CInv, Stages, Queued
      <3> HIDE DEF b
      <3> QED BY <1>4, <2>1, <3>1, <3>2, <3>3, <3>4, <3>5 DEF Queued
    <2>3. Accepted'
      BY <1>4, <2>1 DEF CInv, Stages, Accepted, Connects
    <2>4. Reading'
      BY <1>4, <2>1 DEF CInv, Stages, Reading, Connects, chatvars
    <2>5. ASSUME NEW w \in Workers PROVE Activating(w)' /\ Active(w)'
      BY <1>4, <2>1 DEF CInv, Stages, Activating, Active, Handling, Connects, chatvars
    <2> QED BY <2>2, <2>3, <2>4, <2>5 DEF Stages
  <1>6. InPool'
    BY DEF CInv, InPool, Connects, chatvars
  <1> QED BY <1>0, <1>1, <1>3, <1>5, <1>6 DEF CInv

\* The kernel hands the first of the backlog to the pending accept.
LEMMA KernelAcceptsKeeps ==
    ASSUME CInv, KernelAccepts, UNCHANGED chatvars
    PROVE  CInv'
  <1>0. IInv'
    BY KernelAcceptsPreserves DEF CInv
  <1>1. ChatTypeOK'
    BY DEF CInv, ChatTypeOK, chatvars
  <1>2. PICK h \in Workers : AllAt(h)
    BY DEF CInv
  <1> DEFINE b == listener.backlog
             c == Head(b)
  <1>3. /\ client \in [Clients -> {"away", "queued", "accepted", "active", "reset"}]
        /\ b \in Seq(Clients) /\ b # <<>>
    BY DEF CInv, IInv, Types, TypeOK, KernelAccepts
  <1>4. /\ c \in Clients /\ c = b[1]
        /\ Len(b) \in Nat \ {0} /\ DOMAIN b = 1..Len(b)
    BY <1>3
  <1>5. /\ accept.st = "pending" /\ accept'.st = "done"
        /\ accept'.ring = accept.ring /\ accept'.got = c
        /\ listener'.backlog = Tail(b)
        /\ client' = [client EXCEPT ![c] = "accepted"]
        /\ UNCHANGED worker
    BY DEF KernelAccepts, CInv, IInv, Types, TypeOK
  <1>6. AllAt(h)'
    BY <1>2, <1>5 DEF AllAt, Handling, chatvars
  <1>7. \A i, j \in 1..Len(b) : client[b[i]] = "queued" /\ (b[i] = b[j] => i = j)
    BY <1>4 DEF CInv, Stages, Queued
  <1>8. client[c] = "queued"
    BY <1>4, <1>7
  <1>9. DOMAIN Tail(b) = 1..(Len(b) - 1) /\ \A i \in 1..(Len(b) - 1) : Tail(b)[i] = b[i + 1]
    BY <1>3, HeadTailProperties
  <1> HIDE DEF b, c
  <1>10. Stages'
    <2>1. Queued'
      <3>1. \A i \in 1..(Len(b) - 1) : i + 1 \in 1..Len(b) /\ i + 1 # 1 /\ 1 \in 1..Len(b)
        BY <1>4
      <3>2. \A i \in 1..(Len(b) - 1) : client[b[i + 1]] = "queued" /\ b[i + 1] # c
        BY <1>4, <1>7, <3>1
      <3>3. \A i, j \in 1..(Len(b) - 1) : b[i + 1] = b[j + 1] => i = j
        BY <1>4, <1>7, <3>1
      <3>4. \A i \in 1..(Len(b) - 1) : b[i + 1] \in Clients
        BY <1>3, <1>4, <3>1
      <3>5. \A i \in DOMAIN Tail(b) : client'[Tail(b)[i]] = "queued"
        BY <1>3, <1>5, <1>9, <3>2, <3>4
      <3>6. \A i, j \in DOMAIN Tail(b) : Tail(b)[i] = Tail(b)[j] => i = j
        BY <1>9, <3>3
      <3> QED BY <1>5, <3>5, <3>6 DEF Queued
    <2>2. Accepted'
      BY <1>3, <1>4, <1>5 DEF Accepted
    <2>3. Reading'
      BY <1>3, <1>5, <1>8 DEF CInv, Stages, Reading, chatvars
    <2>4. ASSUME NEW w \in Workers PROVE Activating(w)' /\ Active(w)'
      BY <1>3, <1>5, <1>8 DEF CInv, Stages, Activating, Active, Handling, chatvars
    <2> QED BY <2>1, <2>2, <2>3, <2>4 DEF Stages
  <1>11. InPool'
    BY <1>5 DEF CInv, InPool, chatvars
  <1> QED BY <1>0, <1>1, <1>6, <1>10, <1>11 DEF CInv

\* Steps that begin no handler of an accept: requests move, stop() is carried out.
LEMMA RequestsKeep ==
    ASSUME CInv, UNCHANGED <<clients, sock, event>>, IInv', ChatTypeOK', Queued',
           \A c \in Clients : client[c] \in {"accepted", "active"} => client'[c] = client[c],
           \A w \in Workers : Handling(w)' => worker'[w] = worker[w],
           accept'.st # "none" => accept.st # "none" /\ accept'.ring = accept.ring,
           accept'.got # NoClient => accept'.got = accept.got
    PROVE  CInv'
  <1>0. \A w \in Workers : Handling(w)' => Handling(w)
    BY DEF Handling
  <1>1. PICK h \in Workers : AllAt(h)
    BY DEF CInv
  <1>2. AllAt(h)'
    BY <1>0, <1>1 DEF AllAt
  <1>3. accept.got \in Clients \cup {NoClient}
    BY DEF CInv, IInv, Types, TypeOK
  <1>4. Stages'
    <2>1. Reading'
      BY DEF CInv, Stages, Reading
    <2>2. Accepted'
      BY <1>3 DEF CInv, Stages, Accepted
    <2>3. ASSUME NEW w \in Workers PROVE Activating(w)' /\ Active(w)'
      BY <1>0, TcpServerAssumption DEF CInv, Stages, Activating, Active
    <2> QED BY <2>1, <2>2, <2>3 DEF Stages
  <1>5. InPool'
    BY DEF CInv, InPool, Handling
  <1> QED BY <1>2, <1>4, <1>5 DEF CInv

\* The other steps of the kernel at the listening socket.
LEMMA KernelKeeps ==
    ASSUME CInv, Kernel \/ KernelFails, UNCHANGED chatvars
    PROVE  CInv'
  <1>1. ChatTypeOK'
    BY DEF CInv, ChatTypeOK, chatvars
  <1>2. CASE KernelAccepts
    BY <1>2, KernelAcceptsKeeps
  <1>3. CASE KernelRefuses
    <2>1. IInv'
      BY <1>3, KernelRefusesPreserves DEF CInv
    <2>2. accept \in [st : {"none", "pending", "done"}, ring : Workers \cup {NoWorker},
                      fd : {ServerFd, Stdin}, got : Clients \cup {NoClient}]
      BY DEF CInv, IInv, Types, TypeOK
    <2> QED BY <1>1, <1>3, <2>1, <2>2, RequestsKeep DEF KernelRefuses, Queued, CInv, Stages, chatvars
  <1>4. CASE KernelFails
    <2>1. IInv'
      BY <1>4, KernelFailsPreserves DEF CInv
    <2>2. accept \in [st : {"none", "pending", "done"}, ring : Workers \cup {NoWorker},
                      fd : {ServerFd, Stdin}, got : Clients \cup {NoClient}]
      BY DEF CInv, IInv, Types, TypeOK
    <2> QED BY <1>1, <1>4, <2>1, <2>2, RequestsKeep DEF KernelFails, Queued, CInv, Stages, chatvars
  <1>5. CASE \E i \in DOMAIN shutdowns : KernelShutsDown(i)
    <2>1. PICK i \in DOMAIN shutdowns : KernelShutsDown(i)
      BY <1>5
    <2>2. IInv'
      BY <2>1, KernelShutsDownPreserves DEF CInv
    <2>3. listener'.backlog = listener.backlog
      BY <2>1 DEF KernelShutsDown, CInv, IInv, Types, TypeOK
    <2> QED BY <1>1, <2>1, <2>2, <2>3, RequestsKeep DEF KernelShutsDown, Queued, CInv, Stages,
           chatvars
  <1> QED BY <1>2, <1>3, <1>4, <1>5 DEF Kernel

\* A failed accept is dropped: no connection is involved (io_service.cpp:416-422).
LEMMA DropsKeeps ==
    ASSUME CInv, NEW w \in Workers, Drops(w), UNCHANGED chatvars
    PROVE  CInv'
  <1>0. IInv'
    BY DropsPreserves DEF CInv
  <1>1. ChatTypeOK'
    BY DEF CInv, ChatTypeOK, chatvars
  <1> QED BY <1>0, <1>1, RequestsKeep DEF Drops, NoAccept, Queued, CInv, Stages, chatvars

\* main() stops the server (main.cpp:71).
LEMMA ServerStopsKeeps ==
    ASSUME CInv, ServerStops
    PROVE  CInv'
  <1>0. IInv'
    BY StopsPreserves DEF CInv, ServerStops
  <1>1. ChatTypeOK'
    BY DEF CInv, ChatTypeOK, ServerStops
  <1> QED BY <1>0, <1>1, RequestsKeep DEF ServerStops, Stops, Queued, CInv, Stages
WorkerType == [at : {"wait", "event", "next", "activate", "zero", "close"},
               peer : Clients \cup {NoClient}, addr : Clients \cup {NoClient},
               fd : {ServerFd, Stdin}]

\* The part of the server's type invariant that the lemmas below use.
LEMMA ServerTypes ==
    ASSUME CInv
    PROVE  /\ worker \in [Workers -> WorkerType]
           /\ client \in [Clients -> {"away", "queued", "accepted", "active", "reset"}]
           /\ accept.got \in Clients \cup {NoClient}
  BY DEF CInv, IInv, Types, TypeOK, WorkerType

\* The handler of the listening socket's shutdown touches no client (io_service.cpp:446-453).
LEMMA TakesShutdownKeeps ==
    ASSUME CInv, NEW w \in Workers, TakesShutdown(w) \/ Zeroes(w) \/ Closes(w),
           UNCHANGED chatvars
    PROVE  CInv'
  <1>0. IInv'
    BY TakesShutdownPreserves, ZeroesPreserves, ClosesPreserves DEF CInv
  <1>1. ChatTypeOK'
    BY DEF CInv, ChatTypeOK, chatvars
  <1>2. UNCHANGED accept /\ ~Handling(w)' /\ \A v \in Workers \ {w} : worker'[v] = worker[v]
    <2>1. CASE TakesShutdown(w)
      BY <2>1, ServerTypes DEF TakesShutdown, Handling, Idle, WorkerType
    <2>2. CASE Zeroes(w)
      BY <2>2, ServerTypes DEF Zeroes, Handling, WorkerType
    <2>3. CASE Closes(w)
      BY <2>3, ServerTypes DEF Closes, Handling, Idle, WorkerType
    <2> QED BY <2>1, <2>2, <2>3
  <1>3. /\ \A c \in Clients : client[c] \in {"accepted", "active"} => client'[c] = client[c]
        /\ Queued'
    BY DEF TakesShutdown, Zeroes, Closes, Queued, CInv, Stages
  <1> QED BY <1>0, <1>1, <1>2, <1>3, RequestsKeep DEF chatvars

-----------------------------------------------------------------------------
(* The handler of an accept.                                               *)

\* io_accepting takes a connection that no other worker has (tcp_server.cpp:164-168).
LEMMA AcceptsKeeps ==
    ASSUME CInv, NEW w \in Workers, event[w].at = "none", Accepts(w), UNCHANGED chatvars
    PROVE  CInv'
  <1>0. IInv'
    BY AcceptsPreserves DEF CInv
  <1>1. ChatTypeOK'
    BY DEF CInv, ChatTypeOK, chatvars
  <1>2. PICK h \in Workers : AllAt(h)
    BY DEF CInv
  <1>3. /\ accept'.st = "none" /\ accept'.got = NoClient
        /\ accept.got \in Clients /\ w = h
        /\ worker'[w].at = "event" /\ worker'[w].peer = accept.got
        /\ \A v \in Workers \ {w} : worker'[v] = worker[v]
        /\ UNCHANGED <<listener, client>>
    BY <1>2, ServerTypes DEF AllAt, Accepts, NoAccept, Idle
  <1>4. AllAt(h)'
    BY <1>2, <1>3 DEF AllAt, Handling, chatvars
  <1>5. Stages'
    <2>1. Queued' /\ Accepted' /\ Reading'
      BY <1>3 DEF CInv, Stages, Queued, Accepted, Reading, chatvars
    <2>2. Activating(w)'
      BY <1>3, TcpServerAssumption DEF CInv, Stages, Accepted, Activating, chatvars
    <2>3. ASSUME NEW v \in Workers \ {w} PROVE Activating(v)'
      BY <1>3, TcpServerAssumption DEF CInv, Stages, Activating, Handling, chatvars
    <2>4. ASSUME NEW v \in Workers PROVE Active(v)'
      BY <1>3 DEF CInv, Stages, Active, chatvars
    <2> QED BY <2>1, <2>2, <2>3, <2>4 DEF Stages
  <1>6. InPool'
    BY <1>3 DEF CInv, InPool, chatvars
  <1> QED BY <1>0, <1>1, <1>4, <1>5, <1>6 DEF CInv

\* The next accept goes to the ring of the worker that submits it, the acceptor's.
LEMMA SubmitsNextKeeps ==
    ASSUME CInv, NEW w \in Workers, SubmitsNext(w), UNCHANGED chatvars
    PROVE  CInv'
  <1>0. IInv'
    BY SubmitsNextPreserves DEF CInv
  <1>1. ChatTypeOK'
    BY DEF CInv, ChatTypeOK, chatvars
  <1>2. PICK h \in Workers : AllAt(h)
    BY DEF CInv
  <1>3. /\ accept'.ring = w /\ accept'.got = NoClient /\ w = h
        /\ worker[w].at = "next" /\ worker'[w].at = "activate"
        /\ worker'[w].peer = worker[w].peer
        /\ \A v \in Workers \ {w} : worker'[v] = worker[v]
        /\ UNCHANGED <<listener, client>>
    BY <1>2, ServerTypes DEF AllAt, SubmitsNext, Handling, WorkerType
  <1>4. AllAt(h)'
    BY <1>2, <1>3 DEF AllAt, Handling, chatvars
  <1>5. Stages'
    <2>1. Queued' /\ Accepted' /\ Reading'
      BY <1>3 DEF CInv, Stages, Queued, Accepted, Reading, chatvars
    <2>2. Activating(w)'
      BY <1>3, TcpServerAssumption DEF CInv, Stages, Activating, Handling, chatvars
    <2>3. ASSUME NEW v \in Workers \ {w} PROVE Activating(v)'
      BY <1>3, TcpServerAssumption DEF CInv, Stages, Activating, Handling, chatvars
    <2>4. ASSUME NEW v \in Workers PROVE Active(v)'
      BY <1>3 DEF CInv, Stages, Active, chatvars
    <2> QED BY <2>1, <2>2, <2>3, <2>4 DEF Stages
  <1>6. InPool'
    BY <1>3 DEF CInv, InPool, chatvars
  <1> QED BY <1>0, <1>1, <1>4, <1>5, <1>6 DEF CInv

\* on_accept adds the client to the pool before its first read (receiver.cpp:11-28).
LEMMA OnAcceptKeeps ==
    ASSUME CInv, NEW w \in Workers, OnAccept(w)
    PROVE  CInv'
  <1>0. IInv'
    BY ReportsPreserves DEF CInv, OnAccept
  <1>1. PICK h \in Workers : AllAt(h)
    BY DEF CInv
  <1>2. /\ worker[w].at = "event" /\ worker'[w].at = "next"
        /\ worker'[w].peer = worker[w].peer
        /\ \A v \in Workers \ {w} : worker'[v] = worker[v]
        /\ clients' = clients \cup {worker[w].peer}
        /\ UNCHANGED <<listener, accept, client, pool, sock, stream, buffer, event, main,
                       case, hist>>
    BY ServerTypes DEF OnAccept, Reports, WorkerType
  <1>3. w = h /\ worker[w].peer \in Clients
    BY <1>1, <1>2 DEF AllAt, Handling, CInv, Stages, Activating
  <1>4. ChatTypeOK'
    BY <1>2, <1>3 DEF CInv, ChatTypeOK
  <1>5. AllAt(h)'
    BY <1>1, <1>2, <1>3 DEF AllAt, Handling
  <1>6. Stages'
    <2>1. Queued' /\ Accepted' /\ Reading'
      BY <1>2 DEF CInv, Stages, Queued, Accepted, Reading
    <2>2. ASSUME NEW v \in Workers PROVE Activating(v)' /\ Active(v)'
      BY <1>2 DEF CInv, Stages, Activating, Active, Handling
    <2> QED BY <2>1, <2>2 DEF Stages
  <1>7. InPool'
    BY <1>2 DEF CInv, InPool
  <1> QED BY <1>0, <1>4, <1>5, <1>6, <1>7 DEF CInv

\* on_active submits the first read on the ring of the acceptor (tcp_socket.cpp:260-279).
LEMMA OnActiveKeeps ==
    ASSUME CInv, NEW w \in Workers, OnActive(w)
    PROVE  CInv'
  <1> DEFINE c == worker[w].peer
             s == [sock[c] EXCEPT !.connected = TRUE, !.read = Reread(sock[c]), !.ring = w]
  <1>0. IInv'
    BY ActivatesPreserves DEF CInv, OnActive
  <1>1. PICK h \in Workers : AllAt(h)
    BY DEF CInv
  <1>2. worker[w].at = "activate" /\ w = h /\ c \in Clients /\ c \in clients
        /\ client[c] = "accepted" /\ accept.got # c
    BY <1>1 DEF OnActive, Activates, AllAt, Handling, CInv, Stages, Activating, InPool
  <1>3. /\ client' = [client EXCEPT ![c] = "active"]
        /\ ~Handling(w)' /\ worker'[w].at = "wait"
        /\ \A v \in Workers \ {w} : worker'[v] = worker[v]
        /\ sock' = [sock EXCEPT ![c] = s]
        /\ UNCHANGED <<listener, accept, clients, pool, stream, buffer, event, main, case,
                       hist>>
    BY ServerTypes DEF OnActive, Activates, Idle, Handling, WorkerType
  <1>4. s \in Socket /\ s.ring = w
    <2>1. sock[c] \in Socket
      BY <1>2 DEF CInv, ChatTypeOK
    <2> QED BY <2>1 DEF Socket, Reread
  <1> HIDE DEF c, s
  <1>5. sock \in [Clients -> Socket]
    BY DEF CInv, ChatTypeOK
  <1>6. \A d \in Clients : d # c => sock'[d] = sock[d] /\ client'[d] = client[d]
    BY <1>3, <1>5, ServerTypes
  <1>7. sock'[c] = s /\ client'[c] = "active"
    BY <1>2, <1>3, <1>5, ServerTypes
  <1>8. ChatTypeOK'
    <2>1. sock' \in [Clients -> Socket]
      BY <1>3, <1>4, <1>5
    <2> QED BY <1>3, <2>1 DEF CInv, ChatTypeOK
  <1>9. AllAt(h)'
    BY <1>1, <1>2, <1>3, <1>4, <1>6, <1>7 DEF AllAt, Handling
  <1>10. Stages'
    <2>1. Queued'
      <3>1. \A i \in DOMAIN listener.backlog : listener.backlog[i] \in Clients
        BY DEF CInv, IInv, Types, TypeOK
      <3>2. \A i \in DOMAIN listener.backlog : listener.backlog[i] # c
        BY <1>2 DEF CInv, Stages, Queued
      <3> QED BY <1>3, <1>6, <3>1, <3>2 DEF CInv, Stages, Queued
    <2>2. Accepted'
      BY <1>2, <1>3, <1>6, ServerTypes DEF CInv, Stages, Accepted
    <2>3. Reading'
      BY <1>6, <1>7 DEF CInv, Stages, Reading
    <2>4. ASSUME NEW v \in Workers PROVE Activating(v)'
      <3>1. ~Handling(v)'
        BY <1>1, <1>2, <1>3 DEF AllAt, Handling
      <3> QED BY <3>1 DEF Activating
    <2>5. ASSUME NEW v \in Workers PROVE Active(v)'
      <3>1. event[v].at # "none" => event[v].from # c
        BY <1>2 DEF CInv, Stages, Active
      <3> QED BY <1>3, <1>6, <3>1 DEF CInv, Stages, Active
    <2> QED BY <2>1, <2>2, <2>3, <2>4, <2>5 DEF Stages
  <1>11. InPool'
    BY <1>2, <1>3, <1>6 DEF CInv, InPool
  <1> QED BY <1>0, <1>8, <1>9, <1>10, <1>11 DEF CInv
-----------------------------------------------------------------------------
(* The read of a socket, and the events it leads to.                       *)

\* A completed read is one of a client of the pool, at the acceptor, when nothing else is handled.
LEMMA ReadIsHere ==
    ASSUME CInv, NEW w \in Workers, NEW c \in Clients, Free(w),
           sock[c].read = "done", sock[c].ring = w
    PROVE  /\ AllAt(w) /\ client[c] = "active" /\ c \in clients
           /\ \A v \in Workers : event[v].at = "none"
           /\ \A v \in Workers : ~Handling(v)
  <1>1. PICK h \in Workers : AllAt(h)
    BY DEF CInv
  <1>2. h = w
    BY <1>1 DEF AllAt
  <1>3. \A v \in Workers : event[v].at = "none" /\ ~Handling(v)
    BY <1>1, <1>2 DEF AllAt, Free, Handling
  <1> QED BY <1>1, <1>2, <1>3 DEF CInv, Stages, Reading, InPool

\* An event begins at the worker that has the read.
LEMMA EventBegins ==
    ASSUME CInv, NEW w \in Workers, NEW c \in Clients, Free(w),
           sock[c].read = "done", sock[c].ring = w,
           NEW s \in Socket, s.ring = w, sock' = [sock EXCEPT ![c] = s],
           NEW e \in Event, e.from = c, e.at = "close" => s.read = "none",
           event' = [event EXCEPT ![w] = e],
           buffer' \in [Clients -> Seq(Byte)],
           UNCHANGED <<vars, clients, pool, stream, main, case, hist>>
    PROVE  CInv'
  <1>0. IInv'
    BY StutterPreserves DEF CInv
  <1>1. /\ AllAt(w) /\ client[c] = "active" /\ c \in clients
        /\ \A v \in Workers : event[v].at = "none"
        /\ \A v \in Workers : ~Handling(v)
    BY ReadIsHere
  <1>2. sock \in [Clients -> Socket] /\ event \in [Workers -> Event]
    BY DEF CInv, ChatTypeOK
  <1>3. /\ sock'[c] = s /\ \A d \in Clients : d # c => sock'[d] = sock[d]
        /\ event'[w] = e /\ \A v \in Workers : v # w => event'[v] = event[v]
    BY <1>2
  <1>4. UNCHANGED <<accept, worker, client, listener>>
    BY DEF vars
  <1>5. ChatTypeOK'
    <2>1. sock' \in [Clients -> Socket] /\ event' \in [Workers -> Event]
      BY <1>2
    <2> QED BY <2>1 DEF CInv, ChatTypeOK
  <1>6. AllAt(w)'
    BY <1>1, <1>3, <1>4 DEF AllAt, Handling
  <1>7. Stages'
    <2>1. Queued' /\ Accepted' /\ Reading'
      BY <1>1, <1>3, <1>4 DEF CInv, Stages, Queued, Accepted, Reading
    <2>2. ASSUME NEW v \in Workers PROVE Activating(v)' /\ Active(v)'
      BY <1>1, <1>3, <1>4 DEF Activating, Active, Handling
    <2> QED BY <2>1, <2>2 DEF Stages
  <1>8. InPool'
    BY <1>1, <1>3, <1>4 DEF CInv, InPool
  <1> QED BY <1>0, <1>5, <1>6, <1>7, <1>8 DEF CInv

\* io_received starts on_receive on the acceptor (socket_object.cpp:86-94).
LEMMA TakesDataKeeps ==
    ASSUME CInv, NEW w \in Workers, NEW c \in Clients, TakesData(w, c)
    PROVE  CInv'
  <1> DEFINE s == [sock[c] EXCEPT !.read = Reread(sock[c]), !.got = <<>>]
             e == [NoEvent EXCEPT !.at = "receive", !.from = c]
  <1>0. <<>> \in Seq(Byte)
    OBVIOUS
  <1>1. sock[c] \in Socket /\ buffer[c] \in Seq(Byte)
    BY DEF CInv, ChatTypeOK
  <1>2. s \in Socket /\ s.ring = w
    BY <1>0, <1>1 DEF Socket, Reread, TakesData
  <1>3. e \in Event /\ e.from = c /\ e.at # "close"
    BY <1>0 DEF Event, NoEvent
  <1>4. buffer[c] \o sock[c].got \in Seq(Byte)
    BY <1>1, ConcatProperties DEF Socket
  <1>5. buffer' \in [Clients -> Seq(Byte)]
    BY <1>4 DEF CInv, ChatTypeOK, TakesData
  <1>6. sock' = [sock EXCEPT ![c] = s] /\ event' = [event EXCEPT ![w] = e]
    BY DEF TakesData
  <1>7. /\ Free(w) /\ sock[c].read = "done" /\ sock[c].ring = w
        /\ UNCHANGED <<vars, clients, pool, stream, main, case, hist>>
    BY DEF TakesData
  <1> HIDE DEF s, e
  <1> QED BY <1>2, <1>3, <1>5, <1>6, <1>7, EventBegins

\* A read of nothing starts on_close on the acceptor (socket_object.cpp:113-129).
LEMMA TakesEndKeeps ==
    ASSUME CInv, NEW w \in Workers, NEW c \in Clients, TakesEnd(w, c)
    PROVE  CInv'
  <1> DEFINE s == [sock[c] EXCEPT !.read = "none", !.connected = FALSE]
             e == [NoEvent EXCEPT !.at = "close", !.from = c]
  <1>0. <<>> \in Seq(Byte)
    OBVIOUS
  <1>1. sock[c] \in Socket
    BY DEF CInv, ChatTypeOK
  <1>2. s \in Socket /\ s.ring = w /\ s.read = "none"
    BY <1>1 DEF Socket, TakesEnd
  <1>3. e \in Event /\ e.from = c
    BY <1>0 DEF Event, NoEvent
  <1>4. buffer' \in [Clients -> Seq(Byte)]
    BY DEF CInv, ChatTypeOK, TakesEnd
  <1>5. sock' = [sock EXCEPT ![c] = s] /\ event' = [event EXCEPT ![w] = e]
    BY DEF TakesEnd
  <1>6. /\ Free(w) /\ sock[c].read = "done" /\ sock[c].ring = w
        /\ UNCHANGED <<vars, clients, pool, stream, main, case, hist>>
    BY DEF TakesEnd
  <1> HIDE DEF s, e
  <1> QED BY <1>2, <1>3, <1>4, <1>5, <1>6, EventBegins

\* on_close removes the client from the pool and submits no read (receiver.cpp:60-64).
LEMMA OnCloseKeeps ==
    ASSUME CInv, NEW w \in Workers, OnClose(w)
    PROVE  CInv'
  <1> DEFINE c == event[w].from
  <1>0. IInv'
    BY StutterPreserves DEF CInv, OnClose
  <1>1. PICK h \in Workers : AllAt(h)
    BY DEF CInv
  <1>2. /\ w = h /\ event[w].at = "close" /\ c \in Clients
        /\ client[c] = "active" /\ sock[c].read = "none"
    BY <1>1 DEF OnClose, AllAt, CInv, Stages, Active
  <1>3. \A v \in Workers : ~Handling(v)
    BY <1>1, <1>2 DEF AllAt, CInv, Stages, Activating
  <1>4. /\ event'[w].at = "none" /\ \A v \in Workers : v # w => event'[v] = event[v]
        /\ event' \in [Workers -> Event]
    BY DEF OnClose, CInv, ChatTypeOK, NoEvent, Event
  <1>5. \A v \in Workers : event'[v].at = "none"
    BY <1>1, <1>2, <1>4 DEF AllAt
  <1>6. clients' = clients \ {c} /\ UNCHANGED <<accept, worker, client, listener, sock>>
    BY DEF OnClose, vars
  <1> HIDE DEF c
  <1>7. ChatTypeOK'
    BY <1>4, <1>6 DEF CInv, ChatTypeOK, OnClose
  <1>8. AllAt(h)'
    BY <1>1, <1>5, <1>6 DEF AllAt, Handling
  <1>9. Stages'
    <2>1. Queued' /\ Accepted' /\ Reading'
      BY <1>6 DEF CInv, Stages, Queued, Accepted, Reading
    <2>2. ASSUME NEW v \in Workers PROVE Activating(v)' /\ Active(v)'
      BY <1>3, <1>5, <1>6 DEF Activating, Active, Handling
    <2> QED BY <2>1, <2>2 DEF Stages
  <1>10. InPool'
    BY <1>2, <1>3, <1>5, <1>6 DEF CInv, InPool, Handling
  <1> QED BY <1>0, <1>7, <1>8, <1>9, <1>10 DEF CInv

-----------------------------------------------------------------------------
(* All steps, and what follows.                                            *)

\* Every step of the server's own handlers keeps the invariant.
LEMMA ServesKeeps ==
    ASSUME CInv, NEW w \in Workers, Serves(w)
    PROVE  CInv'
  BY OnAcceptKeeps, OnActiveKeeps, AcceptsKeeps, DropsKeeps, SubmitsNextKeeps,
     TakesShutdownKeeps DEF Serves

\* Every step of the clients' events keeps the invariant.
LEMMA EventsKeep ==
    ASSUME CInv, NEW w \in Workers, Events(w)
    PROVE  CInv'
  BY TakesDataKeeps, TakesEndKeeps, TakesShutKeeps, BreaksKeeps, OverrunsKeeps,
     RefusesKeeps, SkipsKeeps, ChatsKeeps, RepeatsKeeps, ChatLocksKeeps, ChatSendsKeeps, ChatUnlocksKeeps,
     OnCloseKeeps DEF Events

\* Every step of the composition keeps the inductive invariant.
LEMMA ChatNextKeeps ==
    ASSUME CInv, ChatNext
    PROVE  CInv'
  <1>1. CASE \E c \in Clients : \/ c \in case.who /\ Connects(c) /\ UNCHANGED chatvars
                                \/ Says(c) \/ Leaves(c)
                                \/ KernelReads(c) \/ KernelShuts(c)
                                \/ \E w \in Workers : Drains(w, c)
    BY <1>1, ConnectsKeeps, SaysKeeps, LeavesKeeps, KernelReadsKeeps, KernelShutsKeeps,
       DrainsKeeps
  <1>2. CASE (Kernel \/ (case.fails /\ KernelFails)) /\ UNCHANGED chatvars
    BY <1>2, KernelKeeps
  <1>3. CASE \E w \in Workers : Serves(w) \/ Events(w)
    BY <1>3, ServesKeeps, EventsKeep
  <1>4. CASE Interrupted \/ MainSteps
    BY <1>4, MainKeeps, LeaveClosesKeeps, ServerStopsKeeps DEF MainSteps
  <1> QED BY <1>1, <1>2, <1>3, <1>4 DEF ChatNext

\* A stuttering step keeps the inductive invariant.
LEMMA ChatStutterKeeps == CInv /\ UNCHANGED allvars => CInv'
  <1> SUFFICES ASSUME CInv, UNCHANGED allvars PROVE CInv'
      OBVIOUS
  <1>1. ChatTypeOK' /\ SameReads /\ SameEvents
    BY DEF CInv, ChatTypeOK, SameReads, SameEvents, allvars, chatvars
  <1> QED BY <1>1, QuietKeeps DEF Quiet, allvars, chatvars

\* The inductive invariant of the chat server: io_accepting, on_active, the receive and
\* close events of its sockets, the pool, and the way main() ends.
THEOREM ChatInvariance == ChatSpec => []CInv
  <1>1. CInv /\ [ChatNext]_allvars => CInv'
    BY ChatNextKeeps, ChatStutterKeeps
  <1> QED BY ChatInitEstablishes, <1>1, PTL DEF ChatSpec

\* The chat server uses tcp_server as TcpServer.tla describes it: what is proved of the
\* server holds in this program.
THEOREM UsesTcpServer == ChatSpec => Spec
  <1>1. ChatInit => Init
    BY DEF ChatInit
  <1>2. [ChatNext]_allvars => [Next]_vars
    <2> SUFFICES ASSUME [ChatNext]_allvars PROVE [Next]_vars
        OBVIOUS
    <2>1. CASE \E c \in Clients : \/ c \in case.who /\ Connects(c) /\ UNCHANGED chatvars
                                  \/ Says(c) \/ Leaves(c)
                                  \/ KernelReads(c) \/ KernelShuts(c)
                                  \/ \E w \in Workers : Drains(w, c)
      BY <2>1 DEF Next, Says, Leaves, KernelReads, KernelShuts, Drains
    <2>2. CASE (Kernel \/ (case.fails /\ KernelFails)) /\ UNCHANGED chatvars
      BY <2>2 DEF Next
    <2>3. CASE \E w \in Workers : Serves(w)
      BY <2>3 DEF Serves, OnAccept, OnActive, Next, Works
    <2>4. CASE \E w \in Workers : Events(w)
      BY <2>4 DEF Events, TakesData, TakesEnd, TakesShut, Breaks, Overruns, Refuses, Skips,
                  Chats, Repeats, ChatLocks, ChatSends, ChatUnlocks, OnClose
    <2>5. CASE Interrupted \/ MainSteps
      BY <2>5 DEF Interrupted, MainSteps, LeaveLocks, LeaveCloses, LeaveUnlocks, WaitEnds,
                  ServerStops, Next
    <2>6. CASE UNCHANGED allvars
      BY <2>6 DEF allvars
    <2> QED BY <2>1, <2>2, <2>3, <2>4, <2>5, <2>6 DEF ChatNext
  <1> QED BY <1>1, <1>2, PTL DEF ChatSpec, Spec

\* All variables of the program keep their types.
THEOREM ChatTypeCorrect == ChatSpec => [](TypeOK /\ ChatTypeOK)
  <1>1. CInv => TypeOK /\ ChatTypeOK
    BY DEF CInv, IInv, Types
  <1> QED BY <1>1, ChatInvariance, PTL

\* on_receive never runs for a client that is not in the pool, or no longer.
THEOREM ReceivesFromPool == ChatSpec => []EventsInPool
  <1>1. CInv => EventsInPool
    BY DEF CInv, InPool, EventsInPool, InReceive
  <1> QED BY <1>1, ChatInvariance, PTL

\* The accept, receive and close events of the server all come on the worker that has
\* its accept requests, one at a time.
THEOREM OneEventAtATime == ChatSpec => []EventsSerial
  <1>1. CInv => EventsSerial
    <2> SUFFICES ASSUME CInv PROVE EventsSerial
        OBVIOUS
    <2> DEFINE E == {w \in Workers : InEvent(w)}
    <2>1. PICK h \in Workers : AllAt(h)
      BY DEF CInv
    <2>2. \A w \in E : w = h
      BY <2>1 DEF AllAt, InEvent, Handling
    <2>3. E = {} \/ E = {h}
      BY <2>2
    <2>4. CASE E = {}
      BY <2>4, FS_EmptySet DEF EventsSerial
    <2>5. CASE E = {h}
      BY <2>5, FS_Singleton DEF EventsSerial
    <2> QED BY <2>3, <2>4, <2>5
  <1> QED BY <1>1, ChatInvariance, PTL

\* In this program too, a socket is told the address of its own peer, the server goes on
\* accepting until it is stopped, and stopping it closes its own descriptor, once.
THEOREM ServerKeepsItsPromises ==
    ChatSpec => [](RemoteIsPeer /\ AcceptAlive /\ StopClosesOnce)
  BY UsesTcpServer, RemoteInfoRight, AcceptGoesOn, OneStopClosesOnce, PTL

-----------------------------------------------------------------------------
(* Frames on their way.                                                    *)

\* The header of a frame that has no text.
Textless == {<<"chat", 0>>, <<"bad", 0>>, <<"nil", 0>>}

\* on_receive gives the text to client::chat (receiver.cpp:45, 54).
HasText(b) == Kind(b) = "chat" /\ b[1][2] > 0

\* Of the bytes S the next frame takes those after a, up to b: one without a text, or
\* one with the text that follows the first m of texts, k in all.
FrameAt(S, a, b, m, k, texts) ==
    /\ b <= Len(S)
    /\ \/ k = m /\ b = a + 1 /\ S[a + 1] \in Textless
       \/ /\ k = m + 1 /\ k <= Len(texts) /\ b = a + 1 + Len(texts[k])
          /\ Len(texts[k]) > 0
          /\ S[a + 1] = <<"chat", Len(texts[k])>>
          /\ \A i \in 1..Len(texts[k]) : S[a + 1 + i] = texts[k][i]

\* S consists of n frames: at[j] bytes and cnt[j] of the texts are in the first j of them.
Sent(S, n, at, cnt, texts) ==
    /\ S \in Seq(Byte) /\ n \in Nat /\ at \in [0..n -> Nat] /\ cnt \in [0..n -> Nat]
    /\ at[n] = Len(S) /\ cnt[n] = Len(texts)
    /\ \A j \in 0..(n - 1) : FrameAt(S, at[j], at[j + 1], cnt[j], cnt[j + 1], texts)

\* U is what was sent after the first j frames, with count of the texts in those: up to
\* the end if nothing was lost.
FollowsAt(U, whole, texts, count, S, n, at, cnt, j) ==
    /\ Sent(S, n, at, cnt, texts)
    /\ j \in 0..n /\ cnt[j] = count
    /\ at[j] + Len(U) <= Len(S)
    /\ whole => at[j] + Len(U) = Len(S)
    /\ \A i \in 1..Len(U) : U[i] = S[at[j] + i]

Framed(U, whole, texts, count) ==
    \E S, n, at, cnt, j : FollowsAt(U, whole, texts, count, S, n, at, cnt, j)

\* A buffer to which bytes are appended (io_buffer.cpp:77-89).
LEMMA Joined ==
    ASSUME NEW s \in Seq(Byte), NEW t \in Seq(Byte)
    PROVE  /\ s \o t \in Seq(Byte) /\ Len(s \o t) = Len(s) + Len(t)
           /\ Len(s) \in Nat /\ Len(t) \in Nat
           /\ \A i \in 1..Len(s) : (s \o t)[i] = s[i]
           /\ \A i \in 1..Len(t) : (s \o t)[Len(s) + i] = t[i]
  <1>1. \A i \in 1..Len(t) : (s \o t)[Len(s) + i] = t[i]
    <2> TAKE i \in 1..Len(t)
    <2>1. Len(s) + i \in 1..(Len(s) + Len(t)) /\ Len(s) + i > Len(s)
          /\ Len(s) + i - Len(s) = i
      OBVIOUS
    <2> QED BY <2>1, ConcatProperties
  <1> QED BY <1>1, ConcatProperties

\* A peer that has sent nothing yet has nothing on its way (chatclient/main.cpp:55).
LEMMA FramedNone == Framed(<<>>, TRUE, <<>>, 0)
  <1> DEFINE at == [j \in 0..0 |-> 0]
  <1>1. <<>> \in Seq(Byte) /\ Len(<<>>) = 0
    OBVIOUS
  <1>2. Sent(<<>>, 0, at, at, <<>>)
    BY <1>1 DEF Sent
  <1>3. 0 \in 0..0 /\ at[0] = 0
    OBVIOUS
  <1> HIDE DEF at
  <1>4. FollowsAt(<<>>, TRUE, <<>>, 0, <<>>, 0, at, at, 0)
    BY <1>1, <1>2, <1>3 DEF FollowsAt
  <1> QED BY <1>4 DEF Framed

\* What a frame is made of (chatclient/main.cpp:62-70, scheme.h:13-22).
LEMMA FrameOf ==
    ASSUME NEW kind \in {"chat", "bad", "nil"}, NEW text \in Seq(Byte)
    PROVE  /\ Frame(kind, text) \in Seq(Byte)
           /\ Len(Frame(kind, text)) = 1 + Len(text)
           /\ Frame(kind, text)[1] = <<kind, Len(text)>>
           /\ \A i \in 1..Len(text) : Frame(kind, text)[1 + i] = text[i]
           /\ text = <<>> => /\ Len(Frame(kind, text)) = 1
                             /\ Frame(kind, text)[1] \in Textless
  <1> DEFINE h == <<<<kind, Len(text)>>>>
  <1>1. h \in Seq(Byte) /\ Len(h) = 1 /\ h[1] = <<kind, Len(text)>>
    BY DEF Byte
  <1>2. Frame(kind, text) = h \o text
    BY DEF Frame
  <1> HIDE DEF h
  <1>3. /\ h \o text \in Seq(Byte) /\ Len(h \o text) = 1 + Len(text)
        /\ \A i \in 1..Len(h) : (h \o text)[i] = h[i]
        /\ \A i \in 1..Len(text) : (h \o text)[Len(h) + i] = text[i]
    <2>1. Len(h \o text) = Len(h) + Len(text)
      BY <1>1, Joined
    <2> QED BY <1>1, <2>1, Joined
  <1>4. 1 \in 1..Len(h)
    BY <1>1
  <1>5. text = <<>> => Len(text) = 0
    OBVIOUS
  <1>6. text = <<>> => <<kind, Len(text)>> \in Textless
    BY <1>5 DEF Textless
  <1> QED BY <1>1, <1>2, <1>3, <1>4, <1>5, <1>6

\* A frame that was sent stays what it is when chatclient sends more.
LEMMA FrameStays ==
    ASSUME NEW S \in Seq(Byte), NEW S2 \in Seq(Byte), Len(S) <= Len(S2),
           \A i \in 1..Len(S) : S2[i] = S[i],
           NEW texts \in Seq(Seq(Byte)), NEW said \in Seq(Seq(Byte)), Len(texts) <= Len(said),
           \A i \in 1..Len(texts) : said[i] = texts[i],
           NEW a \in Nat, NEW b \in Nat, NEW m \in Nat, NEW k \in Nat,
           FrameAt(S, a, b, m, k, texts)
    PROVE  FrameAt(S2, a, b, m, k, said)
  <1>0. b <= Len(S) /\ b <= Len(S2) /\ Len(S) \in Nat /\ Len(texts) \in Nat
    BY DEF FrameAt
  <1>1. CASE k = m /\ b = a + 1 /\ S[a + 1] \in Textless
    <2>1. a + 1 \in 1..Len(S)
      BY <1>0, <1>1
    <2> QED BY <1>0, <1>1, <2>1 DEF FrameAt
  <1>2. CASE /\ k = m + 1 /\ k <= Len(texts) /\ b = a + 1 + Len(texts[k])
             /\ Len(texts[k]) > 0
             /\ S[a + 1] = <<"chat", Len(texts[k])>>
             /\ \A i \in 1..Len(texts[k]) : S[a + 1 + i] = texts[k][i]
    <2>1. k \in 1..Len(texts)
      BY <1>0, <1>2
    <2> DEFINE t == texts[k]
    <2>2. t \in Seq(Byte) /\ Len(t) \in Nat
      BY <2>1
    <2>3. t = texts[k] /\ said[k] = t /\ k <= Len(said)
      BY <2>1
    <2> HIDE DEF t
    <2>4. b = a + 1 + Len(t)
      BY <1>2, <2>3
    <2>5. a + 1 \in 1..Len(S) /\ \A i \in 1..Len(t) : a + 1 + i \in 1..Len(S)
      BY <1>0, <2>2, <2>4
    <2>6. S2[a + 1] = <<"chat", Len(t)>> /\ \A i \in 1..Len(t) : S2[a + 1 + i] = t[i]
      BY <1>2, <2>3, <2>5
    <2> QED BY <1>0, <1>2, <2>3, <2>4, <2>6 DEF FrameAt
  <1> QED BY <1>1, <1>2 DEF FrameAt

\* The texts when one frame more was sent: it may have none.
With(texts, text) == IF text = <<>> THEN texts ELSE Append(texts, text)

\* chatclient sends one frame more, after the others (chatclient/main.cpp:62-70).
LEMMA SentMore ==
    ASSUME NEW S, NEW n, NEW at, NEW cnt, NEW texts \in Seq(Seq(Byte)),
           Sent(S, n, at, cnt, texts),
           NEW kind \in {"chat", "bad", "nil"}, NEW text \in Seq(Byte),
           text # <<>> => kind = "chat", NEW j \in 0..n
    PROVE  \E m, at2, cnt2 : /\ Sent(S \o Frame(kind, text), m, at2, cnt2, With(texts, text))
                             /\ j \in 0..m /\ at2[j] = at[j] /\ cnt2[j] = cnt[j]
  <1> DEFINE F == Frame(kind, text)
             S2 == S \o F
             said == With(texts, text)
             m == n + 1
             at2 == [i \in 0..m |-> IF i = m THEN Len(S2) ELSE at[i]]
             cnt2 == [i \in 0..m |-> IF i = m THEN Len(said) ELSE cnt[i]]
  <1>1. /\ S \in Seq(Byte) /\ n \in Nat /\ at \in [0..n -> Nat] /\ cnt \in [0..n -> Nat]
        /\ at[n] = Len(S) /\ cnt[n] = Len(texts) /\ at[j] \in Nat
        /\ Len(S) \in Nat /\ Len(texts) \in Nat /\ Len(text) \in Nat
    BY DEF Sent
  <1>2. /\ F \in Seq(Byte) /\ Len(F) \in Nat
        /\ text = <<>> => Len(F) = 1 /\ F[1] \in Textless
        /\ text # <<>> => /\ Len(F) = 1 + Len(text)
                          /\ F[1] = <<"chat", Len(text)>>
                          /\ \A i \in 1..Len(text) : F[1 + i] = text[i]
    <2>1. Len(F) = 1 + Len(text) /\ F[1] = <<kind, Len(text)>>
      BY FrameOf
    <2>2. F \in Seq(Byte) /\ \A i \in 1..Len(text) : F[1 + i] = text[i]
      BY FrameOf
    <2>3. text = <<>> => Len(F) = 1 /\ F[1] \in Textless
      BY FrameOf
    <2> HIDE DEF F
    <2> QED BY <2>1, <2>2, <2>3
  <1> HIDE DEF F
  <1>3. /\ said \in Seq(Seq(Byte))
        /\ Len(said) = (IF text = <<>> THEN Len(texts) ELSE Len(texts) + 1)
        /\ \A i \in 1..Len(texts) : said[i] = texts[i]
        /\ text # <<>> => said[Len(texts) + 1] = text
    BY AppendProperties DEF With
  <1> HIDE DEF said
  <1>4. /\ S2 \in Seq(Byte) /\ Len(S2) = Len(S) + Len(F)
        /\ \A i \in 1..Len(S) : S2[i] = S[i]
        /\ \A i \in 1..Len(F) : S2[Len(S) + i] = F[i]
    BY <1>1, <1>2, Joined
  <1> HIDE DEF S2
  <1>5. m \in Nat /\ m = n + 1 /\ Len(S2) \in Nat /\ Len(said) \in Nat
    BY <1>1, <1>4
  <1> HIDE DEF m
  <1>6. \A i \in 0..m : i # m => i \in 0..n
    BY <1>1, <1>5
  <1>7. at2 \in [0..m -> Nat] /\ cnt2 \in [0..m -> Nat]
    BY <1>1, <1>5, <1>6
  <1>8. at2[m] = Len(S2) /\ cnt2[m] = Len(said)
    BY <1>5
  <1>9. \A i \in 0..n : i \in 0..m /\ at2[i] = at[i] /\ cnt2[i] = cnt[i]
    BY <1>1, <1>5
  <1> HIDE DEF at2, cnt2
  <1>10. FrameAt(S2, Len(S), Len(S2), Len(texts), Len(said), said)
    <2>1. CASE text = <<>>
      <3>0. Len(F) = 1 /\ F[1] \in Textless /\ Len(said) = Len(texts)
        BY <2>1, <1>2, <1>3
      <3>1. 1 \in 1..Len(F)
        BY <3>0
      <3>2. S2[Len(S) + 1] \in Textless
        BY <3>0, <3>1, <1>4
      <3>3. Len(S2) = Len(S) + 1 /\ Len(S2) <= Len(S2)
        BY <3>0, <1>4, <1>5
      <3> QED BY <3>0, <3>2, <3>3 DEF FrameAt
    <2>2. CASE text # <<>>
      <3>1. 1 \in 1..Len(F) /\ \A i \in 1..Len(text) : 1 + i \in 1..Len(F)
        BY <2>2, <1>1, <1>2
      <3>2. S2[Len(S) + 1] = <<"chat", Len(text)>>
        BY <2>2, <3>1, <1>2, <1>4
      <3>3. \A i \in 1..Len(text) : S2[Len(S) + 1 + i] = text[i]
        <4> TAKE i \in 1..Len(text)
        <4>1. Len(S) + (1 + i) = Len(S) + 1 + i
          BY <1>1
        <4>2. S2[Len(S) + (1 + i)] = F[1 + i]
          BY <3>1, <1>4
        <4> QED BY <2>2, <4>1, <4>2, <1>2
      <3>4. /\ Len(said) = Len(texts) + 1 /\ said[Len(texts) + 1] = text
            /\ Len(F) = 1 + Len(text)
        BY <2>2, <1>2, <1>3
      <3>5. said[Len(said)] = text /\ Len(said) <= Len(said) /\ Len(text) > 0
        BY <2>2, <3>4, <1>1, <1>5, EmptySeq
      <3>6. Len(S2) = Len(S) + 1 + Len(text) /\ Len(S2) <= Len(S2)
        BY <3>4, <1>1, <1>4, <1>5
      <3> QED BY <3>2, <3>3, <3>4, <3>5, <3>6 DEF FrameAt
    <2> QED BY <2>1, <2>2
  <1>11. ASSUME NEW i \in 0..(m - 1)
         PROVE  FrameAt(S2, at2[i], at2[i + 1], cnt2[i], cnt2[i + 1], said)
    <2>1. CASE i = n
      <3>1. i \in 0..n /\ i + 1 = m
        BY <2>1, <1>1, <1>5
      <3>2. /\ at2[i] = Len(S) /\ at2[i + 1] = Len(S2)
            /\ cnt2[i] = Len(texts) /\ cnt2[i + 1] = Len(said)
        BY <2>1, <3>1, <1>1, <1>8, <1>9
      <3> QED BY <3>2, <1>10
    <2>2. CASE i # n
      <3>1. i \in 0..(n - 1) /\ i \in 0..n /\ i + 1 \in 0..n
        BY <2>2, <1>1, <1>5
      <3>2. FrameAt(S, at[i], at[i + 1], cnt[i], cnt[i + 1], texts)
        BY <3>1 DEF Sent
      <3>3. /\ at2[i] = at[i] /\ at2[i + 1] = at[i + 1] /\ at[i] \in Nat /\ at[i + 1] \in Nat
            /\ cnt2[i] = cnt[i] /\ cnt2[i + 1] = cnt[i + 1] /\ cnt[i] \in Nat
            /\ cnt[i + 1] \in Nat
        BY <3>1, <1>1, <1>9
      <3>4. Len(S) <= Len(S2) /\ Len(texts) <= Len(said)
        <4>1. Len(S) \in Nat /\ Len(F) \in Nat /\ Len(S2) = Len(S) + Len(F)
          BY <1>1, <1>2, <1>4
        <4>2. Len(texts) \in Nat /\ Len(said) = (IF text = <<>> THEN Len(texts)
                                                 ELSE Len(texts) + 1)
          BY <1>1, <1>3
        <4> QED BY <4>1, <4>2
      <3>5. FrameAt(S2, at[i], at[i + 1], cnt[i], cnt[i + 1], said)
        <4> DEFINE a == at[i]
                   b == at[i + 1]
                   c == cnt[i]
                   k == cnt[i + 1]
        <4>1. a \in Nat /\ b \in Nat /\ c \in Nat /\ k \in Nat
          BY <3>3
        <4>2. FrameAt(S, a, b, c, k, texts)
          BY <3>2
        <4> HIDE DEF a, b, c, k
        <4>3. FrameAt(S2, a, b, c, k, said)
          BY <4>1, <4>2, <3>4, <1>1, <1>3, <1>4, FrameStays
        <4> QED BY <4>3 DEF a, b, c, k
      <3> QED BY <3>3, <3>5
    <2> QED BY <2>1, <2>2
  <1>12. Sent(S2, m, at2, cnt2, said)
    BY <1>4, <1>5, <1>7, <1>8, <1>11 DEF Sent
  <1>13. j \in 0..m /\ at2[j] = at[j] /\ cnt2[j] = cnt[j]
    BY <1>9
  <1>14. S2 = S \o Frame(kind, text) /\ said = With(texts, text)
    BY DEF S2, F, said
  <1> QED BY <1>12, <1>13, <1>14

\* A peer sends one more frame (chatclient/main.cpp:55-73).
LEMMA FramedSays ==
    ASSUME NEW U \in Seq(Byte), NEW texts \in Seq(Seq(Byte)), NEW count,
           Framed(U, TRUE, texts, count),
           NEW kind \in {"chat", "bad", "nil"}, NEW text \in Seq(Byte),
           text # <<>> => kind = "chat"
    PROVE  Framed(U \o Frame(kind, text), TRUE, With(texts, text), count)
  <1> DEFINE F == Frame(kind, text)
             said == With(texts, text)
             V == U \o F
  <1>1. PICK S, n, at, cnt, j : FollowsAt(U, TRUE, texts, count, S, n, at, cnt, j)
    BY DEF Framed
  <1>3. F \in Seq(Byte)
    BY FrameOf
  <1> HIDE DEF said
  <1>4. Sent(S, n, at, cnt, texts) /\ j \in 0..n
    BY <1>1 DEF FollowsAt
  <1>5. PICK m, at2, cnt2 : /\ Sent(S \o F, m, at2, cnt2, said)
                            /\ j \in 0..m /\ at2[j] = at[j] /\ cnt2[j] = cnt[j]
    BY <1>4, SentMore DEF said
  <1> HIDE DEF F
  <1>6. /\ S \in Seq(Byte) /\ at[j] \in Nat /\ cnt[j] = count
        /\ Len(S) \in Nat /\ Len(U) \in Nat /\ Len(F) \in Nat
        /\ at[j] + Len(U) = Len(S)
        /\ \A i \in 1..Len(U) : U[i] = S[at[j] + i]
    BY <1>1, <1>3, <1>4 DEF FollowsAt, Sent
  <1> DEFINE S2 == S \o F
  <1>7. /\ Len(S2) = Len(S) + Len(F)
        /\ \A i \in 1..Len(S) : S2[i] = S[i]
        /\ \A i \in 1..Len(F) : S2[Len(S) + i] = F[i]
    BY <1>3, <1>6, Joined
  <1>8. /\ V \in Seq(Byte) /\ Len(V) = Len(U) + Len(F)
        /\ \A i \in 1..Len(U) : V[i] = U[i]
        /\ \A i \in 1..Len(F) : V[Len(U) + i] = F[i]
    BY <1>3, Joined
  <1> HIDE DEF S2, V
  <1>9. /\ at[j] + Len(V) = Len(S2) /\ at[j] + Len(V) <= Len(S2)
        /\ Len(S2) \in Nat /\ Len(V) \in Nat
    BY <1>6, <1>7, <1>8
  <1>10. ASSUME NEW i \in 1..Len(V) PROVE V[i] = S2[at[j] + i]
    <2>1. CASE i <= Len(U)
      <3>1. i \in 1..Len(U) /\ at[j] + i \in 1..Len(S)
        BY <2>1, <1>6, <1>8
      <3> QED BY <3>1, <1>6, <1>7, <1>8
    <2>2. CASE i > Len(U)
      <3> DEFINE x == i - Len(U)
      <3>1. x \in 1..Len(F) /\ i = Len(U) + x /\ at[j] + i = Len(S) + x
        <4>1. i \in Nat /\ i <= Len(U) + Len(F)
          BY <1>8, <1>9
        <4>2. /\ at[j] \in Nat /\ Len(U) \in Nat /\ Len(F) \in Nat
              /\ at[j] + Len(U) = Len(S)
          BY <1>6
        <4>3. x \in 1..Len(F) /\ i = Len(U) + x /\ x \in Nat
          BY <4>1, <4>2, <2>2
        <4> DEFINE a == at[j]
        <4>4. a \in Nat /\ a + Len(U) = Len(S)
          BY <4>2
        <4> HIDE DEF a, x
        <4>5. a + i = Len(S) + x
          <5>1. \A k, u, y \in Nat : k + (u + y) = (k + u) + y
            OBVIOUS
          <5>2. a + (Len(U) + x) = (a + Len(U)) + x
            BY <4>2, <4>3, <4>4, <5>1
          <5> QED BY <4>3, <4>4, <5>2
        <4> QED BY <4>3, <4>5 DEF a
      <3> HIDE DEF x
      <3> QED BY <3>1, <1>7, <1>8
    <2> QED BY <2>1, <2>2, <1>6, <1>8
  <1>11. Sent(S2, m, at2, cnt2, said)
    BY <1>5 DEF S2
  <1>12. FollowsAt(V, TRUE, said, count, S2, m, at2, cnt2, j)
    BY <1>5, <1>6, <1>9, <1>10, <1>11 DEF FollowsAt
  <1>13. Framed(V, TRUE, said, count)
    BY <1>12 DEF Framed
  <1> QED BY <1>13 DEF said, V, F

\* Part of what was sent is lost when the socket is closed (io_service.cpp:437-445).
LEMMA FramedCut ==
    ASSUME NEW U \in Seq(Byte), NEW whole \in BOOLEAN, NEW texts, NEW count,
           Framed(U, whole, texts, count),
           NEW V \in Seq(Byte), NEW cut \in BOOLEAN, ~cut, Len(V) <= Len(U), \A i \in 1..Len(V) : V[i] = U[i]
    PROVE  Framed(V, cut, texts, count)
  <1>1. PICK S, n, at, cnt, j : FollowsAt(U, whole, texts, count, S, n, at, cnt, j)
    BY DEF Framed
  <1>2. at[j] \in Nat /\ Len(S) \in Nat /\ Len(U) \in Nat /\ Len(V) \in Nat
    BY <1>1 DEF FollowsAt, Sent
  <1>3. at[j] + Len(V) <= Len(S)
    BY <1>1, <1>2 DEF FollowsAt
  <1>4. \A i \in 1..Len(V) : V[i] = S[at[j] + i]
    <2> TAKE i \in 1..Len(V)
    <2>1. i \in 1..Len(U)
      BY <1>2
    <2> QED BY <2>1, <1>1 DEF FollowsAt
  <1>5. FollowsAt(V, cut, texts, count, S, n, at, cnt, j)
    BY <1>1, <1>3, <1>4 DEF FollowsAt
  <1> QED BY <1>5 DEF Framed

\* The frame at the front of the buffer is the next one sent, with the next text
\* (receiver.cpp:40-43).
LEMMA FramedPops ==
    ASSUME NEW b \in Seq(Byte), NEW r \in Seq(Byte), NEW whole \in BOOLEAN,
           NEW texts \in Seq(Seq(Byte)), NEW count \in Nat,
           Framed(b \o r, whole, texts, count), Whole(b)
    PROVE  LET text == texts[count + 1]
               next == IF HasText(b) THEN count + 1 ELSE count
           IN  /\ FrameLength(b) \in Nat \ {0} /\ FrameLength(b) <= Len(b)
               /\ HasText(b) => /\ count + 1 \in 1..Len(texts)
                                /\ FrameLength(b) = 1 + Len(text)
                                /\ \A i \in 1..Len(text) : b[1 + i] = text[i]
               /\ ~HasText(b) => FrameLength(b) = 1
               /\ Framed(SubSeq(b, FrameLength(b) + 1, Len(b)) \o r, whole, texts, next)
  <1> DEFINE U == b \o r
             L == FrameLength(b)
             next == IF HasText(b) THEN count + 1 ELSE count
  <1>1. PICK S, n, at, cnt, j : FollowsAt(U, whole, texts, count, S, n, at, cnt, j)
    BY DEF Framed
  <1>2. /\ U \in Seq(Byte) /\ Len(U) = Len(b) + Len(r) /\ Len(b) \in Nat /\ Len(r) \in Nat
        /\ \A i \in 1..Len(b) : U[i] = b[i]
        /\ \A i \in 1..Len(r) : U[Len(b) + i] = r[i]
    BY Joined
  <1>u. Len(U) \in Nat
    BY <1>2
  <1> HIDE DEF U
  <1>3. /\ Sent(S, n, at, cnt, texts) /\ j \in 0..n /\ cnt[j] = count
        /\ S \in Seq(Byte) /\ n \in Nat /\ at \in [0..n -> Nat] /\ cnt \in [0..n -> Nat]
        /\ at[n] = Len(S) /\ Len(S) \in Nat /\ at[j] \in Nat /\ Len(texts) \in Nat
        /\ at[j] + Len(U) <= Len(S)
        /\ whole => at[j] + Len(U) = Len(S)
    <2>1. /\ Sent(S, n, at, cnt, texts) /\ j \in 0..n /\ cnt[j] = count
          /\ at[j] + Len(U) <= Len(S)
          /\ whole => at[j] + Len(U) = Len(S)
      BY <1>1 DEF FollowsAt
    <2>2. /\ S \in Seq(Byte) /\ n \in Nat /\ at \in [0..n -> Nat] /\ cnt \in [0..n -> Nat]
          /\ at[n] = Len(S)
      BY <2>1 DEF Sent
    <2> QED BY <2>1, <2>2
  <1>4. \A i \in 1..Len(U) : U[i] = S[at[j] + i]
    BY <1>1 DEF FollowsAt
  <1>5. Len(b) > 0 /\ Len(b) > b[1][2]
    BY DEF Whole
  <1>6. j \in 0..(n - 1) /\ j + 1 \in 0..n
    BY <1>2, <1>3, <1>5
  <1>7. FrameAt(S, at[j], at[j + 1], count, cnt[j + 1], texts)
    BY <1>3, <1>6 DEF Sent
  <1> DEFINE p == at[j]
             q == at[j + 1]
             k == cnt[j + 1]
  <1>8. p \in Nat /\ q \in Nat /\ k \in Nat
    BY <1>3, <1>6
  <1>9. \A i \in 1..Len(b) : b[i] = S[p + i]
    <2> TAKE i \in 1..Len(b)
    <2>1. i \in 1..Len(U)
      BY <1>2
    <2> QED BY <2>1, <1>2, <1>4
  <1>10. b[1] = S[p + 1]
    <2>1. 1 \in 1..Len(b)
      BY <1>2, <1>5
    <2> QED BY <2>1, <1>9
  <1> HIDE DEF p, q, k
  <1>11. /\ L \in Nat \ {0} /\ L <= Len(b) /\ q = p + L /\ k = next
         /\ HasText(b) => /\ count + 1 \in 1..Len(texts)
                          /\ L = 1 + Len(texts[count + 1])
                          /\ \A i \in 1..Len(texts[count + 1]) :
                                b[1 + i] = texts[count + 1][i]
         /\ ~HasText(b) => L = 1
    <2>1. CASE k = count /\ q = p + 1 /\ S[p + 1] \in Textless
      <3>1. b[1][2] = 0
        BY <2>1, <1>10 DEF Textless
      <3>2. ~HasText(b) /\ L = 1
        BY <3>1 DEF HasText, FrameLength
      <3> HIDE DEF L
      <3> QED BY <2>1, <3>2, <1>2, <1>5, <1>8
    <2>2. CASE /\ k = count + 1 /\ k <= Len(texts)
               /\ q = p + 1 + Len(texts[k])
               /\ Len(texts[k]) > 0
               /\ S[p + 1] = <<"chat", Len(texts[k])>>
               /\ \A i \in 1..Len(texts[k]) : S[p + 1 + i] = texts[k][i]
      <3> DEFINE t == texts[k]
      <3>1. k \in 1..Len(texts)
        BY <2>2, <1>3, <1>8
      <3>2. t = texts[k] /\ Len(t) \in Nat
        BY <3>1
      <3> HIDE DEF t
      <3>3. HasText(b) /\ L = 1 + Len(t) /\ b[1][2] = Len(t)
        BY <2>2, <3>2, <1>10 DEF HasText, Kind, FrameLength
      <3>4. L \in Nat \ {0} /\ L <= Len(b) /\ q = p + L
        <4>1. q = p + 1 + Len(t)
          BY <2>2, <3>2
        <4>2. Len(t) < Len(b)
          BY <3>3, <1>5
        <4>3. L = 1 + Len(t)
          BY <3>3
        <4> HIDE DEF L
        <4>4. p \in Nat /\ Len(b) \in Nat /\ Len(t) \in Nat
          BY <3>2, <1>2, <1>8
        <4> QED BY <4>1, <4>2, <4>3, <4>4
      <3> HIDE DEF L
      <3>5. ASSUME NEW i \in 1..Len(t)
            PROVE  b[1 + i] = t[i]
        <4>1. 1 + i \in 1..Len(b) /\ p + (1 + i) = p + 1 + i
          BY <3>2, <3>3, <3>4, <1>2, <1>8
        <4>2. b[1 + i] = S[p + 1 + i]
          BY <4>1, <1>9
        <4> QED BY <4>2, <3>2, <2>2
      <3>6. k = next /\ k = count + 1
        BY <2>2, <3>3
      <3> QED BY <3>1, <3>2, <3>3, <3>4, <3>5, <3>6
    <2> QED BY <2>1, <2>2, <1>7 DEF FrameAt, p, q, k
  <1> HIDE DEF L, next
  <1> DEFINE t == SubSeq(b, L + 1, Len(b))
             V == t \o r
  <1>12. t \in Seq(Byte) /\ Len(t) = Len(b) - L /\ \A i \in 1..Len(t) : t[i] = b[L + i]
    <2>1. t \in Seq(Byte)
      BY <1>2, <1>11, SequencePart
    <2>2. Len(t) = Len(b) - L
      BY <1>2, <1>11
    <2>3. \A i \in 1..Len(t) : t[i] = b[L + i]
      BY <1>2, <1>11
    <2> QED BY <2>1, <2>2, <2>3
  <1> HIDE DEF t
  <1>13. /\ V \in Seq(Byte) /\ Len(V) = Len(t) + Len(r)
         /\ \A i \in 1..Len(t) : V[i] = t[i]
         /\ \A i \in 1..Len(r) : V[Len(t) + i] = r[i]
    BY <1>12, Joined
  <1> HIDE DEF V
  <1>14. ASSUME NEW i \in 1..Len(V) PROVE L + i \in 1..Len(U) /\ V[i] = U[L + i]
    <2>1. CASE i <= Len(t)
      <3>1. i \in 1..Len(t) /\ L + i \in 1..Len(b) /\ L + i \in 1..Len(U)
        BY <2>1, <1>2, <1>11, <1>12, <1>13
      <3> QED BY <3>1, <1>2, <1>12, <1>13
    <2>2. CASE i > Len(t)
      <3> DEFINE x == i - Len(t)
      <3>1. /\ x \in 1..Len(r) /\ i = Len(t) + x /\ L + i = Len(b) + x
            /\ L + i \in 1..Len(U)
        BY <2>2, <1>2, <1>11, <1>12, <1>13
      <3> HIDE DEF x
      <3>2. V[i] = r[x] /\ U[Len(b) + x] = r[x]
        BY <3>1, <1>2, <1>13
      <3> QED BY <3>1, <3>2
    <2> QED BY <2>1, <2>2, <1>2, <1>11, <1>12
  <1>15. q + Len(V) = p + Len(U)
    BY <1>2, <1>8, <1>11, <1>12, <1>13
  <1>16. ASSUME NEW i \in 1..Len(V) PROVE V[i] = S[q + i]
    <2>1. q + i = p + (L + i)
      BY <1>8, <1>11
    <2> QED BY <2>1, <1>4, <1>14 DEF p
  <1>17. FollowsAt(V, whole, texts, next, S, n, at, cnt, j + 1)
    BY <1>3, <1>6, <1>11, <1>15, <1>16 DEF FollowsAt, p, q, k
  <1>18. Framed(V, whole, texts, next)
    BY <1>17 DEF Framed
  <1> QED BY <1>11, <1>18 DEF L, next, V, t

-----------------------------------------------------------------------------
(* The frames of the chat server's clients.                                *)

\* What is left of a peer's bytes: in its socket's buffer, brought by its read, and
\* waiting in the kernel.
Bytes(c) == buffer[c] \o (sock[c].got \o stream[c])

OnTheWay(c) == Framed(Bytes(c), ~sock[c].ended, hist.said[c], Len(hist.chats[c]))

\* Only a completed read brings something, and a socket was shut down before it is closed.
Ready(c) == /\ sock[c].read # "done" => sock[c].got = <<>>
            /\ sock[c].answered # {} => sock[c].ended

\* ChatsAsSaid for one client.
AsSaid(texts, chats) ==
    /\ Len(chats) <= Len(texts)
    /\ \A i \in DOMAIN chats :
          /\ Len(chats[i]) >= Len(texts[i])
          /\ SubSeq(chats[i], 1, Len(texts[i])) = texts[i]
          /\ \/ Len(chats[i]) = Len(texts[i])
             \/ \E j \in 1..(i - 1) : Len(texts[j]) > Len(texts[i])

\* The array of on_receive is filled as far as one of the frames of this client did, or
\* holds no more than a header.
Array(w) ==
    event[w].picked # <<>> =>
        /\ event[w].from \in Clients
        /\ \/ Len(event[w].picked) = 1
           \/ \E m \in 1..Len(hist.chats[event[w].from]) :
                 Len(event[w].picked) = 1 + Len(hist.said[event[w].from][m])

\* ArraysHold for one worker.
Held(w) ==
    event[w].at = "corrupt" =>
        /\ event[w].from \in Clients
        /\ \E i \in 1..Len(hist.said[event[w].from]) :
              Len(hist.said[event[w].from][i]) > ChatRoom

FInv == /\ \A c \in Clients : OnTheWay(c) /\ Ready(c)
        /\ \A w \in Workers : Array(w) /\ Held(w)
        /\ \A c \in Clients : AsSaid(hist.said[c], hist.chats[c])

\* A text that chatclient sends does not change what client::chat was given.
LEMMA MoreSaid ==
    ASSUME NEW said \in Seq(Seq(Byte)), NEW t \in Seq(Seq(Byte)),
           NEW chats \in Seq(Seq(Byte)), AsSaid(said, chats),
           Len(said) <= Len(t), \A i \in 1..Len(said) : t[i] = said[i]
    PROVE  AsSaid(t, chats)
  <1>1. /\ Len(chats) <= Len(said) /\ Len(chats) \in Nat /\ Len(said) \in Nat
        /\ Len(t) \in Nat /\ DOMAIN chats = 1..Len(chats)
    BY DEF AsSaid
  <1>2. Len(chats) <= Len(t)
    BY <1>1
  <1>3. ASSUME NEW i \in DOMAIN chats
        PROVE  t[i] = said[i] /\ \A j \in 1..(i - 1) : t[j] = said[j]
    <2>1. i \in 1..Len(said) /\ \A j \in 1..(i - 1) : j \in 1..Len(said)
      BY <1>1
    <2> QED BY <2>1
  <1>4. ASSUME NEW i \in DOMAIN chats
        PROVE  /\ Len(chats[i]) >= Len(t[i])
               /\ SubSeq(chats[i], 1, Len(t[i])) = t[i]
               /\ \/ Len(chats[i]) = Len(t[i])
                  \/ \E j \in 1..(i - 1) : Len(t[j]) > Len(t[i])
    <2>1. Len(chats[i]) >= Len(t[i]) /\ SubSeq(chats[i], 1, Len(t[i])) = t[i]
      BY <1>3 DEF AsSaid
    <2>2. CASE Len(chats[i]) = Len(said[i])
      BY <2>1, <2>2, <1>3
    <2>3. CASE \E j \in 1..(i - 1) : Len(said[j]) > Len(said[i])
      <3>1. PICK j \in 1..(i - 1) : Len(said[j]) > Len(said[i])
        BY <2>3
      <3> QED BY <2>1, <3>1, <1>3
    <2> QED BY <2>2, <2>3 DEF AsSaid
  <1> QED BY <1>2, <1>4 DEF AsSaid

\* The types of a socket's bytes: recv_buffer, what its read brought, and the stream.
LEMMA ByteTypes ==
    ASSUME CInv, NEW c \in Clients
    PROVE  /\ buffer[c] \in Seq(Byte) /\ stream[c] \in Seq(Byte) /\ sock[c] \in Socket
           /\ sock[c].got \in Seq(Byte) /\ sock[c].ended \in BOOLEAN
           /\ sock[c].got \o stream[c] \in Seq(Byte) /\ Bytes(c) \in Seq(Byte)
           /\ hist.said[c] \in Seq(Seq(Byte)) /\ hist.chats[c] \in Seq(Seq(Byte))
           /\ Len(hist.chats[c]) \in Nat
  <1>1. /\ buffer[c] \in Seq(Byte) /\ stream[c] \in Seq(Byte) /\ sock[c] \in Socket
        /\ hist.said[c] \in Seq(Seq(Byte)) /\ hist.chats[c] \in Seq(Seq(Byte))
    BY DEF CInv, ChatTypeOK
  <1>2. sock[c].got \in Seq(Byte) /\ sock[c].ended \in BOOLEAN
    BY <1>1 DEF Socket
  <1>3. sock[c].got \o stream[c] \in Seq(Byte)
    BY <1>1, <1>2, ConcatProperties
  <1>4. Bytes(c) \in Seq(Byte)
    BY <1>1, <1>3, ConcatProperties DEF Bytes
  <1> QED BY <1>1, <1>2, <1>3, <1>4

\* Nothing has been sent when main() starts the server.
LEMMA FramesBegin == ChatInit => FInv
  <1> SUFFICES ASSUME ChatInit PROVE FInv
      OBVIOUS
  <1>1. ASSUME NEW c \in Clients PROVE OnTheWay(c) /\ Ready(c)
    <2>1. /\ buffer[c] = <<>> /\ stream[c] = <<>> /\ sock[c] = NewSocket
          /\ hist.said[c] = <<>> /\ hist.chats[c] = <<>>
      BY DEF ChatInit
    <2>2. sock[c].got = <<>> /\ sock[c].ended = FALSE /\ sock[c].answered = {}
      BY <2>1 DEF NewSocket
    <2>3. <<>> \o (<<>> \o <<>>) = <<>> /\ Len(<<>>) = 0
      <3>1. <<>> \in Seq(Byte) /\ Len(<<>>) = 0
        OBVIOUS
      <3> QED BY <3>1, ConcatEmptySeq
    <2>4. Bytes(c) = <<>> /\ Len(hist.chats[c]) = 0
      BY <2>1, <2>2, <2>3 DEF Bytes
    <2>5. ~sock[c].ended <=> TRUE
      BY <2>2
    <2>6. Framed(Bytes(c), ~sock[c].ended, hist.said[c], Len(hist.chats[c]))
      BY <2>1, <2>4, <2>2, FramedNone
    <2> QED BY <2>2, <2>6 DEF OnTheWay, Ready
  <1>2. \A w \in Workers : Array(w) /\ Held(w)
    BY DEF ChatInit, Array, Held, NoEvent
  <1>3. ASSUME NEW c \in Clients PROVE AsSaid(hist.said[c], hist.chats[c])
    <2>1. hist.said[c] = <<>> /\ hist.chats[c] = <<>>
      BY DEF ChatInit
    <2> QED BY <2>1 DEF AsSaid
  <1> QED BY <1>1, <1>2, <1>3 DEF FInv

SameArrays ==
    \A w \in Workers :
        /\ event'[w].picked # <<>> =>
               event'[w].picked = event[w].picked /\ event'[w].from = event[w].from
        /\ event'[w].at = "corrupt" =>
               event[w].at = "corrupt" /\ event'[w].from = event[w].from

\* A step that moves a peer's bytes on their way to on_receive, and neither adds, takes
\* nor loses any.
LEMMA StillKeeps ==
    ASSUME FInv, SameArrays, UNCHANGED hist,
           \A c \in Clients : /\ Bytes(c)' = Bytes(c)
                              /\ sock'[c].ended = sock[c].ended
                              /\ Ready(c)'
    PROVE  FInv'
  <1>1. ASSUME NEW c \in Clients PROVE OnTheWay(c)'
    BY DEF FInv, OnTheWay
  <1>2. ASSUME NEW w \in Workers PROVE Array(w)' /\ Held(w)'
    BY DEF FInv, SameArrays, Array, Held
  <1>3. \A c \in Clients : AsSaid(hist'.said[c], hist'.chats[c])
    BY DEF FInv
  <1> QED BY <1>1, <1>2, <1>3 DEF FInv

\* A socket_object that changes, but not in what it has received.
LEMMA SocketStill ==
    ASSUME CInv, FInv, SameArrays, UNCHANGED <<stream, buffer, hist>>,
           NEW c \in Clients, NEW s, sock' = [sock EXCEPT ![c] = s],
           s.ended = sock[c].ended, s.got = sock[c].got, s.answered = sock[c].answered,
           s.read # "done" => s.got = <<>>
    PROVE  FInv'
  <1>1. sock \in [Clients -> Socket]
    BY DEF CInv, ChatTypeOK
  <1>2. sock'[c] = s /\ \A d \in Clients : d # c => sock'[d] = sock[d]
    BY <1>1
  <1>3. ASSUME NEW d \in Clients
        PROVE  Bytes(d)' = Bytes(d) /\ sock'[d].ended = sock[d].ended /\ Ready(d)'
    <2>1. /\ sock'[d].ended = sock[d].ended /\ sock'[d].got = sock[d].got
          /\ sock'[d].answered = sock[d].answered
          /\ sock'[d].read # "done" => sock'[d].got = <<>>
      BY <1>2 DEF FInv, Ready
    <2>2. Bytes(d)' = Bytes(d)
      BY <2>1 DEF Bytes
    <2>3. Ready(d)'
      BY <2>1 DEF FInv, Ready
    <2> QED BY <2>1, <2>2, <2>3
  <1> QED BY <1>3, StillKeeps

\* A step of the server or of main() that changes no socket.
LEMMA NoSocketKeeps ==
    ASSUME FInv, SameArrays, UNCHANGED <<sock, stream, buffer, hist>>
    PROVE  FInv'
  <1>1. \A c \in Clients : /\ Bytes(c)' = Bytes(c)
                           /\ sock'[c].ended = sock[c].ended
                           /\ Ready(c)'
    BY DEF FInv, Bytes, Ready
  <1> QED BY <1>1, StillKeeps

\* A peer leaves or its socket is shut down or closed: it sends no more, and what waits
\* in the kernel may be lost (socket_object.cpp:113-129).
LEMMA EndStep ==
    ASSUME CInv, FInv, UNCHANGED <<buffer, hist, event>>,
           NEW c \in Clients, NEW s, sock' = [sock EXCEPT ![c] = s],
           s.ended = TRUE, s.got = sock[c].got, s.read = sock[c].read,
           NEW t \in {stream[c], <<>>}, stream' = [stream EXCEPT ![c] = t]
    PROVE  FInv'
  <1>1. sock \in [Clients -> Socket] /\ stream \in [Clients -> Seq(Byte)]
    BY DEF CInv, ChatTypeOK
  <1>2. /\ sock'[c] = s /\ \A d \in Clients : d # c => sock'[d] = sock[d]
        /\ stream'[c] = t /\ \A d \in Clients : d # c => stream'[d] = stream[d]
    BY <1>1
  <1>3. ASSUME NEW d \in Clients, d # c PROVE OnTheWay(d)' /\ Ready(d)'
    <2>1. OnTheWay(d)'
      BY <1>2, <1>3 DEF FInv, OnTheWay, Bytes
    <2>2. Ready(d)'
      BY <1>2, <1>3 DEF FInv, Ready
    <2> QED BY <2>1, <2>2
  <1>4. Ready(c)'
    BY <1>2 DEF FInv, Ready
  <1>5. OnTheWay(c)'
    <2> DEFINE b == buffer[c]
               g == sock[c].got
               a == g \o stream[c]
               k == g \o t
               U == b \o a
               V == b \o k
    <2>1. /\ b \in Seq(Byte) /\ g \in Seq(Byte) /\ stream[c] \in Seq(Byte)
          /\ t \in Seq(Byte) /\ sock[c].ended \in BOOLEAN
      <3>1. /\ b \in Seq(Byte) /\ g \in Seq(Byte) /\ stream[c] \in Seq(Byte)
            /\ sock[c].ended \in BOOLEAN
        BY ByteTypes
      <3>2. <<>> \in Seq(Byte)
        OBVIOUS
      <3> QED BY <3>1, <3>2
    <2>2. /\ a \in Seq(Byte) /\ k \in Seq(Byte) /\ Len(k) <= Len(a)
          /\ \A i \in 1..Len(k) : k[i] = a[i]
      <3>1. CASE t = stream[c]
        BY <2>1, <3>1, Joined
      <3>2. CASE t = <<>>
        <4>1. k = g
          BY <2>1, <3>2, ConcatEmptySeq
        <4>2. a \in Seq(Byte) /\ Len(a) = Len(g) + Len(stream[c]) /\ Len(g) \in Nat
              /\ Len(stream[c]) \in Nat /\ \A i \in 1..Len(g) : a[i] = g[i]
          BY <2>1, Joined
        <4> HIDE DEF a, k, g
        <4> QED BY <2>1, <4>1, <4>2
      <3> QED BY <3>1, <3>2
    <2> HIDE DEF a, k, b
    <2>3. /\ U \in Seq(Byte) /\ Len(U) = Len(b) + Len(a)
          /\ Len(b) \in Nat /\ Len(a) \in Nat
          /\ \A i \in 1..Len(b) : U[i] = b[i]
          /\ \A i \in 1..Len(a) : U[Len(b) + i] = a[i]
      BY <2>1, <2>2, Joined
    <2>4. /\ V \in Seq(Byte) /\ Len(V) = Len(b) + Len(k) /\ Len(k) \in Nat
          /\ \A i \in 1..Len(b) : V[i] = b[i]
          /\ \A i \in 1..Len(k) : V[Len(b) + i] = k[i]
      BY <2>1, <2>2, Joined
    <2> HIDE DEF U, V
    <2>5. Len(V) <= Len(U)
      BY <2>2, <2>3, <2>4
    <2>6. ASSUME NEW i \in 1..Len(V) PROVE V[i] = U[i]
      <3>1. CASE i <= Len(b)
        BY <3>1, <2>3, <2>4
      <3>2. CASE i > Len(b)
        <4> DEFINE x == i - Len(b)
        <4>1. x \in 1..Len(k) /\ x \in 1..Len(a) /\ i = Len(b) + x
          BY <3>2, <2>2, <2>3, <2>4
        <4> HIDE DEF x
        <4> QED BY <4>1, <2>2, <2>3, <2>4
      <3> QED BY <3>1, <3>2, <2>3, <2>4
    <2>7. Framed(U, ~sock[c].ended, hist.said[c], Len(hist.chats[c]))
      BY DEF FInv, OnTheWay, Bytes, U, a, b
    <2>8. Framed(V, ~sock'[c].ended, hist.said[c], Len(hist.chats[c]))
      <3> DEFINE whole == ~sock[c].ended
                 cut == ~sock'[c].ended
      <3>1. whole \in BOOLEAN /\ cut \in BOOLEAN /\ ~cut
        BY <1>2
      <3>2. Framed(U, whole, hist.said[c], Len(hist.chats[c]))
        BY <2>7
      <3> HIDE DEF whole, cut
      <3>3. Framed(V, cut, hist.said[c], Len(hist.chats[c]))
        BY <2>3, <2>4, <2>5, <2>6, <3>1, <3>2, FramedCut
      <3> QED BY <3>3 DEF cut
    <2>9. Bytes(c)' = V /\ hist' = hist
      BY <1>2 DEF Bytes, V, k, b
    <2> QED BY <2>8, <2>9 DEF OnTheWay
  <1>6. /\ (\A w \in Workers : Array(w) /\ Held(w))'
        /\ \A d \in Clients : AsSaid(hist'.said[d], hist'.chats[d])
    BY DEF FInv, Array, Held
  <1> QED BY <1>3, <1>4, <1>5, <1>6 DEF FInv

\* A peer leaves (chatclient/main.cpp:75-78), or SHUT_RD reaches its socket.
LEMMA LeavesFollows ==
    ASSUME CInv, FInv, NEW c \in Clients, Leaves(c) \/ KernelShuts(c)
    PROVE  FInv'
  <1>1. sock[c] \in Socket /\ stream \in [Clients -> Seq(Byte)]
    BY DEF CInv, ChatTypeOK
  <1>2. stream' = [stream EXCEPT ![c] = stream[c]]
    BY <1>1 DEF Leaves, KernelShuts
  <1>3. CASE Leaves(c)
    <2> DEFINE s == [sock[c] EXCEPT !.ended = TRUE]
    <2>1. sock' = [sock EXCEPT ![c] = s] /\ UNCHANGED <<buffer, hist, event>>
      BY <1>3 DEF Leaves
    <2>2. s.ended = TRUE /\ s.got = sock[c].got /\ s.read = sock[c].read
      BY <1>1 DEF Socket
    <2> HIDE DEF s
    <2> QED BY <1>2, <2>1, <2>2, EndStep
  <1>4. CASE KernelShuts(c)
    <2> DEFINE s == [sock[c] EXCEPT !.asked = {}, !.ended = TRUE,
                              !.answered = sock[c].answered \cup sock[c].asked]
    <2>1. sock' = [sock EXCEPT ![c] = s] /\ UNCHANGED <<buffer, hist, event>>
      BY <1>4 DEF KernelShuts
    <2>2. s.ended = TRUE /\ s.got = sock[c].got /\ s.read = sock[c].read
      BY <1>1 DEF Socket
    <2> HIDE DEF s
    <2> QED BY <1>2, <2>1, <2>2, EndStep
  <1> QED BY <1>3, <1>4

\* ::close throws away what the kernel still has for a socket (io_service.cpp:437-445).
LEMMA TakesShutFollows ==
    ASSUME CInv, FInv, NEW w \in Workers, NEW c \in Clients, TakesShut(w, c)
    PROVE  FInv'
  <1> DEFINE s == [sock[c] EXCEPT !.answered = sock[c].answered \ {w}, !.open = FALSE]
  <1>1. sock[c] \in Socket
    BY DEF CInv, ChatTypeOK
  <1>2. sock[c].ended = TRUE
    <2>1. sock[c].answered # {} /\ sock[c].ended \in BOOLEAN
      BY <1>1 DEF TakesShut, Socket
    <2> QED BY <2>1 DEF FInv, Ready
  <1>3. /\ sock' = [sock EXCEPT ![c] = s] /\ UNCHANGED <<buffer, hist, event>>
        /\ stream' = [stream EXCEPT ![c] = <<>>]
    BY DEF TakesShut
  <1>4. s.ended = TRUE /\ s.got = sock[c].got /\ s.read = sock[c].read
    BY <1>1, <1>2 DEF Socket
  <1> HIDE DEF s
  <1> QED BY <1>3, <1>4, EndStep

\* A peer sends a frame: it becomes the last of what is on its way.
LEMMA SaysFollows ==
    ASSUME CInv, FInv, NEW c \in Clients, Says(c)
    PROVE  FInv'
  <1> DEFINE k == Len(hist.said[c]) + 1
             said == hist.said[c]
  <1>a. PICK kind \in case.kinds :
            \E n \in (IF kind = "chat" THEN case.texts ELSE {0}) :
                /\ stream' = [stream EXCEPT ![c] = @ \o Frame(kind, Text(n, k))]
                /\ hist' = [hist EXCEPT !.frames = @ + 1,
                                !.said[c] = IF n = 0 THEN @ ELSE Append(@, Text(n, k))]
    BY DEF Says
  <1>1. PICK n \in (IF kind = "chat" THEN case.texts ELSE {0}) :
            /\ stream' = [stream EXCEPT ![c] = @ \o Frame(kind, Text(n, k))]
            /\ hist' = [hist EXCEPT !.frames = @ + 1,
                            !.said[c] = IF n = 0 THEN @ ELSE Append(@, Text(n, k))]
    BY <1>a
  <1> DEFINE text == Text(n, k)
             t == With(said, text)
             F == Frame(kind, text)
  <1>2. /\ n \in Nat /\ k \in Nat /\ kind \in {"chat", "bad", "nil"}
        /\ n # 0 => kind = "chat"
    <2>1. hist.said[c] \in Seq(Seq(Byte))
      BY DEF CInv, ChatTypeOK
    <2>2. case \in Case
      BY ChatServerAssumption DEF CInv, ChatTypeOK
    <2>3. case.texts \subseteq Nat /\ case.kinds \subseteq {"chat", "bad", "nil"}
      BY <2>2 DEF Case
    <2>4. n \in Nat /\ (n # 0 => kind = "chat")
      BY <2>3
    <2> QED BY <2>1, <2>3, <2>4
  <1>3. text \in Seq(Byte) /\ (text = <<>> <=> n = 0)
    <2>1. text \in Seq(Byte) /\ Len(text) = n
      BY <1>2 DEF Text, Byte
    <2> QED BY <2>1, EmptySeq
  <1>4. /\ buffer[c] \in Seq(Byte) /\ stream[c] \in Seq(Byte) /\ sock[c].got \in Seq(Byte)
        /\ sock[c].got \o stream[c] \in Seq(Byte) /\ Bytes(c) \in Seq(Byte)
        /\ said \in Seq(Seq(Byte)) /\ Len(said) \in Nat /\ hist.chats[c] \in Seq(Seq(Byte))
    BY ByteTypes
  <1>5. F \in Seq(Byte)
    BY <1>2, <1>3, FrameOf
  <1> HIDE DEF text, k
  <1>6. /\ hist'.said = [hist.said EXCEPT ![c] = t] /\ hist'.chats = hist.chats
    BY <1>1, <1>3 DEF CInv, ChatTypeOK, With, text
  <1>7. /\ t \in Seq(Seq(Byte)) /\ Len(t) >= Len(said) /\ Len(t) \in Nat
        /\ \A i \in 1..Len(said) : t[i] = said[i]
    BY <1>3, <1>4, AppendProperties DEF With
  <1>8. /\ hist'.said[c] = t /\ \A d \in Clients : d # c => hist'.said[d] = hist.said[d]
        /\ stream'[c] = stream[c] \o F
        /\ \A d \in Clients : d # c => stream'[d] = stream[d]
    BY <1>1, <1>6 DEF CInv, ChatTypeOK, text
  <1> HIDE DEF t, F, said
  <1>9. UNCHANGED <<buffer, sock, event>> /\ ~sock[c].ended
    BY DEF Says
  <1>10. ASSUME NEW d \in Clients, d # c PROVE OnTheWay(d)' /\ Ready(d)'
    <2>1. OnTheWay(d)'
      BY <1>6, <1>8, <1>9, <1>10 DEF FInv, OnTheWay, Bytes
    <2>2. Ready(d)'
      BY <1>9, <1>10 DEF FInv, Ready
    <2> QED BY <2>1, <2>2
  <1>11. OnTheWay(c)' /\ Ready(c)'
    <2>1. Bytes(c)' = Bytes(c) \o F
      <3> DEFINE b == buffer[c]
                 g == sock[c].got
                 r == stream[c]
                 gr == g \o r
      <3>0. /\ b \in Seq(Byte) /\ g \in Seq(Byte) /\ r \in Seq(Byte) /\ F \in Seq(Byte)
            /\ gr \in Seq(Byte)
        BY <1>4, <1>5
      <3>g. gr = g \o r
        OBVIOUS
      <3> HIDE DEF b, g, r, gr
      <3>1. (g \o r) \o F = g \o (r \o F)
        <4>1. g \in Seq(Byte) /\ r \in Seq(Byte) /\ F \in Seq(Byte)
          BY <3>0
        <4> QED BY <4>1, ConcatAssociative
      <3>2. (b \o gr) \o F = b \o (gr \o F)
        <4>1. b \in Seq(Byte) /\ gr \in Seq(Byte) /\ F \in Seq(Byte)
          BY <3>0
        <4> QED BY <4>1, ConcatAssociative
      <3> QED BY <1>8, <1>9, <3>g, <3>1, <3>2 DEF Bytes, b, g, r
    <2>2. Framed(Bytes(c), TRUE, said, Len(hist.chats[c]))
      <3>1. ~sock[c].ended = TRUE
        BY <1>9
      <3> QED BY <3>1 DEF FInv, OnTheWay, said
    <2>3. Framed(Bytes(c) \o F, TRUE, t, Len(hist.chats[c]))
      BY <2>2, <1>2, <1>3, <1>4, FramedSays DEF t, F
    <2>4. ~sock'[c].ended = TRUE
      BY <1>9
    <2>5. Ready(c)'
      BY <1>9 DEF FInv, Ready
    <2> QED BY <1>6, <1>8, <2>1, <2>3, <2>4, <2>5 DEF OnTheWay
  <1>12. ASSUME NEW w \in Workers PROVE Array(w)'
    <2> SUFFICES ASSUME event[w].picked # <<>> PROVE Array(w)'
        BY <1>9 DEF Array
    <2>1. event[w].from \in Clients
      BY DEF FInv, Array
    <2>a. CASE Len(event[w].picked) = 1
      BY <1>9, <2>1, <2>a DEF Array
    <2> SUFFICES ASSUME Len(event[w].picked) # 1 PROVE Array(w)'
        BY <2>a
    <2>2. PICK m \in 1..Len(hist.chats[event[w].from]) :
              Len(event[w].picked) = 1 + Len(hist.said[event[w].from][m])
      BY DEF FInv, Array
    <2>3. hist'.said[event[w].from][m] = hist.said[event[w].from][m]
      <3>1. CASE event[w].from = c
        <4>1. Len(hist.chats[c]) <= Len(said)
          BY DEF FInv, AsSaid, said
        <4>2. m \in 1..Len(said)
          BY <1>4, <2>2, <3>1, <4>1
        <4> QED BY <3>1, <4>2, <1>7, <1>8 DEF said
      <3>2. CASE event[w].from # c
        BY <2>1, <3>2, <1>8
      <3> QED BY <3>1, <3>2
    <2> QED BY <1>6, <1>9, <2>1, <2>2, <2>3 DEF Array
  <1>14. ASSUME NEW w \in Workers PROVE Held(w)'
    <2> SUFFICES ASSUME event[w].at = "corrupt" PROVE Held(w)'
        BY <1>9 DEF Held
    <2> DEFINE f == event[w].from
    <2>1. f \in Clients
      BY DEF FInv, Held
    <2>2. PICK i \in 1..Len(hist.said[f]) : Len(hist.said[f][i]) > ChatRoom
      BY DEF FInv, Held
    <2>3. i \in 1..Len(hist'.said[f]) /\ hist'.said[f][i] = hist.said[f][i]
      <3>1. CASE f = c
        BY <3>1, <2>2, <1>4, <1>7, <1>8 DEF said
      <3>2. CASE f # c
        BY <2>1, <2>2, <3>2, <1>8
      <3> QED BY <3>1, <3>2
    <2> QED BY <1>9, <2>1, <2>2, <2>3 DEF Held
  <1>13. ASSUME NEW d \in Clients PROVE AsSaid(hist'.said[d], hist'.chats[d])
    <2>1. AsSaid(hist.said[d], hist.chats[d])
      BY DEF FInv
    <2>2. CASE d # c
      BY <2>1, <2>2, <1>6, <1>8
    <2>3. CASE d = c
      <3>1. AsSaid(said, hist.chats[c])
        BY <2>1, <2>3 DEF said
      <3>2. AsSaid(t, hist.chats[c])
        BY <3>1, <1>4, <1>7, MoreSaid
      <3> QED BY <2>3, <3>2, <1>6, <1>8
    <2> QED BY <2>2, <2>3
  <1> QED BY <1>10, <1>11, <1>12, <1>13, <1>14 DEF FInv

\* The kernel takes the next bytes of the stream for the read (tcp_socket.cpp:308-316).
LEMMA KernelReadsFollows ==
    ASSUME CInv, FInv, NEW c \in Clients, KernelReads(c)
    PROVE  FInv'
  <1>0. /\ stream[c] \in Seq(Byte) /\ buffer[c] \in Seq(Byte) /\ sock[c] \in Socket
        /\ sock \in [Clients -> Socket] /\ stream \in [Clients -> Seq(Byte)]
    BY ByteTypes DEF CInv, ChatTypeOK
  <1>1. PICK n \in (IF stream[c] = <<>> THEN {0} ELSE 1..Len(stream[c])) :
            /\ sock' = [sock EXCEPT ![c].read = "done", ![c].got = SubSeq(stream[c], 1, n)]
            /\ stream' = [stream EXCEPT ![c] = SubSeq(@, n + 1, Len(@))]
    BY DEF KernelReads
  <1> DEFINE g == SubSeq(stream[c], 1, n)
             r == SubSeq(stream[c], n + 1, Len(stream[c]))
             s == [sock[c] EXCEPT !.read = "done", !.got = g]
  <1>2. n \in 0..Len(stream[c])
    BY <1>0
  <1>3. g \o r = stream[c]
    <2>1. /\ 1 \in 1..(Len(stream[c]) + 1) /\ n \in (1 - 1)..Len(stream[c])
          /\ Len(stream[c]) \in n..Len(stream[c])
      BY <1>0, <1>2
    <2>2. SubSeq(stream[c], 1, n) \o SubSeq(stream[c], n + 1, Len(stream[c]))
          = SubSeq(stream[c], 1, Len(stream[c]))
      BY <1>0, <2>1, ConcatAdjacentSubSeq
    <2> QED BY <1>0, <2>2, SubSeqFull
  <1>4. sock[c].got = <<>> /\ <<>> \o stream[c] = stream[c]
    <2>1. sock[c].got = <<>>
      BY DEF FInv, Ready, KernelReads
    <2> QED BY <2>1, <1>0, ConcatEmptySeq
  <1>5. sock' = [sock EXCEPT ![c] = s] /\ stream' = [stream EXCEPT ![c] = r]
    BY <1>1
  <1>6. /\ s.ended = sock[c].ended /\ s.answered = sock[c].answered
        /\ s.read = "done" /\ s.got = g
    BY <1>0 DEF Socket
  <1> HIDE DEF g, r, s
  <1>7. /\ sock'[c] = s /\ stream'[c] = r
        /\ \A d \in Clients : d # c => sock'[d] = sock[d] /\ stream'[d] = stream[d]
    BY <1>0, <1>5
  <1>8. UNCHANGED <<buffer, hist, event>>
    BY DEF KernelReads
  <1>9. ASSUME NEW d \in Clients
        PROVE  Bytes(d)' = Bytes(d) /\ sock'[d].ended = sock[d].ended /\ Ready(d)'
    <2>1. CASE d = c
      <3>1. Bytes(c)' = buffer[c] \o (g \o r) /\ Bytes(c) = buffer[c] \o (<<>> \o stream[c])
        BY <1>4, <1>6, <1>7, <1>8 DEF Bytes
      <3>2. Ready(c)'
        BY <1>6, <1>7 DEF FInv, Ready
      <3> QED BY <2>1, <3>1, <3>2, <1>3, <1>4, <1>6, <1>7
    <2>2. CASE d # c
      BY <2>2, <1>7, <1>8 DEF Bytes, FInv, Ready
    <2> QED BY <2>1, <2>2
  <1>10. SameArrays
    BY <1>8 DEF SameArrays
  <1> QED BY <1>8, <1>9, <1>10, StillKeeps

\* An event begins with a clear array (receiver.cpp:38).
LEMMA NewArray ==
    ASSUME NEW w \in Workers, NEW e, e.picked = <<>>, e.at # "corrupt", event' = [event EXCEPT ![w] = e],
           event \in [Workers -> Event]
    PROVE  SameArrays
  BY DEF SameArrays

\* io_received appends what was read to the buffer (socket_object.cpp:86-94).
LEMMA TakesDataFollows ==
    ASSUME CInv, FInv, NEW w \in Workers, NEW c \in Clients, TakesData(w, c)
    PROVE  FInv'
  <1> DEFINE b == buffer[c]
             g == sock[c].got
             r == stream[c]
             s == [sock[c] EXCEPT !.read = Reread(sock[c]), !.got = <<>>]
             e == [NoEvent EXCEPT !.at = "receive", !.from = c]
  <1>1. /\ b \in Seq(Byte) /\ g \in Seq(Byte) /\ r \in Seq(Byte) /\ sock[c] \in Socket
    BY ByteTypes
  <1>2. /\ sock \in [Clients -> Socket] /\ buffer \in [Clients -> Seq(Byte)]
        /\ event \in [Workers -> Event]
    BY DEF CInv, ChatTypeOK
  <1>3. /\ sock' = [sock EXCEPT ![c] = s] /\ event' = [event EXCEPT ![w] = e]
        /\ buffer' = [buffer EXCEPT ![c] = b \o g] /\ UNCHANGED <<stream, hist>>
    BY DEF TakesData
  <1>4. s.ended = sock[c].ended /\ s.answered = sock[c].answered /\ s.got = <<>>
    BY <1>1 DEF Socket
  <1>5. e.picked = <<>> /\ e.at # "corrupt"
    BY DEF NoEvent
  <1> HIDE DEF s, e
  <1>6. SameArrays
    BY <1>2, <1>3, <1>5, NewArray
  <1>7. /\ sock'[c] = s /\ buffer'[c] = b \o g
        /\ \A d \in Clients : d # c => sock'[d] = sock[d] /\ buffer'[d] = buffer[d]
    BY <1>2, <1>3
  <1>8. (b \o g) \o (<<>> \o r) = b \o (g \o r)
    <2> HIDE DEF b, g, r
    <2>1. <<>> \o r = r
      BY <1>1, ConcatEmptySeq
    <2>2. (b \o g) \o r = b \o (g \o r)
      BY <1>1, ConcatAssociative
    <2> QED BY <2>1, <2>2
  <1>9. ASSUME NEW d \in Clients
        PROVE  Bytes(d)' = Bytes(d) /\ sock'[d].ended = sock[d].ended /\ Ready(d)'
    <2>1. CASE d = c
      <3>1. Bytes(c)' = (b \o g) \o (<<>> \o r)
        BY <1>3, <1>4, <1>7 DEF Bytes
      <3>2. Ready(c)'
        BY <1>4, <1>7 DEF FInv, Ready
      <3> QED BY <2>1, <3>1, <3>2, <1>4, <1>7, <1>8 DEF Bytes
    <2>2. CASE d # c
      BY <2>2, <1>3, <1>7 DEF Bytes, FInv, Ready
    <2> QED BY <2>1, <2>2
  <1> QED BY <1>3, <1>6, <1>9, StillKeeps

\* io_shutdown, and the close event (socket_object.cpp:113-129).
LEMMA TakesEndFollows ==
    ASSUME CInv, FInv, NEW w \in Workers, NEW c \in Clients, TakesEnd(w, c)
    PROVE  FInv'
  <1> DEFINE s == [sock[c] EXCEPT !.read = "none", !.connected = FALSE]
             e == [NoEvent EXCEPT !.at = "close", !.from = c]
  <1>1. sock[c] \in Socket /\ event \in [Workers -> Event]
    BY DEF CInv, ChatTypeOK
  <1>2. /\ sock' = [sock EXCEPT ![c] = s] /\ event' = [event EXCEPT ![w] = e]
        /\ UNCHANGED <<stream, buffer, hist>> /\ sock[c].got = <<>>
    BY DEF TakesEnd
  <1>3. s.ended = sock[c].ended /\ s.answered = sock[c].answered /\ s.got = sock[c].got
    BY <1>1 DEF Socket
  <1>4. e.picked = <<>> /\ e.at # "corrupt"
    BY DEF NoEvent
  <1> HIDE DEF s, e
  <1>5. SameArrays
    BY <1>1, <1>2, <1>4, NewArray
  <1> QED BY <1>2, <1>3, <1>5, SocketStill

\* on_active: the first read, of which nothing is known yet (tcp_socket.cpp:260-279).
LEMMA OnActiveFollows ==
    ASSUME CInv, FInv, NEW w \in Workers, OnActive(w)
    PROVE  FInv'
  <1> DEFINE c == worker[w].peer
             s == [sock[c] EXCEPT !.connected = TRUE, !.read = Reread(sock[c]), !.ring = w]
  <1>1. PICK h \in Workers : AllAt(h)
    BY DEF CInv
  <1>2. c \in Clients /\ client[c] = "accepted"
    BY <1>1 DEF OnActive, Activates, AllAt, Handling, CInv, Stages, Activating
  <1>3. sock[c].read = "none"
    BY <1>2 DEF CInv, Stages, Reading
  <1>4. sock[c] \in Socket /\ sock[c].got = <<>>
    BY <1>2, <1>3 DEF CInv, ChatTypeOK, FInv, Ready
  <1>5. sock' = [sock EXCEPT ![c] = s] /\ UNCHANGED <<stream, buffer, event, hist>>
    BY DEF OnActive
  <1>6. s.ended = sock[c].ended /\ s.answered = sock[c].answered /\ s.got = sock[c].got
    BY <1>4 DEF Socket
  <1> HIDE DEF s, c
  <1>7. SameArrays
    BY <1>5 DEF SameArrays
  <1> QED BY <1>2, <1>4, <1>5, <1>6, <1>7, SocketStill

\* A worker whose event goes on or ends, while no socket changes.
LEMMA EventFollows ==
    ASSUME CInv, FInv, NEW w \in Workers,
           Breaks(w) \/ Repeats(w) \/ ChatLocks(w) \/ ChatUnlocks(w) \/ OnClose(w)
    PROVE  FInv'
  <1>1. event \in [Workers -> Event]
    BY DEF CInv, ChatTypeOK
  <1>2. UNCHANGED <<sock, stream, buffer, hist>>
    BY DEF Breaks, Repeats, ChatLocks, ChatUnlocks, OnClose
  <1>3. SameArrays
    <2>1. CASE Breaks(w) \/ OnClose(w)
      BY <2>1, <1>1 DEF SameArrays, Breaks, OnClose, NoEvent
    <2>2. CASE ChatLocks(w)
      BY <2>2, <1>1 DEF SameArrays, ChatLocks, Event
    <2>3. CASE ChatUnlocks(w)
      BY <2>3, <1>1 DEF SameArrays, ChatUnlocks, Event
    <2>4. CASE Repeats(w)
      BY <2>4, <1>1 DEF SameArrays, Repeats, Event
    <2> QED BY <2>1, <2>2, <2>3, <2>4
  <1> QED BY <1>2, <1>3, NoSocketKeeps

\* chat_all sends to one client after the other; close( graceful ); io_sent.
LEMMA SendsFollow ==
    ASSUME CInv, FInv,
           \/ \E w \in Workers : ChatSends(w)
           \/ \E w \in Workers, c \in Clients : Drains(w, c)
           \/ LeaveCloses
    PROVE  FInv'
  <1>1. /\ sock \in [Clients -> Socket] /\ event \in [Workers -> Event]
        /\ main.todo \subseteq Clients
    BY DEF CInv, ChatTypeOK
  <1>2. ASSUME NEW c \in Clients, NEW s \in Socket, sock' = [sock EXCEPT ![c] = s],
               s.read = sock[c].read, s.got = sock[c].got, s.ended = sock[c].ended,
               s.answered = sock[c].answered,
               SameArrays, UNCHANGED <<stream, buffer, hist>>
        PROVE  FInv'
    <2>1. s.read # "done" => s.got = <<>>
      BY <1>2 DEF FInv, Ready
    <2> QED BY <1>2, <2>1, SocketStill
  <1>3. ASSUME NEW w \in Workers, ChatSends(w) PROVE FInv'
    <2>1. PICK c \in event[w].todo :
              /\ event' = [event EXCEPT ![w].todo = @ \ {c}]
              /\ sock' = [sock EXCEPT ![c].unsent = @ \/ (sock[c].connected
                                                          /\ ~sock[c].graceful)]
      BY <1>3 DEF ChatSends
    <2> DEFINE s == [sock[c] EXCEPT !.unsent = sock[c].unsent \/ (sock[c].connected
                                                                 /\ ~sock[c].graceful)]
    <2>2. c \in Clients /\ sock[c] \in Socket
      BY <1>1 DEF Event
    <2>3. /\ s \in Socket /\ s.read = sock[c].read /\ s.got = sock[c].got
          /\ s.ended = sock[c].ended /\ s.answered = sock[c].answered
      BY <2>2 DEF Socket
    <2>4. sock' = [sock EXCEPT ![c] = s]
      BY <2>1
    <2>5. SameArrays
      BY <1>1, <2>1 DEF SameArrays, Event
    <2>6. UNCHANGED <<stream, buffer, hist>>
      BY <1>3 DEF ChatSends
    <2> HIDE DEF s
    <2> QED BY <1>2, <2>2, <2>3, <2>4, <2>5, <2>6
  <1>4. ASSUME NEW w \in Workers, NEW c \in Clients, Drains(w, c) PROVE FInv'
    <2> DEFINE s == [sock[c] EXCEPT !.unsent = FALSE,
                              !.asked = IF sock[c].graceful THEN sock[c].asked \cup {w}
                                       ELSE sock[c].asked]
    <2>1. sock[c] \in Socket
      BY <1>1
    <2>2. /\ s \in Socket /\ s.read = sock[c].read /\ s.got = sock[c].got
          /\ s.ended = sock[c].ended /\ s.answered = sock[c].answered
      BY <2>1 DEF Socket
    <2>3. sock' = [sock EXCEPT ![c] = s] /\ UNCHANGED <<stream, buffer, hist, event>>
      BY <1>4 DEF Drains
    <2>4. SameArrays
      BY <2>3 DEF SameArrays
    <2> HIDE DEF s
    <2> QED BY <1>2, <2>2, <2>3, <2>4
  <1>5. ASSUME LeaveCloses PROVE FInv'
    <2>1. PICK c \in main.todo, r \in Workers :
              sock' = [sock EXCEPT ![c].graceful = @ \/ sock[c].unsent,
                                   ![c].asked = IF sock[c].unsent THEN @ ELSE @ \cup {r}]
      BY <1>5 DEF LeaveCloses
    <2> DEFINE s == [sock[c] EXCEPT !.graceful = sock[c].graceful \/ sock[c].unsent,
                              !.asked = IF sock[c].unsent THEN sock[c].asked
                                       ELSE sock[c].asked \cup {r}]
    <2>2. c \in Clients /\ sock[c] \in Socket
      BY <1>1
    <2>3. /\ s \in Socket /\ s.read = sock[c].read /\ s.got = sock[c].got
          /\ s.ended = sock[c].ended /\ s.answered = sock[c].answered
      BY <2>2 DEF Socket
    <2>4. sock' = [sock EXCEPT ![c] = s]
      BY <2>1
    <2>5. UNCHANGED <<stream, buffer, hist, event>>
      BY <1>5 DEF LeaveCloses
    <2>6. SameArrays
      BY <2>5 DEF SameArrays
    <2> HIDE DEF s
    <2> QED BY <1>2, <2>2, <2>3, <2>4, <2>5, <2>6
  <1> QED BY <1>3, <1>4, <1>5

\* What on_receive does to its client's socket, but for what it asks of the kernel.
SameSockets ==
    \A c \in Clients : /\ sock'[c].ended = sock[c].ended /\ sock'[c].got = sock[c].got
                       /\ sock'[c].read = sock[c].read
                       /\ sock'[c].answered = sock[c].answered

\* on_receive pops the next of the frames that were sent (receiver.cpp:40-43).
LEMMA PopStep ==
    ASSUME CInv, FInv, NEW w \in Workers, InReceive(w), Whole(Said(w)), Pops(w),
           SameSockets, UNCHANGED stream,
           NEW c \in Clients, c = event[w].from
    PROVE  LET b == Said(w)
               k == Len(hist.chats[c])
               text == hist.said[c][k + 1]
           IN  /\ HasText(b) => /\ k + 1 \in 1..Len(hist.said[c])
                                /\ FrameLength(b) = 1 + Len(text)
                                /\ \A i \in 1..Len(text) : b[1 + i] = text[i]
               /\ ~HasText(b) => FrameLength(b) = 1
               /\ Framed(Bytes(c)', ~sock'[c].ended, hist.said[c],
                         IF HasText(b) THEN k + 1 ELSE k)
               /\ \A d \in Clients : /\ Ready(d)'
                                     /\ d # c => Bytes(d)' = Bytes(d)
  <1> DEFINE b == Said(w)
             r == sock[c].got \o stream[c]
             said == hist.said[c]
             k == Len(hist.chats[c])
             whole == ~sock[c].ended
             n == IF HasText(b) THEN k + 1 ELSE k
             rest == SubSeq(b, FrameLength(b) + 1, Len(b))
  <1>2. /\ b \in Seq(Byte) /\ r \in Seq(Byte) /\ said \in Seq(Seq(Byte)) /\ k \in Nat
        /\ whole \in BOOLEAN
    BY ByteTypes DEF Said
  <1>3. Framed(b \o r, whole, said, k)
    BY DEF FInv, OnTheWay, Bytes, Said
  <1>4. buffer \in [Clients -> Seq(Byte)] /\ buffer' = [buffer EXCEPT ![c] = rest]
    BY DEF CInv, ChatTypeOK, Pops, Said
  <1>5. buffer'[c] = rest /\ \A d \in Clients : d # c => buffer'[d] = buffer[d]
    BY <1>4
  <1>6. Bytes(c)' = rest \o r
    BY <1>5 DEF Bytes, SameSockets
  <1>7. ASSUME NEW d \in Clients PROVE Ready(d)' /\ (d # c => Bytes(d)' = Bytes(d))
    BY <1>5 DEF FInv, Ready, SameSockets, Bytes
  <1>8. sock'[c].ended = sock[c].ended
    BY DEF SameSockets
  <1>9. Whole(b)
    OBVIOUS
  <1> HIDE DEF b, r, said, k, whole
  <1>10. /\ HasText(b) => /\ k + 1 \in 1..Len(said)
                          /\ FrameLength(b) = 1 + Len(said[k + 1])
                          /\ \A i \in 1..Len(said[k + 1]) : b[1 + i] = said[k + 1][i]
         /\ ~HasText(b) => FrameLength(b) = 1
         /\ Framed(rest \o r, whole, said, n)
    BY <1>2, <1>3, <1>9, FramedPops
  <1> HIDE DEF rest, n
  <1>11. Framed(Bytes(c)', ~sock'[c].ended, said, n)
    BY <1>6, <1>8, <1>10 DEF whole
  <1> QED BY <1>7, <1>10, <1>11 DEF b, k, said, n

\* on_receive closes the client of an invalid packet (receiver.cpp:45-49).
LEMMA RefusesFollows ==
    ASSUME CInv, FInv, NEW w \in Workers, Refuses(w)
    PROVE  FInv'
  <1>2. PICK c \in Clients : c = event[w].from
    BY FrameIsThere DEF Refuses, NextIs
  <1> DEFINE s == [sock[c] EXCEPT !.asked = sock[c].asked \cup {w}]
             k == Len(hist.chats[c])
  <1>1. /\ InReceive(w) /\ Whole(Said(w)) /\ ~HasText(Said(w)) /\ Pops(w)
        /\ sock' = [sock EXCEPT ![c] = s] /\ UNCHANGED <<stream, hist>>
    BY <1>2 DEF Refuses, NextIs, HasText
  <1>3. sock[c] \in Socket /\ sock \in [Clients -> Socket] /\ event \in [Workers -> Event]
    BY <1>2 DEF CInv, ChatTypeOK
  <1>4. /\ s.ended = sock[c].ended /\ s.got = sock[c].got /\ s.read = sock[c].read
        /\ s.answered = sock[c].answered
    BY <1>3 DEF Socket
  <1> HIDE DEF s
  <1>5. SameSockets
    BY <1>1, <1>3, <1>4 DEF SameSockets
  <1>6. /\ Framed(Bytes(c)', ~sock'[c].ended, hist.said[c], k)
        /\ \A d \in Clients : Ready(d)' /\ (d # c => Bytes(d)' = Bytes(d))
    BY <1>1, <1>2, <1>5, PopStep
  <1>7. ASSUME NEW d \in Clients PROVE OnTheWay(d)'
    <2>1. CASE d = c
      BY <2>1, <1>1, <1>6 DEF OnTheWay
    <2>2. CASE d # c
      <3>1. Bytes(d)' = Bytes(d) /\ sock'[d].ended = sock[d].ended /\ hist' = hist
        BY <2>2, <1>1, <1>5, <1>6 DEF SameSockets
      <3> QED BY <3>1 DEF FInv, OnTheWay
    <2> QED BY <2>1, <2>2
  <1>8. ASSUME NEW v \in Workers PROVE Array(v)' /\ Held(v)'
    <2>1. event' = [event EXCEPT ![w] = NoEvent]
      BY DEF Refuses
    <2>2. event'[v] = NoEvent \/ event'[v] = event[v]
      BY <2>1, <1>3
    <2>3. CASE event'[v] = NoEvent
      BY <2>3 DEF Array, Held, NoEvent
    <2>4. CASE event'[v] = event[v]
      BY <2>4, <1>1 DEF FInv, Array, Held
    <2> QED BY <2>2, <2>3, <2>4
  <1>9. \A d \in Clients : AsSaid(hist'.said[d], hist'.chats[d])
    BY <1>1 DEF FInv
  <1> QED BY <1>6, <1>7, <1>8, <1>9 DEF FInv

\* What on_receive has in its array: the frame, and behind it what an earlier one left
\* (receiver.cpp:38-43, io_buffer.cpp:60-68).
LEMMA PickedIs ==
    ASSUME NEW old \in Seq(Byte), NEW b \in Seq(Byte), NEW n \in Nat \ {0}, n <= Len(b)
    PROVE  /\ Picked(old, b, n) \in Seq(Byte) /\ Picked(old, b, n) # <<>>
           /\ Len(Picked(old, b, n)) = IF Len(old) > n THEN Len(old) ELSE n
           /\ \A i \in 1..n : Picked(old, b, n)[i] = b[i]
  <1> DEFINE l == SubSeq(b, 1, n)
             r == SubSeq(old, n + 1, Len(old))
  <1>0. Len(old) \in Nat /\ Len(b) \in Nat
    OBVIOUS
  <1>1. l \in Seq(Byte) /\ Len(l) = n /\ \A i \in 1..n : l[i] = b[i]
    <2>1. l \in Seq(Byte)
      BY SequencePart
    <2> QED BY <2>1
  <1>2. r \in Seq(Byte) /\ Len(r) = IF Len(old) > n THEN Len(old) - n ELSE 0
    <2>1. r \in Seq(Byte)
      BY SequencePart
    <2> QED BY <2>1
  <1>3. Picked(old, b, n) = l \o r
    BY DEF Picked
  <1> HIDE DEF l, r
  <1>4. /\ Len(l \o r) = Len(l) + Len(r)
        /\ \A i \in 1..Len(l) : (l \o r)[i] = l[i]
    BY <1>1, <1>2, Joined
  <1>5. Picked(old, b, n) \in Seq(Byte) /\ Picked(old, b, n) # <<>>
    BY PickedType
  <1>6. Len(l) + Len(r) = IF Len(old) > n THEN Len(old) ELSE n
    BY <1>0, <1>1, <1>2
  <1> QED BY <1>1, <1>3, <1>4, <1>5, <1>6

\* An array that holds more than a header is not empty (receiver.cpp:38).
LEMMA LongerThanOne ==
    ASSUME NEW s \in Seq(Byte), Len(s) > 1
    PROVE  s # <<>> /\ Len(s) # 1
  <1>1. s = <<>> => Len(s) = 0
    BY EmptySeq
  <1>2. Len(s) \in Nat
    OBVIOUS
  <1>3. \A n \in Nat : n > 1 => ~(n = 0) /\ ~(n = 1)
    OBVIOUS
  <1>4. ~(Len(s) = 0) /\ ~(Len(s) = 1)
    BY <1>2, <1>3
  <1> QED BY <1>1, <1>4

\* on_receive passes over a request without a text, of which the array keeps the header
\* (receiver.cpp:40-54).
LEMMA SkipsFollows ==
    ASSUME CInv, FInv, NEW w \in Workers, Skips(w)
    PROVE  FInv'
  <1>c. PICK c \in Clients : c = event[w].from
    BY FrameIsThere DEF Skips, NextIs
  <1> DEFINE b == Said(w)
             old == event[w].picked
             p == Reads(w)
             k == Len(hist.chats[c])
  <1>1. /\ InReceive(w) /\ Whole(Said(w)) /\ ~HasText(Said(w)) /\ Pops(w)
        /\ event' = [event EXCEPT ![w].picked = p] /\ UNCHANGED <<sock, stream, hist>>
    BY DEF Skips, NextIs, HasText
  <1>2. event[w] \in Event /\ old \in Seq(Byte) /\ event \in [Workers -> Event]
    BY DEF CInv, ChatTypeOK, Event
  <1>3. SameSockets
    BY <1>1 DEF SameSockets
  <1>4. /\ FrameLength(b) = 1
        /\ Framed(Bytes(c)', ~sock'[c].ended, hist.said[c], k)
        /\ \A d \in Clients : Ready(d)' /\ (d # c => Bytes(d)' = Bytes(d))
    BY <1>1, <1>c, <1>3, PopStep
  <1>5. Len(p) = 1 \/ (old # <<>> /\ Len(p) = Len(old))
    <2>1. b \in Seq(Byte) /\ 1 <= Len(b)
      BY <1>1, <1>4, FrameIsThere
    <2>2. Len(Picked(old, b, 1)) = IF Len(old) > 1 THEN Len(old) ELSE 1
      BY <1>2, <2>1, PickedIs
    <2>3. Len(p) = Len(Picked(old, b, 1))
      BY <1>4 DEF Reads
    <2>4. Len(old) > 1 => old # <<>>
      BY EmptySeq
    <2> HIDE DEF p
    <2> QED BY <2>2, <2>3, <2>4
  <1>6. ASSUME NEW d \in Clients PROVE OnTheWay(d)'
    <2>1. CASE d = c
      BY <2>1, <1>1, <1>4 DEF OnTheWay
    <2>2. CASE d # c
      BY <2>2, <1>1, <1>4 DEF FInv, OnTheWay
    <2> QED BY <2>1, <2>2
  <1>7. ASSUME NEW v \in Workers PROVE Array(v)' /\ Held(v)'
    <2>1. CASE v = w
      <3>1. /\ event'[w].picked = p /\ event'[w].from = c /\ event'[w].at = event[w].at
            /\ event[w].at # "corrupt"
        BY <1>1, <1>2, <1>c DEF Event, InReceive
      <3> HIDE DEF p
      <3> QED BY <2>1, <3>1, <1>1, <1>5, <1>c DEF FInv, Array, Held
    <2>2. CASE v # w
      <3>1. event'[v] = event[v]
        BY <2>2, <1>1, <1>2
      <3> QED BY <3>1, <1>1 DEF FInv, Array, Held
    <2> QED BY <2>1, <2>2
  <1>8. \A d \in Clients : AsSaid(hist'.said[d], hist'.chats[d])
    BY <1>1 DEF FInv
  <1> QED BY <1>4, <1>6, <1>7, <1>8 DEF FInv

\* An array is overrun by a text that its client has sent, not by what is behind it in
\* the array (receiver.cpp:38-42, client.cpp:19-29).
LEMMA OverrunsFollows ==
    ASSUME CInv, FInv, NEW w \in Workers, Overruns(w)
    PROVE  FInv'
  <1>c. PICK c \in Clients : c = event[w].from
    BY FrameIsThere DEF Overruns
  <1> DEFINE b == Said(w)
             r == sock[c].got \o stream[c]
             old == event[w].picked
             said == hist.said[c]
             k == Len(hist.chats[c])
             whole == ~sock[c].ended
  <1>1. /\ InReceive(w) /\ Whole(b)
        /\ \/ b[1][2] > ReceiveRoom
           \/ Kind(b) = "chat" /\ b[1][2] > 0 /\ ~ChatFits(Reads(w))
        /\ event' = [event EXCEPT ![w].at = "corrupt"]
        /\ UNCHANGED <<sock, stream, buffer, hist>>
    BY DEF Overruns
  <1>2. event[w] \in Event /\ old \in Seq(Byte) /\ event \in [Workers -> Event]
    BY DEF CInv, ChatTypeOK, Event
  <1>3. /\ b \in Seq(Byte) /\ r \in Seq(Byte) /\ said \in Seq(Seq(Byte)) /\ k \in Nat
        /\ whole \in BOOLEAN
    BY <1>c, ByteTypes DEF Said
  <1>4. Framed(b \o r, whole, said, k)
    BY <1>c DEF FInv, OnTheWay, Bytes, Said
  <1>5. FrameLength(b) \in Nat \ {0} /\ FrameLength(b) <= Len(b)
    BY <1>1, FrameIsThere
  <1>6. ReceiveRoom \in Nat /\ ChatRoom \in Nat /\ ChatRoom <= ReceiveRoom
    BY ChatServerAssumption
  <1>7. Reads(w) = Picked(old, b, FrameLength(b))
    BY DEF Reads
  <1>8. k <= Len(said)
    BY <1>c DEF FInv, AsSaid
  <1>9. /\ FrameLength(b) = 1 + b[1][2] /\ b[1][2] \in Nat
    <2>1. b[1] \in Byte
      BY <1>1, <1>3 DEF Whole
    <2> QED BY <2>1 DEF FrameLength, Byte
  <1>10. old # <<>> /\ Len(old) # 1 =>
             \E m \in 1..k : Len(old) = 1 + Len(said[m])
    BY <1>c DEF FInv, Array
  <1> HIDE DEF b, r, old, said, k, whole
  <1>11. /\ HasText(b) => k + 1 \in 1..Len(said) /\ FrameLength(b) = 1 + Len(said[k + 1])
         /\ ~HasText(b) => FrameLength(b) = 1
    BY <1>1, <1>3, <1>4, FramedPops
  <1>12. HasText(b)
    <2>1. CASE b[1][2] > ReceiveRoom
      BY <2>1, <1>6, <1>9, <1>11
    <2>2. CASE Kind(b) = "chat" /\ b[1][2] > 0
      BY <2>2 DEF HasText
    <2> QED BY <2>1, <2>2, <1>1
  <1>13. \E i \in 1..Len(said) : Len(said[i]) > ChatRoom
    <2>1. k + 1 \in 1..Len(said) /\ Len(said[k + 1]) = b[1][2]
      <3>1. k + 1 \in 1..Len(said) /\ 1 + b[1][2] = 1 + Len(said[k + 1])
        BY <1>9, <1>11, <1>12
      <3>2. Len(said[k + 1]) \in Nat
        BY <3>1, <1>3
      <3> QED BY <3>1, <3>2, <1>9
    <2>2. CASE b[1][2] > ReceiveRoom
      <3>1. Len(said[k + 1]) > ChatRoom
        BY <2>1, <2>2, <1>6, <1>9
      <3> QED BY <2>1, <3>1
    <2>3. CASE ~ChatFits(Reads(w))
      <3> DEFINE L == FrameLength(b)
                 x == Len(Picked(old, b, L))
      <3>1. x = IF Len(old) > L THEN Len(old) ELSE L
        BY <1>2, <1>3, <1>5, PickedIs DEF old
      <3>2. ~(x - 1 <= ChatRoom) /\ Len(old) \in Nat /\ L \in Nat \ {0}
        BY <2>3, <1>2, <1>5, <1>7 DEF ChatFits, old
      <3>3. CASE Len(old) > L
        <4>1. old # <<>> /\ Len(old) # 1
          <5> HIDE DEF x, L
          <5>1. old \in Seq(Byte) /\ Len(old) > 1
            BY <1>2, <3>2, <3>3 DEF old
          <5> QED BY <5>1, LongerThanOne
        <4>2. PICK m \in 1..k : Len(old) = 1 + Len(said[m])
          BY <4>1, <1>10
        <4>3. m \in 1..Len(said) /\ Len(said[m]) \in Nat
          BY <1>3, <1>8
        <4> HIDE DEF x, L
        <4>4. Len(said[m]) > ChatRoom
          BY <3>1, <3>2, <3>3, <4>2, <4>3, <1>6
        <4> QED BY <4>3, <4>4
      <3>4. CASE ~(Len(old) > L)
        <4>1. x = 1 + b[1][2]
          BY <3>1, <3>4, <1>9
        <4> HIDE DEF x, L
        <4>2. Len(said[k + 1]) > ChatRoom
          BY <2>1, <3>2, <4>1, <1>6, <1>9
        <4> QED BY <2>1, <4>2
      <3> QED BY <3>3, <3>4
    <2> QED BY <2>2, <2>3, <1>1
  <1>14. ASSUME NEW d \in Clients PROVE OnTheWay(d)' /\ Ready(d)'
    BY <1>1 DEF FInv, OnTheWay, Ready, Bytes
  <1>15. ASSUME NEW v \in Workers PROVE Array(v)' /\ Held(v)'
    <2>1. CASE v = w
      <3>1. event'[w].picked = event[w].picked /\ event'[w].from = event[w].from
        BY <1>1, <1>2 DEF Event
      <3>2. Array(w)'
        BY <3>1, <1>1 DEF FInv, Array
      <3>3. Held(w)'
        BY <3>1, <1>1, <1>c, <1>13 DEF Held, said
      <3> QED BY <2>1, <3>2, <3>3
    <2>2. CASE v # w
      <3>1. event'[v] = event[v]
        BY <2>2, <1>1, <1>2
      <3> QED BY <3>1, <1>1 DEF FInv, Array, Held
    <2> QED BY <2>1, <2>2
  <1>16. \A d \in Clients : AsSaid(hist'.said[d], hist'.chats[d])
    BY <1>1 DEF FInv
  <1> QED BY <1>14, <1>15, <1>16 DEF FInv

\* client::chat is given one text more, with what an earlier, longer one left behind it.
LEMMA ChattedAsSaid ==
    ASSUME NEW said \in Seq(Seq(Byte)), NEW chats \in Seq(Seq(Byte)), AsSaid(said, chats),
           Len(chats) + 1 <= Len(said), NEW chat \in Seq(Byte),
           Len(chat) >= Len(said[Len(chats) + 1]),
           \A i \in 1..Len(said[Len(chats) + 1]) : chat[i] = said[Len(chats) + 1][i],
           \/ Len(chat) = Len(said[Len(chats) + 1])
           \/ \E m \in 1..Len(chats) : Len(said[m]) = Len(chat)
    PROVE  AsSaid(said, Append(chats, chat))
  <1> DEFINE k == Len(chats)
             t == said[k + 1]
             new == Append(chats, chat)
  <1>1. k \in Nat /\ Len(said) \in Nat /\ k + 1 \in 1..Len(said) /\ Len(chat) \in Nat
    OBVIOUS
  <1>2. t \in Seq(Byte) /\ Len(t) \in Nat
    BY <1>1
  <1>3. /\ new \in Seq(Seq(Byte)) /\ Len(new) = k + 1 /\ DOMAIN new = 1..(k + 1)
        /\ new[k + 1] = chat /\ \A i \in 1..k : new[i] = chats[i]
    <2>1. /\ new \in Seq(Seq(Byte)) /\ Len(new) = k + 1
          /\ new[k + 1] = chat /\ \A i \in 1..k : new[i] = chats[i]
      BY AppendProperties
    <2> QED BY <2>1
  <1>4. SubSeq(chat, 1, Len(t)) = t
    <2> DEFINE p == SubSeq(chat, 1, Len(t))
    <2>1. p \in Seq(Byte)
      BY <1>2, SequencePart
    <2>2. Len(p) = Len(t)
      BY <1>1, <1>2
    <2>3. \A i \in 1..Len(p) : p[i] = t[i]
      BY <1>1, <1>2, <2>2
    <2>4. t \in Seq(Byte)
      BY <1>2
    <2> HIDE DEF p, t
    <2>5. p = t
      BY <2>1, <2>2, <2>3, <2>4, SeqEqual
    <2> QED BY <2>5 DEF p
  <1>5. \/ Len(chat) = Len(t)
        \/ \E j \in 1..((k + 1) - 1) : Len(said[j]) > Len(t)
    <2>1. CASE Len(chat) # Len(t)
      <3>1. PICK m \in 1..k : Len(said[m]) = Len(chat)
        BY <2>1
      <3>2. m \in 1..((k + 1) - 1) /\ Len(said[m]) > Len(t)
        BY <2>1, <3>1, <1>1, <1>2
      <3> QED BY <3>2
    <2> QED BY <2>1
  <1>6. ASSUME NEW i \in DOMAIN new
        PROVE  /\ Len(new[i]) >= Len(said[i])
               /\ SubSeq(new[i], 1, Len(said[i])) = said[i]
               /\ \/ Len(new[i]) = Len(said[i])
                  \/ \E j \in 1..(i - 1) : Len(said[j]) > Len(said[i])
    <2>1. CASE i = k + 1
      BY <2>1, <1>3, <1>4, <1>5
    <2>2. CASE i # k + 1
      <3>1. i \in DOMAIN chats /\ new[i] = chats[i]
        BY <2>2, <1>1, <1>3
      <3> QED BY <3>1 DEF AsSaid
    <2> QED BY <2>1, <2>2
  <1>7. Len(new) <= Len(said)
    BY <1>1, <1>3
  <1> QED BY <1>6, <1>7 DEF AsSaid

\* on_receive hands a packet to client::chat (receiver.cpp:51-56).
LEMMA ChatsFollows ==
    ASSUME CInv, FInv, NEW w \in Workers, Chats(w)
    PROVE  FInv'
  <1>c. PICK c \in Clients : c = event[w].from
    BY FrameIsThere DEF Chats, NextIs
  <1> DEFINE b == Said(w)
             old == event[w].picked
             L == FrameLength(b)
             p == Reads(w)
             said == hist.said[c]
             chats == hist.chats[c]
             k == Len(chats)
             text == said[k + 1]
  <1>1. /\ InReceive(w) /\ Whole(Said(w)) /\ HasText(Said(w)) /\ Pops(w)
        /\ event' = [event EXCEPT ![w].at = "chat", ![w].picked = p]
        /\ hist' = [hist EXCEPT !.chats[c] = Append(@, Tail(p))]
        /\ UNCHANGED <<sock, stream>>
    BY <1>c DEF Chats, NextIs, HasText
  <1>2. /\ c \in Clients /\ b \in Seq(Byte) /\ L \in Nat \ {0} /\ L <= Len(b)
    BY <1>1, FrameIsThere
  <1>3. said \in Seq(Seq(Byte)) /\ chats \in Seq(Seq(Byte)) /\ k \in Nat
    BY <1>2, ByteTypes
  <1>4. event[w] \in Event /\ old \in Seq(Byte) /\ event \in [Workers -> Event]
    BY DEF CInv, ChatTypeOK, Event
  <1>5. /\ k + 1 \in 1..Len(said) /\ L = 1 + Len(text)
        /\ \A i \in 1..Len(text) : b[1 + i] = text[i]
        /\ Framed(Bytes(c)', ~sock'[c].ended, said, k + 1)
        /\ \A d \in Clients : Ready(d)' /\ (d # c => Bytes(d)' = Bytes(d))
    <2>1. SameSockets
      BY <1>1 DEF SameSockets
    <2> QED BY <1>1, <1>c, <2>1, PopStep
  <1>6. text \in Seq(Byte) /\ Len(text) \in Nat
    BY <1>3, <1>5
  <1>7. /\ p \in Seq(Byte) /\ p # <<>>
        /\ Len(p) = IF Len(old) > L THEN Len(old) ELSE L
        /\ \A i \in 1..L : p[i] = b[i]
    BY <1>2, <1>4, PickedIs DEF Reads
  <1> DEFINE chat == Tail(p)
             new == Append(chats, chat)
  <1>8. /\ hist'.said = hist.said
        /\ hist'.chats[c] = new
        /\ \A d \in Clients : d # c => hist'.chats[d] = hist.chats[d]
    BY <1>1, <1>2 DEF CInv, ChatTypeOK
  <1>9. /\ event'[w].picked = p /\ event'[w].from = c /\ event'[w].at = "chat"
        /\ \A v \in Workers : v # w => event'[v] = event[v]
    BY <1>1, <1>4, <1>c DEF Event
  <1> HIDE DEF p, L, b, text
  <1>10. chat \in Seq(Byte) /\ Len(chat) = Len(p) - 1
         /\ \A i \in 1..Len(chat) : chat[i] = p[i + 1]
    BY <1>7, HeadTailProperties
  <1>11. Len(p) \in Nat /\ Len(old) \in Nat
    BY <1>4, <1>7
  <1> HIDE DEF chat
  <1>12. Len(old) > L => \E m \in 1..k : Len(old) = 1 + Len(said[m])
    <2> SUFFICES ASSUME Len(old) > L PROVE \E m \in 1..k : Len(old) = 1 + Len(said[m])
        OBVIOUS
    <2>1. old # <<>> /\ Len(old) # 1
      <3>1. L \in Nat \ {0} /\ old \in Seq(Byte)
        BY <1>2, <1>4
      <3> HIDE DEF old
      <3>2. Len(old) > 1
        BY <3>1, <1>11
      <3> QED BY <3>1, <3>2, LongerThanOne
    <2> QED BY <2>1, <1>c DEF FInv, Array
  <1>13. AsSaid(said, new)
    <2>1. AsSaid(said, chats)
      BY <1>2 DEF FInv
    <2>2. Len(chat) >= Len(text)
      BY <1>5, <1>6, <1>7, <1>10, <1>11
    <2>3. \A i \in 1..Len(text) : chat[i] = text[i]
      <3> TAKE i \in 1..Len(text)
      <3>1. i \in 1..Len(chat) /\ i + 1 \in 1..L /\ i + 1 = 1 + i
        BY <2>2, <1>5, <1>6, <1>10, <1>11
      <3> QED BY <3>1, <1>5, <1>7, <1>10
    <2>4. Len(chat) = Len(text) \/ \E m \in 1..k : Len(said[m]) = Len(chat)
      <3>1. CASE Len(old) > L
        <4>1. PICK m \in 1..k : Len(old) = 1 + Len(said[m])
          BY <3>1, <1>12
        <4>2. m \in 1..Len(said)
          BY <1>3, <1>5
        <4>3. Len(said[m]) \in Nat
          BY <4>2, <1>3
        <4>4. Len(said[m]) = Len(chat)
          BY <3>1, <4>1, <4>3, <1>7, <1>10, <1>11
        <4> QED BY <4>4
      <3>2. CASE ~(Len(old) > L)
        BY <3>2, <1>5, <1>6, <1>7, <1>10, <1>11
      <3> QED BY <3>1, <3>2
    <2>5. Len(chats) + 1 <= Len(said)
      BY <1>3, <1>5
    <2> QED BY <2>1, <2>2, <2>3, <2>4, <2>5, <1>3, <1>10, ChattedAsSaid DEF text
  <1>14. Len(new) = k + 1
    BY <1>3, <1>10, AppendProperties
  <1>15. ASSUME NEW d \in Clients PROVE OnTheWay(d)'
    <2>1. CASE d = c
      BY <2>1, <1>5, <1>8, <1>14 DEF OnTheWay
    <2>2. CASE d # c
      <3>1. /\ Bytes(d)' = Bytes(d) /\ sock' = sock
            /\ hist'.said = hist.said /\ hist'.chats[d] = hist.chats[d]
        BY <2>2, <1>1, <1>5, <1>8
      <3> QED BY <3>1 DEF FInv, OnTheWay
    <2> QED BY <2>1, <2>2
  <1>16. ASSUME NEW v \in Workers PROVE Array(v)'
    <2>1. CASE v = w
      <3>1. \E m \in 1..(k + 1) : Len(p) = 1 + Len(said[m])
        <4>1. CASE Len(old) > L
          <5>1. PICK m \in 1..k : Len(old) = 1 + Len(said[m])
            BY <4>1, <1>12
          <5>2. m \in 1..(k + 1) /\ Len(p) = 1 + Len(said[m])
            BY <4>1, <5>1, <1>3, <1>7
          <5> QED BY <5>2
        <4>2. CASE ~(Len(old) > L)
          <5>1. Len(p) = 1 + Len(said[k + 1]) /\ k + 1 \in 1..(k + 1)
            BY <4>2, <1>3, <1>5, <1>7 DEF text
          <5> QED BY <5>1
        <4> QED BY <4>1, <4>2
      <3> QED BY <2>1, <3>1, <1>2, <1>8, <1>9, <1>14 DEF Array
    <2>2. CASE v # w
      <3> SUFFICES ASSUME event[v].picked # <<>> PROVE Array(v)'
          BY <2>2, <1>9 DEF Array
      <3> DEFINE f == event[v].from
      <3>1. f \in Clients /\ event'[v] = event[v]
        BY <2>2, <1>9 DEF FInv, Array
      <3>a. CASE Len(event[v].picked) = 1
        BY <3>1, <3>a DEF Array
      <3> SUFFICES ASSUME Len(event[v].picked) # 1 PROVE Array(v)'
          BY <3>a
      <3>2. PICK m \in 1..Len(hist.chats[f]) :
                Len(event[v].picked) = 1 + Len(hist.said[f][m])
        BY DEF FInv, Array
      <3>3. m \in 1..Len(hist'.chats[f])
        <4>1. CASE f = c
          BY <4>1, <3>2, <1>3, <1>8, <1>14
        <4>2. CASE f # c
          BY <4>2, <3>1, <3>2, <1>8
        <4> QED BY <4>1, <4>2
      <3> QED BY <3>1, <3>2, <3>3, <1>8 DEF Array
    <2> QED BY <2>1, <2>2
  <1>18. ASSUME NEW v \in Workers PROVE Held(v)'
    <2>1. CASE v = w
      BY <2>1, <1>9 DEF Held
    <2>2. CASE v # w
      BY <2>2, <1>8, <1>9 DEF FInv, Held
    <2> QED BY <2>1, <2>2
  <1>17. ASSUME NEW d \in Clients PROVE AsSaid(hist'.said[d], hist'.chats[d])
    <2>1. CASE d = c
      BY <2>1, <1>8, <1>13
    <2>2. CASE d # c
      BY <2>2, <1>8 DEF FInv
    <2> QED BY <2>1, <2>2
  <1> QED BY <1>5, <1>15, <1>16, <1>17, <1>18 DEF FInv

\* Every step of the chat server leaves the frames in order.
LEMMA FramesFollow ==
    ASSUME CInv, FInv, ChatNext
    PROVE  FInv'
  <1>0. ASSUME UNCHANGED <<sock, stream, buffer, event, hist>> PROVE FInv'
    BY <1>0, NoSocketKeeps DEF SameArrays
  <1>1. CASE \E c \in Clients : \/ c \in case.who /\ Connects(c) /\ UNCHANGED chatvars
                                \/ Says(c) \/ Leaves(c)
                                \/ KernelReads(c) \/ KernelShuts(c)
                                \/ \E w \in Workers : Drains(w, c)
    <2>1. PICK c \in Clients : \/ c \in case.who /\ Connects(c) /\ UNCHANGED chatvars
                               \/ Says(c) \/ Leaves(c)
                               \/ KernelReads(c) \/ KernelShuts(c)
                               \/ \E w \in Workers : Drains(w, c)
      BY <1>1
    <2>2. CASE c \in case.who /\ Connects(c) /\ UNCHANGED chatvars
      BY <2>2, <1>0 DEF chatvars
    <2> QED BY <2>1, <2>2, SaysFollows, LeavesFollows, KernelReadsFollows, SendsFollow
  <1>2. CASE (Kernel \/ (case.fails /\ KernelFails)) /\ UNCHANGED chatvars
    BY <1>2, <1>0 DEF chatvars
  <1>3. ASSUME NEW w \in Workers, Serves(w) PROVE FInv'
    <2>1. CASE OnActive(w)
      BY <2>1, OnActiveFollows
    <2>2. CASE OnAccept(w)
      BY <2>2, <1>0 DEF OnAccept
    <2>3. CASE UNCHANGED chatvars
      BY <2>3, <1>0 DEF chatvars
    <2> QED BY <1>3, <2>1, <2>2, <2>3 DEF Serves
  <1>4. ASSUME NEW w \in Workers, Events(w) PROVE FInv'
    BY <1>4, TakesDataFollows, TakesEndFollows, TakesShutFollows, EventFollows,
       OverrunsFollows, RefusesFollows, SkipsFollows, ChatsFollows, SendsFollow DEF Events
  <1>5. CASE Interrupted \/ MainSteps
    <2>1. CASE LeaveCloses
      BY <2>1, SendsFollow
    <2>2. CASE Interrupted \/ LeaveLocks \/ LeaveUnlocks \/ WaitEnds \/ ServerStops
      BY <2>2, <1>0 DEF Interrupted, LeaveLocks, LeaveUnlocks, WaitEnds, ServerStops
    <2> QED BY <1>5, <2>1, <2>2 DEF MainSteps
  <1> QED BY <1>1, <1>2, <1>3, <1>4, <1>5 DEF ChatNext

\* Where a peer's frames are, and what the arrays hold, at every step of the program.
THEOREM FrameInvariance == ChatSpec => []FInv
  <1>2. CInv /\ FInv /\ [ChatNext]_allvars => FInv'
    <2> SUFFICES ASSUME CInv, FInv, [ChatNext]_allvars PROVE FInv'
        OBVIOUS
    <2>1. CASE UNCHANGED allvars
      <3>1. UNCHANGED <<sock, stream, buffer, event, hist>>
        BY <2>1 DEF allvars, chatvars
      <3> QED BY <3>1, NoSocketKeeps DEF SameArrays
    <2> QED BY <2>1, FramesFollow
  <1> QED BY <1>2, FramesBegin, ChatInvariance, PTL DEF ChatSpec

\* However a peer's frames are cut on their way, whoever reads them and whenever its
\* socket is shut down or closed: the texts among them that are handed to client::chat are
\* the first ones said, in their order, each in front of what an earlier one left; a frame
\* without a text, a size of 0 or a text too long for an array adds none.
THEOREM ChatsInOrder == ChatSpec => []ChatsAsSaid
  <1>1. FInv => ChatsAsSaid
    BY DEF FInv, AsSaid, ChatsAsSaid
  <1> QED BY <1>1, FrameInvariance, PTL

\* The arrays of receiver.cpp:38 and client.cpp:19 are overrun only for a client that has
\* sent a text longer than client::chat has room for: while all texts are within its
\* 996 bytes, no cut and no leftover of an earlier frame overruns them.
THEOREM ArraysOverrunByLongTexts == ChatSpec => []ArraysHold
  <1>1. FInv => ArraysHold
    <2> SUFFICES ASSUME FInv, NEW w \in Workers, event[w].at = "corrupt"
                 PROVE  \E i \in DOMAIN hist.said[event[w].from] :
                            Len(hist.said[event[w].from][i]) > ChatRoom
        BY DEF ArraysHold
    <2>1. /\ event[w].from \in Clients
          /\ \E i \in 1..Len(hist.said[event[w].from]) :
                Len(hist.said[event[w].from][i]) > ChatRoom
      BY DEF FInv, Held
    <2> QED BY <2>1 DEF FInv, Held
  <1> QED BY <1>1, FrameInvariance, PTL
=============================================================================
