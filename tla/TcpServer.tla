----------------------------- MODULE TcpServer ------------------------------
(***************************************************************************)
(* tcp_server on Linux (tcp_server.cpp) with the accept and shutdown cases *)
(* of io_service::io: one accept request at a time, whose handler wraps    *)
(* the new connection in a tcp_socket, reports it, submits the next accept *)
(* and only then activates the socket.  stop() submits a shutdown request, *)
(* to the caller's ring or to a random one.                                *)
(***************************************************************************)
EXTENDS Integers, Sequences, FiniteSets

CONSTANTS
    Workers,    \* the workers of the io_service, one ring each
    NoWorker,
    Clients,    \* the peers that connect, one connection each
    NoClient,
    MaxStops    \* bound: calls of stop()

ASSUME TcpServerAssumption ==
    /\ Workers # {} /\ NoWorker \notin Workers
    /\ NoClient \notin Clients
    /\ MaxStops \in Nat

VARIABLES
    server_socket,  \* the member: a descriptor, 0 once stopped
    addr6,          \* the member accept() writes the peer's address to
    listener,       \* the kernel's listening socket: open, deaf, and its backlog
    accept,         \* the accept request, see Accept
    shutdowns,      \* the shutdown requests: a sequence of records
    worker,         \* what each worker does
    client,         \* how far each connection is
    stops,          \* calls of stop() so far
    log             \* history

vars == <<server_socket, addr6, listener, accept, shutdowns, worker, client, stops, log>>

ServerFd == 1
Stdin == 0

\* The accept request: "pending" in the kernel, "done" in the completion queue of
\* its ring, "none" while a handler is about to submit the next one, or for good.
NoAccept == [st |-> "none", ring |-> NoWorker, fd |-> Stdin, got |-> NoClient]

Idle == [at |-> "wait", peer |-> NoClient, addr |-> NoClient, fd |-> Stdin]

\* run() from a thread that is no worker, up to submit_accept().
Init ==
    /\ server_socket = ServerFd
    /\ addr6 = NoClient
    /\ listener = [open |-> TRUE, deaf |-> FALSE, backlog |-> <<>>]
    /\ \E r \in Workers :
          accept = [st |-> "pending", ring |-> r, fd |-> ServerFd, got |-> NoClient]
    /\ shutdowns = <<>>
    /\ worker = [w \in Workers |-> Idle]
    /\ client = [c \in Clients |-> "away"]
    /\ stops = 0
    /\ log = [failed |-> FALSE, closed |-> <<>>, reported |-> <<>>, remote |-> <<>>]

-----------------------------------------------------------------------------
(* The clients and the kernel.                                             *)

Connects(c) ==
    /\ client[c] = "away" /\ listener.open /\ ~listener.deaf
    /\ client' = [client EXCEPT ![c] = "queued"]
    /\ listener' = [listener EXCEPT !.backlog = Append(@, c)]
    /\ UNCHANGED <<server_socket, addr6, accept, shutdowns, worker, stops, log>>

\* The kernel takes the descriptor and the address at the same time.
KernelAccepts ==
    /\ accept.st = "pending" /\ accept.fd = ServerFd
    /\ ~listener.deaf /\ listener.backlog # <<>>
    /\ accept' = [accept EXCEPT !.st = "done", !.got = Head(listener.backlog)]
    /\ addr6' = Head(listener.backlog)
    /\ listener' = [listener EXCEPT !.backlog = Tail(@)]
    /\ client' = [client EXCEPT ![Head(listener.backlog)] = "accepted"]
    /\ UNCHANGED <<server_socket, shutdowns, worker, stops, log>>

\* No descriptors left, the connection was aborted, ...
KernelFails ==
    /\ accept.st = "pending" /\ accept.fd = ServerFd
    /\ ~listener.deaf /\ listener.backlog # <<>>
    /\ accept' = [accept EXCEPT !.st = "done"]
    /\ log' = [log EXCEPT !.failed = TRUE]
    /\ UNCHANGED <<server_socket, addr6, listener, shutdowns, worker, client, stops>>

\* Not, or no longer, a listening socket.
KernelRefuses ==
    /\ accept.st = "pending"
    /\ accept.fd # ServerFd \/ listener.deaf
    /\ accept' = [accept EXCEPT !.st = "done"]
    /\ UNCHANGED <<server_socket, addr6, listener, shutdowns, worker, client, stops, log>>

\* SHUT_RD: accept() no longer waits.  On a descriptor that is no socket: an error.
KernelShutsDown(i) ==
    /\ shutdowns[i].st = "pending"
    /\ listener' = IF shutdowns[i].fd = ServerFd THEN [listener EXCEPT !.deaf = TRUE]
                   ELSE listener
    /\ shutdowns' = [shutdowns EXCEPT ![i].st = "done"]
    /\ UNCHANGED <<server_socket, addr6, accept, worker, client, stops, log>>

-----------------------------------------------------------------------------
(* A worker and the accept completion.                                     *)

\* What set_remote_info copies into the new socket: whatever addr6 holds by then.
RemoteInfo == addr6

\* cqe->res > 0: io_accepting, create() and set_remote_info().
Accepts(w) ==
    /\ worker[w].at = "wait"
    /\ accept.st = "done" /\ accept.ring = w /\ accept.got # NoClient
    /\ worker' = [worker EXCEPT ![w] = [Idle EXCEPT !.at = "event", !.peer = accept.got,
                                                    !.addr = RemoteInfo]]
    /\ accept' = NoAccept
    /\ UNCHANGED <<server_socket, addr6, listener, shutdowns, client, stops, log>>

\* cqe->res < 0: nothing, and nobody submits another accept.
Drops(w) ==
    /\ worker[w].at = "wait"
    /\ accept.st = "done" /\ accept.ring = w /\ accept.got = NoClient
    /\ accept' = NoAccept
    /\ UNCHANGED <<server_socket, addr6, listener, shutdowns, worker, client, stops, log>>

\* Mutants: the next accept is submitted before the address is read; nothing comes
\* after the event.
Reports_Late(w) ==
    /\ worker[w].at = "event"
    /\ \/ /\ accept.st = "none"
          /\ accept' = [st |-> "pending", ring |-> w, fd |-> server_socket, got |-> NoClient]
          /\ UNCHANGED <<log, worker>>
       \/ /\ accept.st # "none"
          /\ log' = [log EXCEPT !.reported = Append(@, worker[w].peer),
                                !.remote = Append(@, addr6)]
          /\ worker' = [worker EXCEPT ![w].at = "activate"]
          /\ UNCHANGED accept
    /\ UNCHANGED <<server_socket, addr6, listener, shutdowns, client, stops>>
Reports_Returns(w) ==
    /\ worker[w].at = "event"
    /\ log' = [log EXCEPT !.reported = Append(@, worker[w].peer),
                          !.remote = Append(@, worker[w].addr)]
    /\ worker' = [worker EXCEPT ![w] = Idle]
    /\ UNCHANGED <<server_socket, addr6, listener, accept, shutdowns, client, stops>>

\* new_connect_event.
Reports(w) ==
    /\ worker[w].at = "event"
    /\ log' = [log EXCEPT !.reported = Append(@, worker[w].peer),
                          !.remote = Append(@, worker[w].addr)]
    /\ worker' = [worker EXCEPT ![w].at = "next"]
    /\ UNCHANGED <<server_socket, addr6, listener, accept, shutdowns, client, stops>>

\* Mutants: the next accept goes to any ring; there is no further accept.
SubmitsNext_Any(w) ==
    /\ worker[w].at = "next"
    /\ \E r \in Workers :
          accept' = [st |-> "pending", ring |-> r, fd |-> server_socket, got |-> NoClient]
    /\ worker' = [worker EXCEPT ![w].at = "activate"]
    /\ UNCHANGED <<server_socket, addr6, listener, shutdowns, client, stops, log>>
SubmitsNext_Not(w) ==
    /\ worker[w].at = "next"
    /\ worker' = [worker EXCEPT ![w].at = "activate"]
    /\ UNCHANGED <<server_socket, addr6, listener, accept, shutdowns, client, stops, log>>

\* submit_accept() on this worker's ring.
SubmitsNext(w) ==
    /\ worker[w].at = "next"
    /\ accept' = [st |-> "pending", ring |-> w, fd |-> server_socket, got |-> NoClient]
    /\ worker' = [worker EXCEPT ![w].at = "activate"]
    /\ UNCHANGED <<server_socket, addr6, listener, shutdowns, client, stops, log>>

\* tcp_socket::on_active(); see TcpSocket.tla.
Activates(w) ==
    /\ worker[w].at = "activate"
    /\ client' = [client EXCEPT ![worker[w].peer] = "active"]
    /\ worker' = [worker EXCEPT ![w] = Idle]
    /\ UNCHANGED <<server_socket, addr6, listener, accept, shutdowns, stops, log>>

-----------------------------------------------------------------------------
(* stop() and its completion.                                              *)

\* By a worker in its accept callback, or by any other thread.
Stops ==
    /\ stops < MaxStops
    /\ \E r \in Workers :
          shutdowns' = Append(shutdowns, [st |-> "pending", ring |-> r, fd |-> server_socket])
    /\ stops' = stops + 1
    /\ UNCHANGED <<server_socket, addr6, listener, accept, worker, client, log>>

TakesShutdown(w) ==
    /\ worker[w].at = "wait"
    /\ \E i \in DOMAIN shutdowns :
          /\ shutdowns[i].st = "done" /\ shutdowns[i].ring = w
          /\ shutdowns' = [shutdowns EXCEPT ![i].st = "handled"]
    /\ worker' = [worker EXCEPT ![w] = [Idle EXCEPT !.at = "zero", !.fd = server_socket]]
    /\ UNCHANGED <<server_socket, addr6, listener, accept, client, stops, log>>

Zeroes(w) ==
    /\ worker[w].at = "zero"
    /\ server_socket' = 0
    /\ worker' = [worker EXCEPT ![w].at = "close"]
    /\ UNCHANGED <<addr6, listener, accept, shutdowns, client, stops, log>>

\* Mutant: ::close is missing.
Closes_Not(w) ==
    /\ worker[w].at = "close"
    /\ worker' = [worker EXCEPT ![w] = Idle]
    /\ UNCHANGED <<server_socket, addr6, listener, accept, shutdowns, client, stops, log>>

\* ::shutdown and ::close, whatever the descriptor is.  Connections that nobody
\* accepted go with the listening socket.
Closes(w) ==
    /\ worker[w].at = "close"
    /\ log' = [log EXCEPT !.closed = Append(@, worker[w].fd)]
    /\ IF worker[w].fd = ServerFd
       THEN /\ listener' = [open |-> FALSE, deaf |-> TRUE, backlog |-> <<>>]
            /\ client' = [c \in Clients |-> IF client[c] = "queued" THEN "reset"
                                            ELSE client[c]]
       ELSE UNCHANGED <<listener, client>>
    /\ worker' = [worker EXCEPT ![w] = Idle]
    /\ UNCHANGED <<server_socket, addr6, accept, shutdowns, stops>>

Kernel == \/ KernelAccepts \/ KernelRefuses
          \/ \E i \in DOMAIN shutdowns : KernelShutsDown(i)

Works(w) == \/ Accepts(w) \/ Drops(w) \/ Reports(w) \/ SubmitsNext(w) \/ Activates(w)
            \/ TakesShutdown(w) \/ Zeroes(w) \/ Closes(w)

Next == \/ \E c \in Clients : Connects(c)
        \/ Kernel \/ KernelFails
        \/ \E w \in Workers : Works(w)
        \/ Stops

Spec == Init /\ [][Next]_vars

FairSpec == /\ Spec
            /\ WF_vars(Kernel)
            /\ \A w \in Workers : WF_vars(Works(w))

-----------------------------------------------------------------------------

TypeOK ==
    /\ server_socket \in {ServerFd, Stdin}
    /\ addr6 \in Clients \cup {NoClient}
    /\ listener \in [open : BOOLEAN, deaf : BOOLEAN, backlog : Seq(Clients)]
    /\ accept \in [st : {"none", "pending", "done"}, ring : Workers \cup {NoWorker},
                   fd : {ServerFd, Stdin}, got : Clients \cup {NoClient}]
    /\ worker \in [Workers -> [at : {"wait", "event", "next", "activate", "zero", "close"},
                               peer : Clients \cup {NoClient},
                               addr : Clients \cup {NoClient}, fd : {ServerFd, Stdin}]]
    /\ client \in [Clients -> {"away", "queued", "accepted", "active", "reset"}]

\* accept() writes every peer's address to the same member of the server, and
\* io_accepting reads it after the completion: it is still that of this connection.
RemoteIsPeer == log.remote = log.reported

Accepting(w) == worker[w].at \in {"event", "next"}

\* Before stop() the server does not stop accepting by itself: unless an accept
\* failed, one is under way or about to be submitted, and never two.
AcceptAlive ==
    /\ Cardinality({w \in Workers : Accepting(w)}) + (IF accept.st = "none" THEN 0 ELSE 1) <= 1
    /\ stops = 0 /\ ~log.failed =>
          accept.st # "none" \/ \E w \in Workers : Accepting(w)

\* A single stop() closes the listening socket once and no other descriptor.
StopClosesOnce == MaxStops = 1 => log.closed \in {<<>>, <<ServerFd>>}

\* A client that connects is served, unless accepting failed or the server stops.
ClientServed ==
    \A c \in Clients : client[c] = "queued" ~> \/ client[c] = "active"
                                               \/ log.failed \/ stops > 0

\* After stop() the listening socket is closed and no accept request stays behind;
\* whoever was accepted by then is activated and nobody else.
StopsForGood ==
    stops > 0 ~> [](/\ accept.st = "none" /\ ~listener.open
                    /\ \A c \in Clients : client[c] \in {"away", "active", "reset"})
=============================================================================
