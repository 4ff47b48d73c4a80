----------------------------- MODULE RioService -----------------------------
(***************************************************************************)
(* The Windows implementation: io_service with registered I/O, tcp_server  *)
(* with its accepting thread, and the sockets (the WIN32 branches of       *)
(* io_service.cpp, tcp_server.cpp, tcp_socket.cpp, socket_object.cpp).     *)
(*                                                                         *)
(* A worker makes a completion queue and polls it.  A socket is bound to   *)
(* two queues when it becomes active, one for its reads and one for its    *)
(* writes.  It is closed by closesocket() in whatever thread wants it      *)
(* closed, and the system may give the number to the next connection at    *)
(* once.  Reading socket_handler, closing what was read and marking the    *)
(* member INVALID_SOCKET are three steps.                                  *)
(***************************************************************************)
EXTENDS Integers, FiniteSets

CONSTANTS
    Main, Acceptor, User,  \* threads; User stands for any other of the program
    Workers,               \* the threads of io_service
    NoThread,
    MaxConns,              \* bound: connections, one tcp_socket each
    Handles,               \* the values of SOCKET that are in use
    Size,                  \* RIORING_DATA_BUFFER_SIZE
    Cases                  \* bounds: what the peers and the program do, in each case to check

Threads == Workers \cup {Main, Acceptor, User}
Conns == 1..MaxConns   \* in the order they are accepted
NoConn == 0
INVALID == 0           \* INVALID_SOCKET

\* Bounds on the connections made, on the calls of send() (a byte each) and of close(), and on
\* the packets of all peers.
Case == [conns : Nat, calls : Nat, data : Nat]

ASSUME RioServiceAssumption ==
    /\ Workers # {} /\ IsFiniteSet(Workers)
    /\ {Main, Acceptor, User} \cap Workers = {} /\ NoThread \notin Threads
    /\ Main # Acceptor /\ Main # User /\ Acceptor # User
    /\ Handles \subseteq Nat \ {INVALID}
    /\ Size \in Nat \ {0} /\ MaxConns \in Nat
    /\ Cases \subseteq Case

VARIABLES
    io_array,    \* the vector of completion queues: its end, and what its slots hold
    running_io,
    stopped,     \* thread_object::is_terminated
    pc, own,     \* where each thread is, and its local variables
    sock,        \* the members of each tcp_socket
    lock,        \* socket_object::lock of each
    owner,       \* the system's table: the connection behind each SOCKET
    read, write, \* the one receive and the one send request of each connection
    peer,        \* what each peer did
    hist         \* history, and the case it is about

vars == <<io_array, running_io, stopped, pc, own, sock, lock, owner, read, write, peer, hist>>

NewSocket == [handle |-> INVALID, connected |-> FALSE, assigned |-> FALSE, graceful |-> FALSE,
              queued |-> 0, recv |-> NoThread, send |-> NoThread, registered |-> FALSE,
              notified |-> FALSE]
NoRequest == [st |-> "none", n |-> 0]
Nothing == [conn |-> NoConn, handle |-> INVALID, end |-> 0, then |-> "none"]

\* run(): the workers are started, and the vector has room for all of them.
Init ==
    /\ io_array = [end |-> 0, slot |-> [i \in 1..Cardinality(Workers) |-> NoThread]]
    /\ running_io = 0 /\ stopped = FALSE
    /\ pc = [t \in Threads |-> IF t \in Workers THEN "create"
                               ELSE IF t = Main THEN "run" ELSE "idle"]
    /\ own = [t \in Threads |-> Nothing]
    /\ sock = [c \in Conns |-> NewSocket]
    /\ lock = [c \in Conns |-> NoThread]
    /\ owner = [h \in Handles |-> NoConn]
    /\ read = [c \in Conns |-> NoRequest] /\ write = [c \in Conns |-> NoRequest]
    /\ peer = [c \in Conns |-> "away"]
    /\ \E case \in Cases :
          hist = [case |-> case, raced |-> FALSE, overlap |-> FALSE, foreign |-> FALSE,
                  clobbered |-> FALSE, calls |-> 0, data |-> 0]

At(t, label) == pc[t] = label
Goto(t, label) == pc' = [pc EXCEPT ![t] = label]

-----------------------------------------------------------------------------
(* The workers start, and run() returns.                                   *)

\* RIOCreateCompletionQueue, and push_back, which no lock protects: the element is
\* written at the end that is read first, then the end is moved.
Appends(w) ==
    /\ At(w, "create")
    /\ io_array' = [io_array EXCEPT !.slot[io_array.end + 1] = w]
    /\ own' = [own EXCEPT ![w].end = io_array.end]
    /\ Goto(w, "append")
    /\ hist' = [hist EXCEPT !.raced = @ \/ \E v \in Workers : At(v, "append")]
    /\ UNCHANGED <<running_io, stopped, sock, lock, owner, read, write, peer>>

\* The old end may have been kept in a register or be read again.
MovesEnd(w) ==
    /\ At(w, "append")
    /\ \E e \in {own[w].end, io_array.end} : io_array' = [io_array EXCEPT !.end = e + 1]
    /\ running_io' = running_io + 1
    /\ own' = [own EXCEPT ![w] = Nothing]
    /\ Goto(w, "poll")
    /\ UNCHANGED <<stopped, sock, lock, owner, read, write, peer, hist>>

\* Mutant: the last worker is not waited for.
RunReturns_Early ==
    /\ At(Main, "run") /\ running_io + 1 >= Cardinality(Workers)
    /\ pc' = [pc EXCEPT ![Main] = "up", ![Acceptor] = "accept"]
    /\ UNCHANGED <<io_array, running_io, stopped, own, sock, lock, owner, read, write, peer,
                   hist>>

\* ... and tcp_server::run() starts the accepting thread.
RunReturns ==
    /\ At(Main, "run") /\ running_io >= Cardinality(Workers)
    /\ pc' = [pc EXCEPT ![Main] = "up", ![Acceptor] = "accept"]
    /\ UNCHANGED <<io_array, running_io, stopped, own, sock, lock, owner, read, write, peer,
                   hist>>

-----------------------------------------------------------------------------
(* Requests and the system.                                                *)

Open(c) == \E h \in Handles : owner[h] = c

\* RIOReceive and RIOSend fail without a request queue, on a closed socket, and on a
\* buffer that is not registered.  Nobody looks at what they return.
Works(c, s) == s.recv # NoThread /\ s.registered /\ Open(c)

Receiving(c) == IF Works(c, sock[c]) THEN [st |-> "pending", n |-> 0]
                ELSE [st |-> "lost", n |-> 0]

\* submit_sending() copies at most Size bytes of the n queued ones to send_bind_buffer,
\* which a send that is still under way is reading.
Sending(c, n) ==
    /\ write' = [write EXCEPT ![c] =
          IF Works(c, sock[c]) THEN [st |-> "pending", n |-> IF n > Size THEN Size ELSE n]
          ELSE [st |-> "lost", n |-> 0]]
    /\ hist' = [hist EXCEPT !.clobbered = @ \/ write[c].st = "pending",
                            !.calls = IF sock[c].queued < n THEN @ + 1 ELSE @]

KernelReceives(c) ==
    /\ read[c].st = "pending"
    /\ \/ /\ Open(c) /\ hist.data < hist.case.data
          /\ read' = [read EXCEPT ![c] = [st |-> "done", n |-> 1]]
          /\ hist' = [hist EXCEPT !.data = @ + 1]
       \/ /\ ~Open(c) \/ peer[c] = "gone"
          /\ read' = [read EXCEPT ![c] = [st |-> "done", n |-> 0]]
          /\ UNCHANGED hist
    /\ UNCHANGED <<io_array, running_io, stopped, pc, own, sock, lock, owner, write, peer>>

\* A send is complete, or it failed, with 0 bytes.
KernelSends(c) ==
    /\ write[c].st = "pending"
    /\ write' = [write EXCEPT ![c].st = "done",
                              ![c].n = IF Open(c) /\ peer[c] = "there" THEN @ ELSE 0]
    /\ UNCHANGED <<io_array, running_io, stopped, pc, own, sock, lock, owner, read, peer, hist>>

PeerLeaves(c) ==
    /\ peer[c] = "there"
    /\ peer' = [peer EXCEPT ![c] = "gone"]
    /\ UNCHANGED <<io_array, running_io, stopped, pc, own, sock, lock, owner, read, write, hist>>

-----------------------------------------------------------------------------
(* tcp_server::on_thread and tcp_socket::on_active.                        *)

\* WSAAccept, until the listening socket is closed: any free number.  Then create(),
\* set_remote_info() and the accept event.
Accepts(c) ==
    /\ At(Acceptor, "accept") /\ At(Main, "up")
    /\ c <= hist.case.conns
    /\ peer[c] = "away" /\ \A d \in 1..c - 1 : peer[d] # "away"
    /\ \E h \in Handles :
          /\ owner[h] = NoConn
          /\ owner' = [owner EXCEPT ![h] = c]
          /\ sock' = [sock EXCEPT ![c].handle = h]
    /\ peer' = [peer EXCEPT ![c] = "there"]
    /\ own' = [own EXCEPT ![Acceptor].conn = c]
    /\ Goto(Acceptor, "flag")
    /\ UNCHANGED <<io_array, running_io, stopped, lock, read, write, hist>>

Activating == own[Acceptor].conn

ActivateFlag ==
    /\ At(Acceptor, "flag")
    /\ sock' = [sock EXCEPT ![Activating].connected = TRUE]
    /\ Goto(Acceptor, "assign")
    /\ UNCHANGED <<io_array, running_io, stopped, own, lock, owner, read, write, peer, hist>>

ActivateAssign ==
    /\ At(Acceptor, "assign")
    /\ sock' = [sock EXCEPT ![Activating].assigned = TRUE]
    /\ Goto(Acceptor, "queue")
    /\ UNCHANGED <<io_array, running_io, stopped, own, lock, owner, read, write, peer, hist>>

\* create_request_queue: the queue in slot h % size() of the vector, counting from 0.
QueueOf(h) == io_array.slot[(h % io_array.end) + 1]

\* A slot that a race in push_back left unwritten holds none, and RIOCreateRequestQueue
\* fails.  socket_object::on_active gives up where a call fails; tcp_socket::on_active
\* goes on.
ActivateQueue ==
    /\ At(Acceptor, "queue")
    /\ LET c == Activating
           h == sock[c].handle
       IN  IF h # INVALID /\ Open(c) /\ {QueueOf(h), QueueOf(h + 1)} \subseteq Workers
           THEN sock' = [sock EXCEPT ![c].recv = QueueOf(h), ![c].send = QueueOf(h + 1),
                                     ![c].registered = TRUE]
           ELSE UNCHANGED sock
    /\ Goto(Acceptor, "receive")
    /\ UNCHANGED <<io_array, running_io, stopped, own, lock, owner, read, write, peer, hist>>

ActivateReceive ==
    /\ At(Acceptor, "receive")
    /\ read' = [read EXCEPT ![Activating] = Receiving(Activating)]
    /\ own' = [own EXCEPT ![Acceptor] = Nothing]
    /\ Goto(Acceptor, "accept")
    /\ UNCHANGED <<io_array, running_io, stopped, sock, lock, owner, write, peer, hist>>

-----------------------------------------------------------------------------
(* Closing, by any thread, and the calls of the program.                   *)

\* A thread begins to close c, and goes on at label when it is done.
BeginsClosing(t, c, label) ==
    /\ own' = [own EXCEPT ![t] = [Nothing EXCEPT !.conn = c, !.then = label]]
    /\ Goto(t, "handle")

\* The argument of closesocket() is evaluated.
ReadsHandle(t) ==
    /\ At(t, "handle")
    /\ own' = [own EXCEPT ![t].handle = sock[own[t].conn].handle]
    /\ Goto(t, "close")
    /\ hist' = [hist EXCEPT !.overlap = @ \/ \E s \in Threads :
                                pc[s] \in {"close", "mark"} /\ own[s].conn = own[t].conn]
    /\ UNCHANGED <<io_array, running_io, stopped, sock, lock, owner, read, write, peer>>

ClosesHandle(t) ==
    /\ At(t, "close")
    /\ LET h == own[t].handle
       IN  IF h = INVALID THEN UNCHANGED <<owner, hist>>
           ELSE /\ owner' = [owner EXCEPT ![h] = NoConn]
                /\ hist' = [hist EXCEPT !.foreign = @ \/ owner[h] \notin {NoConn, own[t].conn}]
    /\ Goto(t, "mark")
    /\ UNCHANGED <<io_array, running_io, stopped, own, sock, lock, read, write, peer>>

\* Mutant: socket_handler keeps the number.
Marks_Not(t) ==
    /\ At(t, "mark")
    /\ Goto(t, own[t].then)
    /\ UNCHANGED <<io_array, running_io, stopped, own, sock, lock, owner, read, write, peer, hist>>

Marks(t) ==
    /\ At(t, "mark")
    /\ sock' = [sock EXCEPT ![own[t].conn].handle = INVALID]
    /\ Goto(t, own[t].then)
    /\ UNCHANGED <<io_array, running_io, stopped, own, lock, owner, read, write, peer, hist>>

Home(t) == IF t \in Workers THEN "poll" ELSE "idle"

Unlocks(t) ==
    /\ At(t, "unlock")
    /\ lock' = [lock EXCEPT ![own[t].conn] = NoThread]
    /\ own' = [own EXCEPT ![t] = Nothing]
    /\ Goto(t, Home(t))
    /\ UNCHANGED <<io_array, running_io, stopped, sock, owner, read, write, peer, hist>>

\* The program knows a socket from the accept event on.
Known(c) == peer[c] # "away"

Calls(c) == At(User, "idle") /\ hist.calls < hist.case.calls /\ Known(c)

CloseForce(c) ==
    /\ Calls(c)
    /\ BeginsClosing(User, c, "idle")
    /\ hist' = [hist EXCEPT !.calls = @ + 1]
    /\ UNCHANGED <<io_array, running_io, stopped, sock, lock, owner, read, write, peer>>

CloseGraceful(c) ==
    /\ Calls(c)
    /\ hist' = [hist EXCEPT !.calls = @ + 1]
    /\ lock[c] = NoThread
    /\ IF sock[c].queued = 0
       THEN /\ BeginsClosing(User, c, "unlock")
            /\ lock' = [lock EXCEPT ![c] = User]
            /\ UNCHANGED sock
       ELSE /\ sock' = [sock EXCEPT ![c].graceful = TRUE]
            /\ UNCHANGED <<pc, own, lock>>
    /\ UNCHANGED <<io_array, running_io, stopped, owner, read, write, peer>>

MaySend(c) ==
    /\ Calls(c)
    /\ ~sock[c].graceful /\ sock[c].connected
    /\ lock[c] = NoThread

\* Mutant: every send() submits.
Sends_Always(c) ==
    /\ MaySend(c) /\ sock[c].assigned
    /\ sock' = [sock EXCEPT ![c].queued = @ + 1]
    /\ Sending(c, sock[c].queued + 1)
    /\ UNCHANGED <<io_array, running_io, stopped, pc, own, lock, owner, read, peer>>

Sends(c) ==
    /\ MaySend(c) /\ sock[c].assigned
    /\ sock' = [sock EXCEPT ![c].queued = @ + 1]
    /\ IF sock[c].queued = 0
       THEN Sending(c, 1)
       ELSE hist' = [hist EXCEPT !.calls = @ + 1] /\ UNCHANGED write
    /\ UNCHANGED <<io_array, running_io, stopped, pc, own, lock, owner, read, peer>>

\* io_buffer::push before assign(): the thread stays there, with the lock.
SendSpins(c) ==
    /\ MaySend(c) /\ ~sock[c].assigned
    /\ lock' = [lock EXCEPT ![c] = User]
    /\ Goto(User, "spin")
    /\ UNCHANGED <<io_array, running_io, stopped, own, sock, owner, read, write, peer, hist>>

-----------------------------------------------------------------------------
(* io_service::io.                                                         *)

Polls(w, s, q) == At(w, "poll") /\ s.st = "done" /\ q = w

\* io_received: the next receive request, then the receive event.
TakesData(w, c) ==
    /\ Polls(w, read[c], sock[c].recv) /\ read[c].n > 0
    /\ read' = [read EXCEPT ![c] = Receiving(c)]
    /\ UNCHANGED <<io_array, running_io, stopped, pc, own, sock, lock, owner, write, peer, hist>>

\* io_shutdown: on_shutdown, and the socket is closed unless it was.
TakesEnd(w, c) ==
    /\ Polls(w, read[c], sock[c].recv) /\ read[c].n = 0
    /\ read' = [read EXCEPT ![c] = NoRequest]
    /\ sock' = [sock EXCEPT ![c].connected = FALSE]
    /\ IF sock[c].handle # INVALID
       THEN BeginsClosing(w, c, "notify")
       ELSE /\ own' = [own EXCEPT ![w].conn = c]
            /\ Goto(w, "notify")
    /\ UNCHANGED <<io_array, running_io, stopped, lock, owner, write, peer, hist>>

\* Mutant: a socket that was unregistered has no close event.
Notifies_Not(w) ==
    /\ At(w, "notify")
    /\ sock' = [sock EXCEPT ![own[w].conn].registered = FALSE]
    /\ own' = [own EXCEPT ![w] = Nothing]
    /\ Goto(w, "poll")
    /\ UNCHANGED <<io_array, running_io, stopped, lock, owner, read, write, peer, hist>>

\* Both buffers are unregistered, then the close event.
Notifies(w) ==
    /\ At(w, "notify")
    /\ sock' = [sock EXCEPT ![own[w].conn].registered = FALSE, ![own[w].conn].notified = TRUE]
    /\ own' = [own EXCEPT ![w] = Nothing]
    /\ Goto(w, "poll")
    /\ UNCHANGED <<io_array, running_io, stopped, lock, owner, read, write, peer, hist>>

\* io_sent, with its lock: the rest is sent, or on_send_complete closes.
TakesSent(w, c) ==
    /\ Polls(w, write[c], sock[c].send)
    /\ lock[c] = NoThread
    /\ LET rest == sock[c].queued - write[c].n
       IN  /\ sock' = [sock EXCEPT ![c].queued = rest]
           /\ IF rest > 0
              THEN Sending(c, rest) /\ UNCHANGED <<pc, own, lock>>
              ELSE /\ write' = [write EXCEPT ![c] = NoRequest]
                   /\ UNCHANGED hist
                   /\ IF sock[c].graceful
                      THEN /\ BeginsClosing(w, c, "unlock")
                           /\ lock' = [lock EXCEPT ![c] = w]
                      ELSE UNCHANGED <<pc, own, lock>>
    /\ UNCHANGED <<io_array, running_io, stopped, owner, read, peer>>

-----------------------------------------------------------------------------
(* tcp_server::stop() and io_service::stop().                              *)

\* closesocket( server_socket ), whatever the accepting thread is at.
ServerStops ==
    /\ At(Main, "up")
    /\ Goto(Main, "closed")
    /\ UNCHANGED <<io_array, running_io, stopped, own, sock, lock, owner, read, write, peer,
                   hist>>

\* WSAAccept fails then, on_thread returns, and so does tg.wait_for_terminate().
AcceptorJoins ==
    /\ At(Main, "closed") /\ At(Acceptor, "accept")
    /\ pc' = [pc EXCEPT ![Main] = "stop", ![Acceptor] = "gone"]
    /\ UNCHANGED <<io_array, running_io, stopped, own, sock, lock, owner, read, write, peer,
                   hist>>

ServiceStops ==
    /\ At(Main, "stop")
    /\ stopped' = TRUE
    /\ io_array' = [io_array EXCEPT !.end = 0]
    /\ Goto(Main, "join")
    /\ UNCHANGED <<running_io, own, sock, lock, owner, read, write, peer, hist>>

\* RIOCloseCompletionQueue, and on_thread returns.
Exits(w) ==
    /\ At(w, "poll") /\ stopped
    /\ running_io' = running_io - 1
    /\ Goto(w, "gone")
    /\ UNCHANGED <<io_array, stopped, own, sock, lock, owner, read, write, peer, hist>>

Joins ==
    /\ At(Main, "join") /\ \A w \in Workers : At(w, "gone")
    /\ Goto(Main, "down")
    /\ UNCHANGED <<io_array, running_io, stopped, own, sock, lock, owner, read, write, peer, hist>>

-----------------------------------------------------------------------------

Closing(t) == ReadsHandle(t) \/ ClosesHandle(t) \/ Marks(t) \/ Unlocks(t)

Runs(w) == \/ Appends(w) \/ MovesEnd(w) \/ Exits(w) \/ Notifies(w) \/ Closing(w)
           \/ \E c \in Conns : TakesData(w, c) \/ TakesEnd(w, c) \/ TakesSent(w, c)

Activates == ActivateFlag \/ ActivateAssign \/ ActivateQueue \/ ActivateReceive

TakesRead(c) == \E w \in Workers : TakesData(w, c) \/ TakesEnd(w, c)

Kernel(c) == KernelReceives(c) \/ KernelSends(c)

Next == \/ \E w \in Workers : Runs(w)
        \/ Closing(User) \/ Activates
        \/ RunReturns \/ ServerStops \/ AcceptorJoins \/ ServiceStops \/ Joins
        \/ \E c \in Conns : \/ Accepts(c) \/ Kernel(c) \/ PeerLeaves(c)
                            \/ CloseForce(c) \/ CloseGraceful(c) \/ Sends(c) \/ SendSpins(c)

Spec == Init /\ [][Next]_vars

\* Threads run on, the system completes what it can, and a worker comes to a completed
\* receive request although send requests keep completing on the same queue (a queue is
\* emptied in order).  Nothing is assumed of peers, of calls by the program, or of when the
\* server is stopped.
FairSpec == /\ Spec
            /\ \A w \in Workers : WF_vars(Runs(w))
            /\ WF_vars(Closing(User)) /\ WF_vars(Activates)
            /\ \A c \in Conns : /\ WF_vars(KernelReceives(c)) /\ WF_vars(KernelSends(c))
                                /\ WF_vars(TakesRead(c))

-----------------------------------------------------------------------------
(* Properties.                                                             *)

\* When run() has returned, whatever its workers did to each other in push_back, io_array
\* is within its capacity and not empty, so that h % size() has a meaning, and its first
\* slot holds a queue.  It holds those of all workers unless two were in push_back at the
\* same time.
QueuesKnown ==
    ~At(Main, "run") /\ ~stopped =>
        /\ io_array.end \in 1..Cardinality(Workers)
        /\ io_array.slot[1] \in Workers
        /\ ~hist.raced => {io_array.slot[i] : i \in 1..io_array.end} = Workers

\* closesocket() hits the connection it is meant for, even when the system reuses numbers,
\* unless two threads close one socket at the same time.
OwnHandle == hist.foreign => hist.overlap

\* send_bind_buffer is not overwritten while a send request reads it.
SendBufferStable == ~hist.clobbered

\* The close event of every connection that is closed at either end comes, and of one whose
\* close(graceful) waits for sends that were not refused, unless a receive request was
\* refused because the socket was closed under the handler that made it, a thread spins
\* with the lock, or the service stops.
CloseAnswered ==
    \A c \in Conns :
        Known(c) /\ \/ ~Open(c) \/ peer[c] = "gone"
                    \/ sock[c].graceful /\ write[c].st # "lost"
        ~> \/ sock[c].notified \/ read[c].st = "lost"
           \/ \E t \in Threads : At(t, "spin")
           \/ stopped
=============================================================================
