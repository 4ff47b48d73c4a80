----------------------------- MODULE UdpSocket ------------------------------
(***************************************************************************)
(* One udp_socket or udp_server over its life (udp_socket.cpp,             *)
(* udp_server.cpp, the parts of socket_object.cpp they inherit and of      *)
(* io_service.cpp that handle their completions).                          *)
(*                                                                         *)
(* send_to() puts datagrams into the byte buffer that TCP uses as well.    *)
(* What is queued behind a write goes out as one datagram when that write  *)
(* is complete, to the address that the completed write had.               *)
(*                                                                         *)
(* What send_to and io_sent do under socket_object::lock is one action     *)
(* from the push or pop on; TcpSocket.tla has the finer steps.  The        *)
(* completions of one ring are handled in any order, which allows all that *)
(* their real order does.                                                  *)
(***************************************************************************)
EXTENDS IoDoubleBuffer, FiniteSets

CONSTANTS
    Workers,      \* the threads that run io_service::io, and so their rings
    Users,        \* the other threads of the program
    Stoppers,     \* those of the threads that may call udp_server::stop()
    NoThread,     \* nobody
    Peers,        \* the addresses there are
    OddPeers,     \* those that are neither AF_INET nor AF_INET6
    NoPeer,
    BufferSize,   \* RIORING_DATA_BUFFER_SIZE
    MaxSends,     \* bound: calls of send_to()
    MaxData,      \* bound: datagrams that come in
    MaxContexts,  \* bound: contexts in use at a time
    Reliable,     \* whether every sendmsg succeeds
    Empties       \* whether datagrams of no bytes come in

Threads == Workers \cup Users

ASSUME UdpSocketAssumption ==
    /\ Workers \cap Users = {} /\ Workers # {}
    /\ Stoppers \subseteq Threads
    /\ NoThread \notin Threads /\ NoPeer \notin Peers
    /\ OddPeers \subseteq Peers
    /\ BufferSize \in Nat \ {0}
    /\ {MaxSends, MaxData, MaxContexts} \subseteq Nat
    /\ {Reliable, Empties} \subseteq BOOLEAN

VARIABLES
    socket_handler, shutdown_gracefully, send_buffer, lock,
    pc,        \* where each thread is
    own,       \* its local variables: the context it handles, addr
    contexts,  \* the io_contexts, and so the requests
    file,      \* the kernel's end: the datagrams that wait, whether it is shut
    log        \* history

sockvars == <<socket_handler, shutdown_gracefully, send_buffer>>
vars == <<sockvars, lock, pc, own, contexts, file, log>>

-----------------------------------------------------------------------------
(* Contexts and the kernel.                                                *)

Contexts == 1..MaxContexts
NoContext == 0

Fd == 1      \* the descriptor that activate() or run() makes
Stdin == 0

FreeContext == [st |-> "free", type |-> "none", ring |-> NoThread, fd |-> Stdin,
                addr |-> NoPeer, raw |-> NULL, len |-> 0, res |-> 0]

Free == {c \in Contexts : contexts[c].st = "free"}
FirstFree == CHOOSE c \in Free : \A d \in Free : c <= d

RingsOf(t) == IF t \in Workers THEN {t} ELSE Workers

\* submit_receiving, submit_sending and submit_shutdown, with submit.
Submits(t, request) ==
    /\ Free # {}
    /\ \E r \in RingsOf(t) :
          contexts' = [contexts EXCEPT ![FirstFree] =
              [request EXCEPT !.st = "pending", !.ring = r, !.fd = socket_handler]]

Receiving == [FreeContext EXCEPT !.type = "read"]
Shutting == [FreeContext EXCEPT !.type = "shutdown"]
Sending(d, addr) == [FreeContext EXCEPT !.type = "write", !.addr = addr,
                                        !.raw = DRaw(d), !.len = DSize(d)]

Completed(c, res) == contexts' = [contexts EXCEPT ![c].st = "done", ![c].res = res]

Pending(c, type, fd) == /\ contexts[c].st = "pending"
                        /\ contexts[c].type = type
                        /\ contexts[c].fd = fd

DatagramArrives ==
    /\ ~file.shut /\ log.arrived < MaxData
    /\ \E p \in Peers \ OddPeers, n \in (IF Empties THEN {0, 1} ELSE {1}) :
          file' = [file EXCEPT !.inbox = Append(@, [from |-> p, len |-> n])]
    /\ log' = [log EXCEPT !.arrived = @ + 1]
    /\ UNCHANGED <<sockvars, lock, pc, own, contexts>>

\* recvmsg takes a datagram, or is woken by the shutdown.
KernelReceives(c) ==
    /\ Pending(c, "read", Fd)
    /\ IF file.inbox # <<>>
       THEN /\ contexts' = [contexts EXCEPT ![c].st = "done",
                               ![c].res = Head(file.inbox).len,
                               ![c].addr = Head(file.inbox).from]
            /\ file' = [file EXCEPT !.inbox = Tail(@)]
            /\ log' = [log EXCEPT !.empty = @ \/ Head(file.inbox).len = 0]
       ELSE file.shut /\ Completed(c, 0) /\ UNCHANGED <<file, log>>
    /\ UNCHANGED <<sockvars, lock, pc, own>>

\* sendmsg takes the whole datagram, or nothing (too long, no route, ...).
KernelSends(c) ==
    /\ Pending(c, "write", Fd)
    /\ Completed(c, contexts[c].len)
    /\ LET data == Memory(send_buffer, contexts[c].raw, contexts[c].len)
       IN  log' = [log EXCEPT !.wire = Append(@, [to |-> contexts[c].addr, data |-> data]),
                              !.sent = @ \o data]
    /\ UNCHANGED <<sockvars, lock, pc, own, file>>

KernelRefuses(c) ==
    /\ Pending(c, "write", Fd) /\ ~Reliable
    /\ Completed(c, -1)
    /\ UNCHANGED <<sockvars, lock, pc, own, file, log>>

KernelShutsDown(c) ==
    /\ Pending(c, "shutdown", Fd)
    /\ file' = [file EXCEPT !.shut = TRUE]
    /\ Completed(c, 0)
    /\ UNCHANGED <<sockvars, lock, pc, own, log>>

\* Requests prepared after socket_handler became 0 name stdin, which is no socket.
StdinAnswers(c) ==
    /\ \E type \in {"read", "write", "shutdown"} : Pending(c, type, Stdin)
    /\ Completed(c, -1)
    /\ UNCHANGED <<sockvars, lock, pc, own, file, log>>

-----------------------------------------------------------------------------
(* The calls of the program.                                               *)

Goto(t, label) == pc' = [pc EXCEPT ![t] = label]

\* What follows a user callback or an API call.
Home(t) == IF t \in Workers THEN "finish" ELSE "idle"

\* Where user code runs: in a user's thread, or in a receive callback.  Nobody but the
\* thread in activate() or run() has the object before that returns.
InUserCode(t) == /\ pc[t] \in {"idle", "callback"}
                 /\ \A s \in Threads : pc[s] # "activate"

\* on_active(), by activate() or run().
OnActive(t) ==
    /\ pc[t] = "activate"
    /\ send_buffer' = DAssigned(send_buffer, log.fresh, BufferSize)
    /\ log' = [log EXCEPT !.fresh = @ + 1]
    /\ Submits(t, Receiving)
    /\ Goto(t, Home(t))
    /\ UNCHANGED <<socket_handler, shutdown_gracefully, lock, own, file>>

\* send_to() checks nothing: not whether the socket is open, nor being closed.
SendTo(t) ==
    /\ InUserCode(t)
    /\ Len(log.to) < MaxSends
    /\ lock = NoThread /\ lock' = t
    /\ \E p \in Peers : /\ own' = [own EXCEPT ![t].addr = p]
                        /\ log' = [log EXCEPT !.to = Append(@, p)]
    /\ Goto(t, "push")
    /\ UNCHANGED <<sockvars, contexts, file>>

\* Mutant: every send_to() submits a write.
SendToPushes_Always(t) ==
    /\ pc[t] = "push" /\ lock = t
    /\ ~DPushSpins(send_buffer, 1)
    /\ \E d \in DPushes(send_buffer, <<Len(log.to)>>, log.fresh) :
          send_buffer' = d /\ Submits(t, Sending(d, own[t].addr))
    /\ log' = [log EXCEPT !.fresh = @ + 1]
    /\ lock' = NoThread
    /\ Goto(t, Home(t))
    /\ UNCHANGED <<socket_handler, shutdown_gracefully, own, file>>

\* Each datagram is one byte here, numbered by the call.  submit_sending drops the
\* context when it does not know the address family; the byte stays in the buffer.
SendToPushes(t) ==
    /\ pc[t] = "push" /\ lock = t
    /\ ~DPushSpins(send_buffer, 1)
    /\ \E d \in DPushes(send_buffer, <<Len(log.to)>>, log.fresh) :
          /\ send_buffer' = d
          /\ IF DEmpty(send_buffer) /\ own[t].addr \notin OddPeers
             THEN Submits(t, Sending(d, own[t].addr))
             ELSE UNCHANGED contexts
    /\ log' = [log EXCEPT !.fresh = @ + 1,
                          !.odd = @ \/ (DEmpty(send_buffer) /\ own[t].addr \in OddPeers)]
    /\ lock' = NoThread
    /\ Goto(t, Home(t))
    /\ UNCHANGED <<socket_handler, shutdown_gracefully, own, file>>

\* The endless loop of io_buffer::push, with the lock held.
SendToSpins(t) ==
    /\ pc[t] = "push" /\ lock = t
    /\ DPushSpins(send_buffer, 1)
    /\ Goto(t, "spin")
    /\ UNCHANGED <<sockvars, lock, own, contexts, file, log>>

\* Mutant: stop() closes at once.
StopCalls_Force(t) ==
    /\ t \in Stoppers /\ InUserCode(t) /\ ~log.stopping
    /\ Submits(t, Shutting)
    /\ log' = [log EXCEPT !.stopping = TRUE, !.promised = Len(log.to)]
    /\ Goto(t, "poll")
    /\ UNCHANGED <<sockvars, lock, own, file>>

\* udp_server::stop(), or close() by another name: close( graceful ) ...
StopCalls(t) ==
    /\ t \in Stoppers /\ InUserCode(t) /\ ~log.stopping
    /\ lock = NoThread
    /\ IF DEmpty(send_buffer)
       THEN Submits(t, Shutting) /\ UNCHANGED shutdown_gracefully
       ELSE shutdown_gracefully' = TRUE /\ UNCHANGED contexts
    /\ log' = [log EXCEPT !.stopping = TRUE, !.promised = Len(log.to)]
    /\ Goto(t, "poll")
    /\ UNCHANGED <<socket_handler, send_buffer, lock, own, file>>

\* ... and then sleeping until socket_handler is 0.
StopReturns(t) ==
    /\ pc[t] = "poll" /\ socket_handler = 0
    /\ log' = [log EXCEPT !.stopped = TRUE]
    /\ Goto(t, Home(t))
    /\ UNCHANGED <<sockvars, lock, own, contexts, file>>

-----------------------------------------------------------------------------
(* io_service::io.                                                         *)

Handler(c) ==
    CASE c.type = "read" /\ c.res > 0 -> "received"
      [] c.type = "read" /\ c.res <= 0 -> "down"
      [] c.type = "write" /\ c.res > 0 -> "sent"
      [] c.type = "write" /\ c.res <= 0 -> "finish"
      [] c.type = "shutdown" -> "zero"

TakesCqe(w) ==
    /\ pc[w] = "wait"
    /\ \E c \in Contexts :
          /\ contexts[c].st = "done" /\ contexts[c].ring = w
          /\ own' = [own EXCEPT ![w].ctx = c]
          /\ contexts' = [contexts EXCEPT ![c].st = "taken"]
          /\ Goto(w, Handler(contexts[c]))
          /\ log' = [log EXCEPT !.failed = @ \/ /\ contexts[c].type = "write"
                                                /\ contexts[c].res <= 0]
    /\ UNCHANGED <<sockvars, lock, file>>

Finishes(w) ==
    /\ pc[w] = "finish"
    /\ contexts' = IF own[w].ctx = NoContext THEN contexts
                   ELSE [contexts EXCEPT ![own[w].ctx] = FreeContext]
    /\ own' = [own EXCEPT ![w].ctx = NoContext]
    /\ Goto(w, "wait")
    /\ UNCHANGED <<sockvars, lock, file, log>>

\* Mutant: no further read.
IoReceived_Once(w) ==
    /\ pc[w] = "received"
    /\ Goto(w, "callback")
    /\ UNCHANGED <<sockvars, lock, own, contexts, file, log>>

\* io_received: the next read is submitted before the callback.
IoReceived(w) ==
    /\ pc[w] = "received"
    /\ Submits(w, Receiving)
    /\ Goto(w, "callback")
    /\ UNCHANGED <<sockvars, lock, own, file, log>>

CallbackReturns(w) ==
    /\ pc[w] = "callback"
    /\ Goto(w, "finish")
    /\ UNCHANGED <<sockvars, lock, own, contexts, file, log>>

\* Mutant: no on_send_complete().
IoSent_Forgets(w) ==
    /\ pc[w] = "sent"
    /\ lock = NoThread
    /\ LET c == contexts[own[w].ctx]
           d == Elevated(DPopped(send_buffer, c.res))
       IN  /\ send_buffer' = d
           /\ IF ~DEmpty(d) THEN Submits(w, Sending(d, c.addr)) ELSE UNCHANGED contexts
    /\ Goto(w, "finish")
    /\ UNCHANGED <<socket_handler, shutdown_gracefully, lock, own, file, log>>

\* io_sent( bytes, addr ), addr being the one in the completed context.
IoSent(w) ==
    /\ pc[w] = "sent"
    /\ lock = NoThread
    /\ LET c == contexts[own[w].ctx]
           d == Elevated(DPopped(send_buffer, c.res))
       IN  /\ send_buffer' = d
           /\ IF ~DEmpty(d) THEN Submits(w, Sending(d, c.addr))
              ELSE IF shutdown_gracefully THEN Submits(w, Shutting)
              ELSE UNCHANGED contexts
    /\ Goto(w, "finish")
    /\ UNCHANGED <<socket_handler, shutdown_gracefully, lock, own, file, log>>

\* io_shutdown: on_shutdown takes no lock.  The descriptor stays open.
IoShutdown(w) ==
    /\ pc[w] = "down"
    /\ send_buffer' = [main |-> Destroyed(send_buffer.main),
                       sub |-> Destroyed(send_buffer.sub)]
    /\ log' = [log EXCEPT !.notified = @ + 1]
    /\ Goto(w, "finish")
    /\ UNCHANGED <<socket_handler, shutdown_gracefully, lock, own, contexts, file>>

ShutZeroes(w) ==
    /\ pc[w] = "zero"
    /\ IF socket_handler # 0
       THEN socket_handler' = 0 /\ Goto(w, "closeFd")
       ELSE Goto(w, "finish") /\ UNCHANGED socket_handler
    /\ UNCHANGED <<shutdown_gracefully, send_buffer, lock, own, contexts, file, log>>

ShutCloses(w) ==
    /\ pc[w] = "closeFd"
    /\ file' = [file EXCEPT !.shut = TRUE, !.inbox = <<>>]
    /\ Goto(w, "finish")
    /\ UNCHANGED <<sockvars, lock, own, contexts, log>>

-----------------------------------------------------------------------------

\* The descriptor is there and bound; a user is about to run on_active().
Init ==
    /\ socket_handler = Fd /\ shutdown_gracefully = FALSE
    /\ send_buffer = NoDoubleBuffer
    /\ lock = NoThread
    /\ \E u \in Users :
          pc = [t \in Threads |-> IF t = u THEN "activate"
                                  ELSE IF t \in Workers THEN "wait" ELSE "idle"]
    /\ own = [t \in Threads |-> [ctx |-> NoContext, addr |-> NoPeer]]
    /\ contexts = [c \in Contexts |-> FreeContext]
    /\ file = [inbox |-> <<>>, shut |-> FALSE]
    /\ log = [fresh |-> 1, to |-> <<>>, wire |-> <<>>, sent |-> <<>>, arrived |-> 0, notified |-> 0,
              empty |-> FALSE, odd |-> FALSE, failed |-> FALSE,
              promised |-> 0, stopping |-> FALSE, stopped |-> FALSE]

Proceeds(t) == OnActive(t) \/ SendToPushes(t) \/ SendToSpins(t) \/ StopReturns(t)

Calls(t) == SendTo(t) \/ StopCalls(t)

Handles(w) ==
    \/ TakesCqe(w) \/ Finishes(w) \/ IoReceived(w) \/ CallbackReturns(w)
    \/ IoSent(w) \/ IoShutdown(w) \/ ShutZeroes(w) \/ ShutCloses(w)

Kernel(c) == \/ KernelReceives(c) \/ KernelSends(c) \/ KernelRefuses(c)
             \/ KernelShutsDown(c) \/ StdinAnswers(c)

Next == \/ \E t \in Threads : Proceeds(t) \/ Calls(t)
        \/ \E w \in Workers : Handles(w)
        \/ \E c \in Contexts : Kernel(c)
        \/ DatagramArrives

Spec == Init /\ [][Next]_vars

\* Threads are scheduled, workers come back from callbacks, the kernel answers.
FairSpec == /\ Spec
            /\ WF_vars(\E t \in Threads : Proceeds(t))
            /\ WF_vars(\E w \in Workers : Handles(w))
            /\ WF_vars(\E c \in Contexts : Kernel(c))

-----------------------------------------------------------------------------
(* Properties.                                                             *)

Labels == {"idle", "wait", "activate", "push", "spin", "poll", "received",
           "callback", "sent", "down", "zero", "closeFd", "finish"}

\* Types of the state that is not history.
TypeOK ==
    /\ socket_handler \in {Stdin, Fd} /\ shutdown_gracefully \in BOOLEAN
    /\ send_buffer \in [main : [raw : Nat, data : Seq(Nat), size : Nat, block : Nat],
                        sub : [raw : Nat, data : Seq(Nat), size : Nat, block : Nat]]
    /\ lock \in Threads \cup {NoThread}
    /\ pc \in [Threads -> Labels]
    /\ own \in [Threads -> [ctx : Contexts \cup {NoContext}, addr : Peers \cup {NoPeer}]]
    /\ \A c \in Contexts : /\ contexts[c].st \in {"free", "pending", "done", "taken"}
                           /\ contexts[c].ring \in Workers \cup {NoThread}

\* The thread that has c before it, at one of the labels.
Handled(c, labels) == \E w \in Workers : own[w].ctx = c /\ pc[w] \in labels

\* The contexts of a type that are not yet handled to the point where the handler
\* submits their successor.
UnderWay(type, over) == {c \in Contexts : /\ contexts[c].st # "free"
                                         /\ contexts[c].type = type
                                         /\ ~Handled(c, over)}

\* send_to() and io_sent() never have two datagrams of one socket in the kernel, also
\* when io_shutdown destroys the buffer under them.
OneWrite == Cardinality(UnderWay("write", {"finish"})) <= 1

\* One read at a time, and the socket listens on: until somebody stops it there is
\* always a read, unless a datagram with no bytes came in.
Listens ==
    LET reads == Cardinality(UnderWay("read", Labels \ {"received"}))
    IN  /\ reads <= 1
        /\ \/ log.stopping \/ log.empty
           \/ \E t \in Threads : pc[t] = "activate"
           \/ reads = 1

\* Datagrams leave one at a time, and until io_shutdown destroys the buffer, their bytes
\* leave once each, in the order of the calls of send_to().
InOrder == OneWrite /\ (log.notified = 0 => log.sent = [i \in 1..Len(log.sent) |-> i])

\* stop() closes gracefully: no shutdown is asked for before everything that send_to() had
\* taken by then has left, whichever writes fail; only io_shutdown cuts that short.
StopDrains ==
    UnderWay("shutdown", {}) # {} /\ log.notified = 0 => Len(log.sent) >= log.promised

\* A thread is in the endless loop of io_buffer::push.
Spinning == \E t \in Threads : pc[t] = "spin"

\* udp_server::stop() returns, unless a datagram could not be sent, which leaves the
\* buffer full for good, or a thread never comes out of send_to().
StopEnds == log.stopping ~> (log.stopped \/ log.failed \/ log.odd \/ Spinning)

\* A datagram goes to the address its send_to() named.
Addressed ==
    log.notified = 0 =>
        \A i \in DOMAIN log.wire : \A j \in DOMAIN log.wire[i].data :
            log.to[log.wire[i].data[j]] = log.wire[i].to
=============================================================================
