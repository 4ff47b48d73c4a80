----------------------------- MODULE TcpSocket ------------------------------
(***************************************************************************)
(* One tcp_socket over its life, as the threads of the program and the     *)
(* kernel see it (socket_object.cpp, tcp_socket.cpp, and the part of       *)
(* io_service.cpp that submits requests and handles completions).          *)
(*                                                                         *)
(* A worker is a thread of io_service::on_thread; it owns one ring and     *)
(* handles the completions of that ring in order.  A user is any other     *)
(* thread of the program; it submits to any ring.  send() and io_sent()    *)
(* hold socket_object::lock; nothing else that touches the socket does, so *)
(* their calls are cut into steps at every access the others can see.      *)
(***************************************************************************)
EXTENDS IoDoubleBuffer, FiniteSets

CONSTANTS
    Workers,      \* the threads that run io_service::io, and so their rings
    Users,        \* the other threads of the program
    NoThread,     \* nobody
    BufferSize,   \* RIORING_DATA_BUFFER_SIZE
    MaxContexts,  \* bound: contexts in use at a time
    Cases         \* bounds: what the program and the peer do, in each case to check

Threads == Workers \cup Users

\* Bounds on the calls of send() that pass its first checks, on the calls of close(), on the
\* packets the peer sends, and on the requests that may find the submission queue full (once
\* each).
Case == [sends : Nat, closes : Nat, data : Nat, refusable : SUBSET {"read", "write", "shutdown"}]

ASSUME TcpSocketAssumption ==
    /\ Workers \cap Users = {}
    /\ Workers # {}
    /\ NoThread \notin Threads
    /\ BufferSize \in Nat \ {0}
    /\ MaxContexts \in Nat
    /\ Cases \subseteq Case

VARIABLES
    connected_flag, shutdown_gracefully, socket_handler, send_buffer, lock,
    pc,        \* where each thread is
    own,       \* its local variables: the context it handles, fd, first
    staged,    \* the context it has prepared and not yet given to the kernel
    contexts,  \* the io_contexts, and so the requests
    cq,        \* the completion queue of each ring
    file,      \* the kernel's end of the connection
    peer,      \* what the peer has done
    log        \* history, and the case it is about

sockvars == <<connected_flag, shutdown_gracefully, socket_handler, send_buffer>>
vars == <<sockvars, lock, pc, own, staged, contexts, cq, file, peer, log>>

-----------------------------------------------------------------------------
(* Contexts and the kernel.                                                *)

Contexts == 1..MaxContexts
NoContext == 0

Fd == 1      \* the descriptor of this connection
Stdin == 0   \* what socket_handler is reset to is a descriptor as well

FreeContext == [st |-> "free", type |-> "none", ring |-> NoThread, fd |-> Stdin,
                raw |-> NULL, len |-> 0, res |-> 0]

Free == {c \in Contexts : contexts[c].st = "free"}
FirstFree == CHOOSE c \in Free : \A d \in Free : c <= d

\* Mutant: workers submit to any ring, too.
RingsOf_Any(t) == Workers

\* The ring that io_service::submit picks: the thread's own, or any.
RingsOf(t) == IF t \in Workers THEN {t} ELSE Workers

\* allocate_context() and submit() up to io_uring_prep_*: the request holds the
\* value socket_handler has now and, for a write, the main buffer of d.
Prepare(t, type, d) ==
    /\ Free # {}
    /\ \E r \in RingsOf(t) :
          contexts' = [contexts EXCEPT ![FirstFree] =
              [st |-> "prepared", type |-> type, ring |-> r, fd |-> socket_handler,
               raw |-> IF type = "write" THEN DRaw(d) ELSE NULL,
               len |-> IF type = "write" THEN DSize(d) ELSE 0,
               res |-> 0]]
    /\ staged' = [staged EXCEPT ![t] = FirstFree]

Completed(c, res) ==
    /\ contexts' = [contexts EXCEPT ![c].st = "done", ![c].res = res]
    /\ cq' = [cq EXCEPT ![contexts[c].ring] = Append(@, c)]

\* io_uring_submit: the kernel looks the descriptor up.
Enter(t) ==
    /\ staged[t] # NoContext
    /\ staged' = [staged EXCEPT ![t] = NoContext]
    /\ LET c == staged[t]
       IN  IF contexts[c].fd = Fd /\ ~file.open
           THEN Completed(c, -1)
           ELSE /\ contexts' = [contexts EXCEPT ![c].st = "pending"]
                /\ UNCHANGED cq
    /\ log' = [log EXCEPT !.closing = @ \/ contexts[staged[t]].type = "shutdown"]
    /\ UNCHANGED <<sockvars, lock, pc, own, file, peer>>

\* io_uring_get_sqe has no entry: io_error, and submit() returns FALSE, which none of its
\* callers looks at.  The context goes back to nobody; what it holds is never looked at
\* again.  (The test comes before the request is filled in, which nobody else can tell.)
Refuses(t) ==
    /\ staged[t] # NoContext
    /\ staged' = [staged EXCEPT ![t] = NoContext]
    /\ LET c == staged[t]
       IN  /\ contexts[c].type \in log.case.refusable \ log.refused
           /\ contexts' = [contexts EXCEPT ![c] = FreeContext]
           /\ log' = [log EXCEPT !.refused = @ \cup {contexts[c].type}]
    /\ UNCHANGED <<sockvars, lock, pc, own, cq, file, peer>>

Pending(c, type, fd) == /\ contexts[c].st = "pending"
                        /\ contexts[c].type = type
                        /\ contexts[c].fd = fd

KernelReads(c) ==
    /\ Pending(c, "read", Fd)
    /\ \/ /\ file.unread > 0
          /\ file' = [file EXCEPT !.unread = @ - 1]
          /\ Completed(c, 1)
       \/ /\ file.unread = 0 /\ file.ended
          /\ Completed(c, 0)
          /\ UNCHANGED file
    /\ UNCHANGED <<sockvars, lock, pc, own, staged, peer, log>>

KernelWrites(c) ==
    /\ Pending(c, "write", Fd)
    /\ \/ /\ ~file.broken
          /\ \E k \in (IF contexts[c].len = 0 THEN {0} ELSE 1..contexts[c].len) :
                /\ log' = [log EXCEPT !.wire = @ \o Memory(send_buffer, contexts[c].raw, k)]
                /\ Completed(c, k)
       \/ /\ file.broken
          /\ Completed(c, -1)
          /\ UNCHANGED log
    /\ UNCHANGED <<sockvars, lock, pc, own, staged, file, peer>>

\* io_uring_prep_shutdown( sqe, fd, 0 ): 0 is SHUT_RD.
KernelShutsDown(c) ==
    /\ Pending(c, "shutdown", Fd)
    /\ file' = [file EXCEPT !.ended = TRUE]
    /\ Completed(c, 0)
    /\ UNCHANGED <<sockvars, lock, pc, own, staged, peer, log>>

\* Requests that were prepared after socket_handler became 0 are about stdin:
\* it is no socket, may accept bytes, and may or may not ever report its end.
StdinAnswers(c) ==
    /\ \/ Pending(c, "read", Stdin) /\ Completed(c, 0)
       \/ Pending(c, "write", Stdin) /\ \E res \in {-1, contexts[c].len} : Completed(c, res)
       \/ Pending(c, "shutdown", Stdin) /\ Completed(c, -1)
    /\ UNCHANGED <<sockvars, lock, pc, own, staged, file, peer, log>>

-----------------------------------------------------------------------------
(* The peer.                                                               *)

PeerSends ==
    /\ file.open /\ ~peer.done
    /\ peer.sent < log.case.data
    /\ file' = [file EXCEPT !.unread = @ + 1]
    /\ peer' = [peer EXCEPT !.sent = @ + 1]
    /\ UNCHANGED <<sockvars, lock, pc, own, staged, contexts, cq, log>>

\* A FIN, which leaves the other direction open, or a reset.
PeerEnds ==
    /\ file.open /\ ~peer.done
    /\ peer' = [peer EXCEPT !.done = TRUE]
    /\ file' \in {[file EXCEPT !.ended = TRUE],
                  [file EXCEPT !.ended = TRUE, !.broken = TRUE, !.unread = 0]}
    /\ UNCHANGED <<sockvars, lock, pc, own, staged, contexts, cq, log>>

-----------------------------------------------------------------------------
(* Steps of a thread.  A thread that has a context staged gives it to the  *)
(* kernel (Enter) before it takes another step.                            *)

At(t, label) == pc[t] = label /\ staged[t] = NoContext
Goto(t, label) == pc' = [pc EXCEPT ![t] = label]

\* What follows a user callback or an API call.
Home(t) == IF t \in Workers THEN "finish" ELSE "idle"

\* Where user code runs: in a user's thread, or in a receive callback.
InUserCode(t) == At(t, "idle") \/ At(t, "callback")

(* tcp_socket::on_active, by connect() or by the accepting worker.         *)

ActivateFlag(t) ==
    /\ At(t, "activate")
    /\ connected_flag' = TRUE
    /\ Goto(t, "assign")
    /\ UNCHANGED <<shutdown_gracefully, socket_handler, send_buffer, lock, own,
                   staged, contexts, cq, file, peer, log>>

ActivateAssign(t) ==
    /\ At(t, "assign")
    /\ send_buffer' = DAssigned(send_buffer, log.fresh, BufferSize)
    /\ log' = [log EXCEPT !.fresh = @ + 1]
    /\ Goto(t, "receive")
    /\ UNCHANGED <<connected_flag, shutdown_gracefully, socket_handler, lock, own,
                   staged, contexts, cq, file, peer>>

ActivateReceive(t) ==
    /\ At(t, "receive")
    /\ Prepare(t, "read", send_buffer)
    /\ Goto(t, Home(t))
    /\ UNCHANGED <<sockvars, lock, own, cq, file, peer, log>>

(* tcp_socket::send.                                                       *)

SendChecks(t) ==
    /\ InUserCode(t)
    /\ log.sends < log.case.sends
    /\ ~shutdown_gracefully /\ connected_flag
    /\ log' = [log EXCEPT !.sends = @ + 1]
    /\ Goto(t, "send")
    /\ UNCHANGED <<sockvars, lock, own, staged, contexts, cq, file, peer>>

SendLocks(t) ==
    /\ At(t, "send")
    /\ lock = NoThread /\ lock' = t
    /\ own' = [own EXCEPT ![t].first = DEmpty(send_buffer)]
    /\ Goto(t, "push")
    /\ UNCHANGED <<sockvars, staged, contexts, cq, file, peer, log>>

\* Each send() carries one byte.
SendPushes(t) ==
    /\ At(t, "push")
    /\ ~DPushSpins(send_buffer, 1)
    /\ send_buffer' \in DPushes(send_buffer, <<log.accepted + 1>>, log.fresh)
    /\ log' = [log EXCEPT !.accepted = @ + 1, !.fresh = @ + 1]
    /\ Goto(t, IF own[t].first THEN "submit" ELSE "unlock")
    /\ UNCHANGED <<connected_flag, shutdown_gracefully, socket_handler, lock, own,
                   staged, contexts, cq, file, peer>>

\* io_buffer::push with no block_size to grow by: the thread never comes back.
SendSpins(t) ==
    /\ At(t, "push")
    /\ DPushSpins(send_buffer, 1)
    /\ Goto(t, "spin")
    /\ UNCHANGED <<sockvars, lock, own, staged, contexts, cq, file, peer, log>>

SendSubmits(t) ==
    /\ At(t, "submit")
    /\ Prepare(t, "write", send_buffer)
    /\ Goto(t, "unlock")
    /\ UNCHANGED <<sockvars, lock, own, cq, file, peer, log>>

Unlocks(t) ==
    /\ At(t, "unlock")
    /\ lock' = NoThread
    /\ Goto(t, Home(t))
    /\ UNCHANGED <<sockvars, own, staged, contexts, cq, file, peer, log>>

(* socket_object::close.                                                   *)

CloseForce(t) ==
    /\ InUserCode(t)
    /\ log.calls < log.case.closes
    /\ Prepare(t, "shutdown", send_buffer)
    /\ log' = [log EXCEPT !.calls = @ + 1, !.forced = TRUE]
    /\ Goto(t, Home(t))
    /\ UNCHANGED <<sockvars, lock, own, cq, file, peer>>

CloseGraceful(t) ==
    /\ InUserCode(t)
    /\ log.calls < log.case.closes
    /\ log' = [log EXCEPT !.calls = @ + 1]
    /\ Goto(t, "close")
    /\ UNCHANGED <<sockvars, lock, own, staged, contexts, cq, file, peer>>

\* The bytes that the first close( graceful ) finds accepted.
Promise == IF log.promised = <<>> THEN <<log.accepted>> ELSE log.promised

\* Mutant: the send buffer is not looked at.
CloseNow_Hasty(t) ==
    /\ At(t, "close")
    /\ lock = NoThread /\ lock' = t
    /\ Prepare(t, "shutdown", send_buffer)
    /\ log' = [log EXCEPT !.promised = Promise]
    /\ Goto(t, "unlock")
    /\ UNCHANGED <<sockvars, own, cq, file, peer>>

CloseNow(t) ==
    /\ At(t, "close")
    /\ lock = NoThread /\ lock' = t
    /\ DEmpty(send_buffer)
    /\ Prepare(t, "shutdown", send_buffer)
    /\ log' = [log EXCEPT !.promised = Promise]
    /\ Goto(t, "unlock")
    /\ UNCHANGED <<sockvars, own, cq, file, peer>>

CloseLater(t) ==
    /\ At(t, "close")
    /\ lock = NoThread /\ lock' = t
    /\ ~DEmpty(send_buffer)
    /\ shutdown_gracefully' = TRUE
    /\ log' = [log EXCEPT !.promised = Promise]
    /\ Goto(t, "unlock")
    /\ UNCHANGED <<connected_flag, socket_handler, send_buffer, own, staged,
                   contexts, cq, file, peer>>

-----------------------------------------------------------------------------
(* io_service::io: one completion after the other.                         *)

\* Mutant: the end of the connection is ignored.
Handler_Deaf(c) ==
    CASE c.type = "read" /\ c.res > 0 -> "received"
      [] c.type = "write" /\ c.res > 0 -> "sent"
      [] c.type = "shutdown" -> "check"
      [] OTHER -> "finish"

Handler(c) ==
    CASE c.type = "read" /\ c.res > 0 -> "received"
      [] c.type = "read" /\ c.res <= 0 -> "flag"
      [] c.type = "write" /\ c.res > 0 -> "sent"
      [] c.type = "write" /\ c.res <= 0 -> "finish"
      [] c.type = "shutdown" -> "check"

TakesCqe(w) ==
    /\ At(w, "wait")
    /\ cq[w] # <<>>
    /\ LET c == Head(cq[w])
       IN  /\ own' = [own EXCEPT ![w].ctx = c]
           /\ Goto(w, Handler(contexts[c]))
           /\ log' = [log EXCEPT !.failed = @ \/ /\ contexts[c].type = "write"
                                                 /\ contexts[c].res <= 0]
    /\ cq' = [cq EXCEPT ![w] = Tail(@)]
    /\ UNCHANGED <<sockvars, lock, staged, contexts, file, peer>>

\* deallocate_context and io_uring_cqe_seen.
Finishes(w) ==
    /\ At(w, "finish")
    /\ contexts' = IF own[w].ctx = NoContext THEN contexts
                   ELSE [contexts EXCEPT ![own[w].ctx] = FreeContext]
    /\ own' = [own EXCEPT ![w].ctx = NoContext]
    /\ Goto(w, "wait")
    /\ UNCHANGED <<sockvars, lock, staged, cq, file, peer, log>>

\* io_received: submit_receiving() comes before the callback.
IoReceived(w) ==
    /\ At(w, "received")
    /\ Prepare(w, "read", send_buffer)
    /\ log' = [log EXCEPT !.received = @ + 1]
    /\ Goto(w, "callback")
    /\ UNCHANGED <<sockvars, lock, own, cq, file, peer>>

CallbackReturns(w) ==
    /\ At(w, "callback")
    /\ Goto(w, "finish")
    /\ UNCHANGED <<sockvars, lock, own, staged, contexts, cq, file, peer, log>>

\* io_sent, under the lock: pop, then elevate and submit or finish.
SentPops(w) ==
    /\ At(w, "sent")
    /\ lock = NoThread /\ lock' = w
    /\ send_buffer' = DPopped(send_buffer, contexts[own[w].ctx].res)
    /\ Goto(w, "elevate")
    /\ UNCHANGED <<connected_flag, shutdown_gracefully, socket_handler, own, staged,
                   contexts, cq, file, peer, log>>

\* Mutant: the flag that close() left is not looked at.
OnSendComplete_Forgets(w) == UNCHANGED <<contexts, staged>>

\* on_send_complete().
OnSendComplete(w) == IF shutdown_gracefully
                     THEN Prepare(w, "shutdown", send_buffer)
                     ELSE UNCHANGED <<contexts, staged>>

\* Mutant: whether anything is left is decided before elevate().
SentElevates_Early(w) ==
    /\ At(w, "elevate")
    /\ LET d == Elevated(send_buffer)
       IN  /\ send_buffer' = d
           /\ IF ~Empty(send_buffer.main)
              THEN Prepare(w, "write", d) /\ UNCHANGED log
              ELSE log' = [log EXCEPT !.completed = @ + 1] /\ OnSendComplete(w)
    /\ Goto(w, "unlock")
    /\ UNCHANGED <<connected_flag, shutdown_gracefully, socket_handler, lock, own, cq,
                   file, peer>>

SentElevates(w) ==
    /\ At(w, "elevate")
    /\ LET d == Elevated(send_buffer)
       IN  /\ send_buffer' = d
           /\ IF ~DEmpty(d)
              THEN Prepare(w, "write", d) /\ UNCHANGED log
              ELSE log' = [log EXCEPT !.completed = @ + 1] /\ OnSendComplete(w)
    /\ Goto(w, "unlock")
    /\ UNCHANGED <<connected_flag, shutdown_gracefully, socket_handler, lock, own, cq,
                   file, peer>>

\* io_shutdown: on_shutdown, which takes no lock, then the close event.
DownFlag(w) ==
    /\ At(w, "flag")
    /\ connected_flag' = FALSE
    /\ Goto(w, "destroyMain")
    /\ UNCHANGED <<shutdown_gracefully, socket_handler, send_buffer, lock, own, staged,
                   contexts, cq, file, peer, log>>

DownMain(w) ==
    /\ At(w, "destroyMain")
    /\ send_buffer' = [send_buffer EXCEPT !.main = Destroyed(@)]
    /\ log' = [log EXCEPT !.destroyed = TRUE]
    /\ Goto(w, "destroySub")
    /\ UNCHANGED <<connected_flag, shutdown_gracefully, socket_handler, lock, own, staged,
                   contexts, cq, file, peer>>

DownSub(w) ==
    /\ At(w, "destroySub")
    /\ send_buffer' = [send_buffer EXCEPT !.sub = Destroyed(@)]
    /\ Goto(w, "notify")
    /\ UNCHANGED <<connected_flag, shutdown_gracefully, socket_handler, lock, own, staged,
                   contexts, cq, file, peer, log>>

\* Mutant: the socket reads on after the close event.
DownNotify_ReadsOn(w) ==
    /\ At(w, "notify")
    /\ Prepare(w, "read", send_buffer)
    /\ log' = [log EXCEPT !.notified = @ + 1]
    /\ Goto(w, "finish")
    /\ UNCHANGED <<sockvars, lock, own, cq, file, peer>>

DownNotify(w) ==
    /\ At(w, "notify")
    /\ log' = [log EXCEPT !.notified = @ + 1]
    /\ Goto(w, "finish")
    /\ UNCHANGED <<sockvars, lock, own, staged, contexts, cq, file, peer>>

\* The shutdown completion: test, copy, zero and close are four accesses.
\* Two workers overlap when one finds the descriptor that another has found, and not yet
\* taken out of the member.
ShutChecks(w) ==
    /\ At(w, "check")
    /\ \/ /\ socket_handler # 0
          /\ Goto(w, "copy")
          /\ log' = [log EXCEPT !.overlap = @ \/ \E v \in Workers : pc[v] \in {"copy", "zero"}]
       \/ /\ socket_handler = 0
          /\ Goto(w, "finish")
          /\ UNCHANGED log
    /\ UNCHANGED <<sockvars, lock, own, staged, contexts, cq, file, peer>>

ShutCopies(w) ==
    /\ At(w, "copy")
    /\ own' = [own EXCEPT ![w].fd = socket_handler]
    /\ Goto(w, "zero")
    /\ UNCHANGED <<sockvars, lock, staged, contexts, cq, file, peer, log>>

\* Mutants: the mark of a closed socket is -1; the member is left as it is.
ShutZeroes_MinusOne(w) ==
    /\ At(w, "zero")
    /\ socket_handler' = -1
    /\ Goto(w, "closeFd")
    /\ UNCHANGED <<connected_flag, shutdown_gracefully, send_buffer, lock, own, staged,
                   contexts, cq, file, peer, log>>
ShutZeroes_Not(w) ==
    /\ At(w, "zero")
    /\ Goto(w, "closeFd")
    /\ UNCHANGED <<sockvars, lock, own, staged, contexts, cq, file, peer, log>>

ShutZeroes(w) ==
    /\ At(w, "zero")
    /\ socket_handler' = 0
    /\ Goto(w, "closeFd")
    /\ UNCHANGED <<connected_flag, shutdown_gracefully, send_buffer, lock, own, staged,
                   contexts, cq, file, peer, log>>

ShutCloses(w) ==
    /\ At(w, "closeFd")
    /\ log' = [log EXCEPT !.closed = Append(@, [by |-> w, fd |-> own[w].fd])]
    /\ file' = IF own[w].fd = Fd
               THEN [open |-> FALSE, unread |-> 0, ended |-> TRUE, broken |-> TRUE]
               ELSE file
    /\ Goto(w, "finish")
    /\ UNCHANGED <<sockvars, lock, own, staged, contexts, cq, peer>>

-----------------------------------------------------------------------------

Init ==
    /\ connected_flag = FALSE /\ shutdown_gracefully = FALSE
    /\ socket_handler = Fd
    /\ send_buffer = NoDoubleBuffer
    /\ lock = NoThread
    /\ \E a \in Threads :
          pc = [t \in Threads |-> IF t = a THEN "activate"
                                  ELSE IF t \in Workers THEN "wait" ELSE "idle"]
    /\ own = [t \in Threads |-> [ctx |-> NoContext, fd |-> 0, first |-> FALSE]]
    /\ staged = [t \in Threads |-> NoContext]
    /\ contexts = [c \in Contexts |-> FreeContext]
    /\ cq = [w \in Workers |-> <<>>]
    /\ file = [open |-> TRUE, unread |-> 0, ended |-> FALSE, broken |-> FALSE]
    /\ peer = [sent |-> 0, done |-> FALSE]
    /\ \E case \in Cases :
          log = [case |-> case, sends |-> 0, calls |-> 0, fresh |-> 1, accepted |-> 0,
                 wire |-> <<>>, received |-> 0, completed |-> 0, notified |-> 0,
                 promised |-> <<>>, closing |-> FALSE, forced |-> FALSE, failed |-> FALSE,
                 destroyed |-> FALSE, refused |-> {}, overlap |-> FALSE, closed |-> <<>>]

\* Steps a thread takes by itself once it has begun something.
Proceeds(t) ==
    \/ Enter(t) \/ Refuses(t)
    \/ ActivateFlag(t) \/ ActivateAssign(t) \/ ActivateReceive(t)
    \/ SendLocks(t) \/ SendPushes(t) \/ SendSpins(t) \/ SendSubmits(t)
    \/ CloseNow(t) \/ CloseLater(t) \/ Unlocks(t)

\* Steps of user code.
Calls(t) == SendChecks(t) \/ CloseForce(t) \/ CloseGraceful(t)

Handles(w) ==
    \/ TakesCqe(w) \/ Finishes(w) \/ IoReceived(w) \/ CallbackReturns(w)
    \/ SentPops(w) \/ SentElevates(w)
    \/ DownFlag(w) \/ DownMain(w) \/ DownSub(w) \/ DownNotify(w)
    \/ ShutChecks(w) \/ ShutCopies(w) \/ ShutZeroes(w) \/ ShutCloses(w)

Kernel(c) == KernelReads(c) \/ KernelWrites(c) \/ KernelShutsDown(c)

Next == \/ \E t \in Threads : Proceeds(t) \/ Calls(t)
        \/ \E w \in Workers : Handles(w)
        \/ \E c \in Contexts : Kernel(c) \/ StdinAnswers(c)
        \/ PeerSends \/ PeerEnds

Spec == Init /\ [][Next]_vars

\* Threads are scheduled, workers come back from callbacks, and the kernel answers
\* what it can answer.  (Every role has finitely much to do within the bounds, so
\* fairness of the role is fairness of each of its members.)  Nothing is assumed
\* of the peer, of user code or of stdin.
FairSpec == /\ Spec
            /\ WF_vars(\E t \in Threads : Proceeds(t))
            /\ WF_vars(\E w \in Workers : Handles(w))
            /\ WF_vars(\E c \in Contexts : Kernel(c))

-----------------------------------------------------------------------------
(* Properties.                                                             *)

Labels == {"idle", "wait", "activate", "assign", "receive", "send", "push", "spin",
           "submit", "unlock", "close", "finish", "received", "callback", "sent",
           "elevate", "flag", "destroyMain", "destroySub", "notify",
           "check", "copy", "zero", "closeFd"}

TypeOK ==
    /\ {connected_flag, shutdown_gracefully} \subseteq BOOLEAN
    /\ socket_handler \in {Stdin, Fd}
    /\ send_buffer \in [main : [raw : Nat, data : Seq(Nat), size : Nat, block : Nat],
                        sub : [raw : Nat, data : Seq(Nat), size : Nat, block : Nat]]
    /\ lock \in Threads \cup {NoThread}
    /\ pc \in [Threads -> Labels]
    /\ own \in [Threads -> [ctx : Contexts \cup {NoContext}, fd : {Stdin, Fd},
                            first : BOOLEAN]]
    /\ staged \in [Threads -> Contexts \cup {NoContext}]
    /\ cq \in [Workers -> Seq(Contexts)]

\* The contexts that are under way: taken from the pool and not yet handled to the
\* point where the handler submits their successor.
UnderWay(type, over) ==
    {c \in Contexts : /\ contexts[c].st # "free"
                      /\ contexts[c].type = type
                      /\ ~\E w \in Workers : own[w].ctx = c /\ pc[w] \in over}

\* The worker that is between a receive completion and the end of its callback.
InReceive(w) == /\ own[w].ctx # NoContext
                /\ contexts[own[w].ctx].type = "read"

\* recv_bind_buffer and recv_buffer have no lock.  What keeps them consistent is that
\* a socket has one read at a time, and that the next one, which is submitted before
\* recv_event runs, is completed on the ring of the thread that runs it.
ReceiveSerial ==
    /\ Cardinality(UnderWay("read", Labels \ {"received", "flag"})) <= 1
    /\ Cardinality({w \in Workers : InReceive(w)}) <= 1
    /\ \A w \in Workers : InReceive(w) =>
          \A c \in UnderWay("read", {}) : contexts[c].ring = w

\* send() and io_sent never have two writes of one socket in the kernel, whoever
\* holds the lock in between and even when on_shutdown destroys the buffer meanwhile.
OneWrite == Cardinality(UnderWay("write", {"unlock", "finish"})) <= 1

\* Writes are submitted one at a time, and until on_shutdown destroys the buffer, what the
\* kernel puts on the wire is the accepted bytes, in order, none twice and none skipped.
WireInOrder == OneWrite /\ (~log.destroyed => log.wire = [i \in 1..Len(log.wire) |-> i])

\* The peer and the program left the connection alone, apart from graceful closes.
Undisturbed == /\ ~log.forced /\ ~log.failed /\ ~log.destroyed /\ ~peer.done
               /\ socket_handler = Fd

\* close( graceful ) keeps its promise: when the shutdown request goes to the kernel,
\* every byte that was accepted before the (first) call is on the wire.
GracefulDrains ==
    Undisturbed /\ log.closing => \A i \in DOMAIN log.promised :
                                     Len(log.wire) >= log.promised[i]

\* The close event is reported once, and nothing is received after it.
CloseLast ==
    [][/\ log'.notified <= 1
       /\ log.notified > 0 => log'.received = log.received]_vars

\* send_complete_event is reported when everything accepted has left, as long as the
\* descriptor is still the connection's and the buffer has not been destroyed.
CompleteTruthful ==
    [][log'.completed # log.completed /\ ~log.destroyed /\ socket_handler = Fd =>
          Len(log.wire) = log.accepted]_vars

\* Whatever the shutdown completions on different rings do to each other, no worker closes
\* a second descriptor, the connection's is closed or about to be exactly when the member
\* is reset, and a descriptor is closed twice, or another's is, only after two workers have
\* overlapped.
ClosedOnceEach ==
    /\ \A i, j \in DOMAIN log.closed : log.closed[i].by = log.closed[j].by => i = j
    /\ socket_handler # Fd <=> \/ \E i \in DOMAIN log.closed : log.closed[i].fd = Fd
                               \/ \E w \in Workers : pc[w] = "closeFd" /\ own[w].fd = Fd
    /\ ~log.overlap => /\ Len(log.closed) <= 1
                       /\ \A i \in DOMAIN log.closed : log.closed[i].fd = Fd

\* A read was submitted after socket_handler became 0: it waits for stdin.
Misdirected == \E c \in Contexts : Pending(c, "read", Stdin)

\* A thread is in the endless loop of io_buffer::push.
Spinning == \E t \in Threads : pc[t] = "spin"

\* Once the shutdown request of a close() is with the kernel, the close event follows,
\* unless a thread spins, or the read that was to report it waits for stdin or was refused.
CloseAnswered ==
    log.closing ~> (log.notified > 0 \/ Misdirected \/ Spinning \/ "read" \in log.refused)

\* close() followed by waiting for the close event terminates.
CloseNotifies == log.closing ~> log.notified > 0

\* A graceful close that has to wait for the send buffer is not forgotten: its
\* shutdown request follows unless a write failed, it or a write was refused, or the
\* connection ended.
GracefulCloses ==
    shutdown_gracefully ~> \/ log.closing \/ log.failed \/ log.notified > 0 \/ Spinning
                           \/ log.refused \cap {"write", "shutdown"} # {}
=============================================================================
