--------------------------- MODULE UdpSocketProofs ---------------------------
(***************************************************************************)
(* The proofs about UdpSocket.tla, for any number of threads, any          *)
(* addresses, any block size and any bounds.                               *)
(*                                                                         *)
(* The inductive invariant is a conjunction of layers, as in               *)
(* TcpSocketProofs.tla: where each context is (Places), who has the lock   *)
(* (Locks), who reads (Reads), what cannot be before stop() (Stops), who   *)
(* writes (Writes), which bytes are where (Bytes), and what a shutdown has *)
(* waited for (Drains).  There are fewer places than in a tcp_socket, for  *)
(* what the code does inside its lock is one step of the model.            *)
(***************************************************************************)
EXTENDS UdpSocket, IoBufferProofs, FiniteSetTheorems, WellFoundedInduction

-----------------------------------------------------------------------------
(* The inductive invariant.                                                *)

Context == [st : {"free", "pending", "done", "taken"},
            type : {"none", "read", "write", "shutdown"},
            ring : Workers \cup {NoThread}, fd : {Stdin, Fd},
            addr : Peers \cup {NoPeer}, raw : Nat, len : Nat, res : Int]

File == [inbox : Seq([from : Peers, len : {0, 1}]), shut : BOOLEAN]

Log == [fresh : Nat \ {0}, to : Seq(Peers),
        wire : Seq([to : Peers \cup {NoPeer}, data : Seq(Nat)]), sent : Seq(Nat),
        arrived : Nat, notified : Nat, empty : BOOLEAN, odd : BOOLEAN, failed : BOOLEAN,
        promised : Nat, stopping : BOOLEAN, stopped : BOOLEAN]

\* The types of everything, the history too.
Types == /\ TypeOK
         /\ contexts \in [Contexts -> Context]
         /\ file \in File
         /\ log \in Log

InUse(c, type) == contexts[c].st # "free" /\ contexts[c].type = type

\* Where a worker is in the code while it handles a context of a type.
Stages == [none |-> {},
           read |-> {"received", "callback", "push", "spin", "poll", "down", "finish"},
           write |-> {"sent", "finish"},
           shutdown |-> {"zero", "closeFd", "finish"}]

UserLabels == {"idle", "activate", "push", "spin", "poll"}

\* A context that was taken from a ring is with one worker, which is where the handler of
\* its type is.
Places ==
    /\ \A w \in Workers :
          \/ own[w].ctx = NoContext /\ pc[w] = "wait"
          \/ /\ own[w].ctx # NoContext /\ contexts[own[w].ctx].st = "taken"
             /\ pc[w] \in Stages[contexts[own[w].ctx].type]
             /\ pc[w] = "sent" => contexts[own[w].ctx].res > 0
    /\ \A u \in Users : own[u].ctx = NoContext /\ pc[u] \in UserLabels
    /\ \A v, w \in Workers : own[v].ctx = own[w].ctx /\ own[v].ctx # NoContext => v = w
    /\ \A c \in Contexts : contexts[c].st = "taken" => \E w \in Workers : own[w].ctx = c
    /\ \A c \in Contexts : contexts[c].st # "free" => contexts[c].type # "none"

Locks == \A t \in Threads : lock = t <=> pc[t] \in {"push", "spin"}

Activating(t) == pc[t] = "activate"

\* Until activate() or run() returns nothing has been done to the socket.
Untouched ==
    /\ send_buffer = NoDoubleBuffer /\ lock = NoThread
    /\ \A c \in Contexts : contexts[c].st = "free"
    /\ log.to = <<>> /\ log.sent = <<>> /\ log.notified = 0 /\ ~log.stopping

Activates ==
    \A t \in Threads : Activating(t) =>
        Untouched /\ \A s \in Threads \ {t} : pc[s] \in {"idle", "wait"}

\* A context of a type whose handler has not yet come to its successor.
Live(c, type, label) ==
    /\ contexts[c].type = type
    /\ \/ contexts[c].st \in {"pending", "done"}
       \/ \E w \in Workers : own[w].ctx = c /\ pc[w] = label

Reading(c) == Live(c, "read", "received")
Writing(c) == Live(c, "write", "sent")

Reads ==
    /\ \A c, d \in Contexts : Reading(c) /\ Reading(d) => c = d
    /\ \/ \E c \in Contexts : Reading(c)
       \/ log.stopping \/ log.empty
       \/ \E t \in Threads : Activating(t)

\* Before stop() is called nothing is shut, and only an empty datagram ends a read.
Stops ==
    ~log.stopping =>
        /\ socket_handler = Fd /\ ~shutdown_gracefully /\ ~file.shut
        /\ \A c \in Contexts : ~InUse(c, "shutdown")
        /\ \A c \in Contexts : contexts[c].st # "free" => contexts[c].fd = Fd
        /\ \A c \in Contexts :
              contexts[c].st = "done" /\ contexts[c].type = "read" =>
                  contexts[c].res > 0 \/ log.empty

main == send_buffer.main
sub == send_buffer.sub

\* While a write is under way there are bytes in the buffer, unless it was destroyed.
Writes ==
    /\ Solid(main) /\ Solid(sub)
    /\ \A c, d \in Contexts : Writing(c) /\ Writing(d) => c = d
    /\ \A c \in Contexts : Writing(c) => main = NoBuffer \/ ~Empty(main)

\* The calls of send_to() that are past the push.
Accepted == IF lock = NoThread THEN Len(log.to) ELSE Len(log.to) - 1

\* How many bytes io_sent has popped.
Gone == Accepted - Len(main.data) - Len(sub.data)

\* The buffer holds the bytes that follow the popped ones.
Held == /\ Gone \in Nat
        /\ Follows(main.data, Gone)
        /\ Follows(sub.data, Gone + Len(main.data))
        /\ Follows(log.sent, 0)

\* A write is about bytes at the front of the main buffer; what has left is what was
\* popped, and the datagram of a write that has succeeded and not been handled.
WriteOf(c) ==
    LET x == contexts[c]
    IN  IF x.st = "pending"
        THEN /\ x.raw = main.raw /\ x.len \in 1..Len(main.data)
             /\ Len(log.sent) = Gone
        ELSE IF x.res > 0
             THEN x.res <= Len(main.data) /\ Len(log.sent) = Gone + x.res
             ELSE Len(log.sent) = Gone

OnWire == /\ \A c \in Contexts : Writing(c) => WriteOf(c)
          /\ (\A c \in Contexts : ~Writing(c)) => Len(log.sent) = Gone

\* The bytes, until io_shutdown destroys the buffer.
Bytes ==
    /\ log.notified > 0 => send_buffer = NoDoubleBuffer
    /\ log.notified = 0 => /\ Held /\ OnWire
                           /\ main = NoBuffer => \E t \in Threads : Activating(t)

\* A shutdown is asked for when what stop() waits for has left.
Drains ==
    /\ log.promised <= Len(log.to)
    /\ log.notified = 0 /\ (\E c \in Contexts : InUse(c, "shutdown")) =>
          Len(log.sent) >= log.promised

IInv == /\ Types /\ Places /\ Locks /\ Activates /\ Reads /\ Stops /\ Writes /\ Bytes
        /\ Drains

-----------------------------------------------------------------------------
(* Facts about the state.                                                  *)

\* The threads of a run, and who they are not.
LEMMA ThreadFacts ==
    /\ Workers \subseteq Threads /\ Users \subseteq Threads
    /\ \A t \in Threads : t \in Workers \/ t \in Users
    /\ \A w \in Workers : w \notin Users
    /\ NoThread \notin Threads
    /\ NoContext \notin Contexts
BY UdpSocketAssumption DEF Threads, Contexts, NoContext

\* The members of one context.
LEMMA ContextFields ==
    ASSUME NEW x \in Context
    PROVE  /\ x.st \in {"free", "pending", "done", "taken"}
           /\ x.type \in {"none", "read", "write", "shutdown"}
           /\ x.ring \in Workers \cup {NoThread} /\ x.fd \in {Stdin, Fd}
           /\ x.addr \in Peers \cup {NoPeer}
           /\ x.raw \in Nat /\ x.len \in Nat /\ x.res \in Int
BY DEF Context

Own == [ctx : Contexts \cup {NoContext}, addr : Peers \cup {NoPeer}]

\* The types, each variable's by itself.
LEMMA TypeFacts ==
    ASSUME Types
    PROVE  /\ send_buffer \in DoubleBuffer /\ main \in Buffer /\ sub \in Buffer
           /\ socket_handler \in {Stdin, Fd} /\ shutdown_gracefully \in BOOLEAN
           /\ lock \in Threads \cup {NoThread}
           /\ pc \in [Threads -> Labels]
           /\ own \in [Threads -> Own]
           /\ contexts \in [Contexts -> Context]
           /\ file \in File /\ log \in Log
           /\ \A c \in Contexts : contexts[c] \in Context
           /\ \A t \in Threads : own[t].ctx \in Contexts \cup {NoContext}
<1>1. send_buffer \in DoubleBuffer
  BY DEF Types, TypeOK, DoubleBuffer, Buffer
<1>2. main \in Buffer /\ sub \in Buffer
  BY <1>1, DoubleFields DEF main, sub
<1>3. /\ socket_handler \in {Stdin, Fd} /\ shutdown_gracefully \in BOOLEAN
      /\ lock \in Threads \cup {NoThread}
      /\ pc \in [Threads -> Labels]
      /\ own \in [Threads -> Own]
      /\ contexts \in [Contexts -> Context]
      /\ file \in File /\ log \in Log
  BY DEF Types, TypeOK, Own
<1>4. \A c \in Contexts : contexts[c] \in Context
  BY <1>3
<1>5. \A t \in Threads : own[t].ctx \in Contexts \cup {NoContext}
  BY <1>3 DEF Own
<1>6. QED
  BY <1>1, <1>2, <1>3, <1>4, <1>5

\* The types of the next state from those of its variables.
LEMMA TypesFollow ==
    ASSUME send_buffer' \in DoubleBuffer,
           socket_handler' \in {Stdin, Fd}, shutdown_gracefully' \in BOOLEAN,
           lock' \in Threads \cup {NoThread},
           pc' \in [Threads -> Labels], own' \in [Threads -> Own],
           contexts' \in [Contexts -> Context], file' \in File, log' \in Log
    PROVE  Types'
<1>1. send_buffer' \in [main : [raw : Nat, data : Seq(Nat), size : Nat, block : Nat],
                        sub : [raw : Nat, data : Seq(Nat), size : Nat, block : Nat]]
  BY DEF DoubleBuffer, Buffer
<1>2. \A c \in Contexts : /\ contexts'[c].st \in {"free", "pending", "done", "taken"}
                          /\ contexts'[c].ring \in Workers \cup {NoThread}
  <2>1. \A c \in Contexts : contexts'[c] \in Context
    OBVIOUS
  <2>2. QED
    BY <2>1, ContextFields
<1>3. own' \in [Threads -> [ctx : Contexts \cup {NoContext}, addr : Peers \cup {NoPeer}]]
  BY DEF Own
<1>4. QED
  BY <1>1, <1>2, <1>3 DEF Types, TypeOK

\* The fields of the history.
LEMMA LogFields ==
    ASSUME log \in Log
    PROVE  /\ log.fresh \in Nat \ {0} /\ log.to \in Seq(Peers)
           /\ log.sent \in Seq(Nat)
           /\ log.arrived \in Nat /\ log.notified \in Nat /\ log.promised \in Nat
           /\ log.empty \in BOOLEAN /\ log.odd \in BOOLEAN /\ log.failed \in BOOLEAN
           /\ log.stopping \in BOOLEAN /\ log.stopped \in BOOLEAN
           /\ Len(log.to) \in Nat /\ Len(log.sent) \in Nat
<1>1. log.to \in Seq(Peers) /\ log.sent \in Seq(Nat)
  BY DEF Log
<1>2. Len(log.to) \in Nat /\ Len(log.sent) \in Nat
  BY <1>1, LenProperties
<1>3. QED
  BY <1>1, <1>2 DEF Log

\* Thread t goes from one label to another, and no other thread moves.
Walks(t, a, b) == pc[t] = a /\ pc' = [pc EXCEPT ![t] = b]

\* What such a step leaves the labels.
LEMMA WalkFacts ==
    ASSUME Types, NEW t \in Threads, NEW a, NEW b \in Labels, Walks(t, a, b)
    PROVE  /\ pc' \in [Threads -> Labels]
           /\ pc[t] = a /\ pc'[t] = b
           /\ \A s \in Threads \ {t} : pc'[s] = pc[s]
BY TypeFacts DEF Walks

\* An assignment to a local variable leaves the context a thread handles.
LEMMA OwnAddr ==
    ASSUME Types, NEW t \in Threads, NEW x \in Peers \cup {NoPeer},
           own' = [own EXCEPT ![t].addr = x]
    PROVE  own' \in [Threads -> Own] /\ \A s \in Threads : own'[s].ctx = own[s].ctx
<1> DEFINE y == [own[t] EXCEPT !.addr = x]
<1>1. own \in [Threads -> Own] /\ own[t] \in Own
  BY TypeFacts
<1>2. y \in Own /\ y.ctx = own[t].ctx
  BY <1>1 DEF Own
<1>3. own' = [own EXCEPT ![t] = y]
  BY <1>1
<1> HIDE DEF y
<1>4. QED
  BY <1>1, <1>2, <1>3

\* An assignment of the context leaves those of the other threads.
LEMMA OwnCtx ==
    ASSUME Types, NEW t \in Threads, NEW x \in Contexts \cup {NoContext},
           own' = [own EXCEPT ![t].ctx = x]
    PROVE  /\ own' \in [Threads -> Own] /\ own'[t].ctx = x
           /\ \A s \in Threads \ {t} : own'[s].ctx = own[s].ctx
<1> DEFINE y == [own[t] EXCEPT !.ctx = x]
<1>1. own \in [Threads -> Own] /\ own[t] \in Own
  BY TypeFacts
<1>2. y \in Own /\ y.ctx = x
  BY <1>1 DEF Own
<1>3. own' = [own EXCEPT ![t] = y]
  BY <1>1
<1> HIDE DEF y
<1>4. QED
  BY <1>1, <1>2, <1>3

-----------------------------------------------------------------------------
(* Steps of a thread that submit requests, or none.                        *)

\* No thread changes the context it handles.
SameCtx == \A t \in Threads : own'[t].ctx = own[t].ctx

\* Thread t goes from one label to another and submits the requests N, at most one, of
\* a type.
Moves(t, a, b, N, type) ==
    /\ Walks(t, a, b) /\ SameCtx
    /\ N \subseteq Contexts /\ \A c, d \in N : c = d
    /\ \A c \in N : /\ contexts[c].st = "free"
                    /\ contexts'[c].st = "pending" /\ contexts'[c].type = type
                    /\ contexts'[c].fd = socket_handler
    /\ \A c \in Contexts \ N : contexts'[c] = contexts[c]

\* Such a step goes on in the handler that the thread is in.
Proper(t, a, b) ==
    IF t \in Workers
    THEN /\ a # "wait" /\ b # "sent"
         /\ \A type \in {"none", "read", "write", "shutdown"} :
               a \in Stages[type] => b \in Stages[type]
    ELSE b \in UserLabels

\* After it every context is where it was.
LEMMA MovesPlaces ==
    ASSUME Types, Places, NEW t \in Threads, NEW a, NEW b \in Labels, NEW N,
           NEW type \in {"read", "write", "shutdown", "none"}, N # {} => type # "none",
           Moves(t, a, b, N, type), Proper(t, a, b)
    PROVE  Places'
<1>1. /\ pc[t] = a /\ pc'[t] = b /\ \A s \in Threads \ {t} : pc'[s] = pc[s]
      /\ \A s \in Threads : own'[s].ctx = own[s].ctx
  BY WalkFacts DEF Moves, SameCtx
<1>2. /\ \A c \in Contexts : contexts[c].st = "taken" => contexts'[c] = contexts[c]
      /\ \A c \in Contexts : contexts'[c].st = "taken" => contexts[c].st = "taken"
      /\ \A c \in Contexts : contexts'[c].st # "free" => contexts'[c].type # "none"
  BY DEF Moves, Places
<1>3. ASSUME NEW w \in Workers
      PROVE  \/ own'[w].ctx = NoContext /\ pc'[w] = "wait"
             \/ /\ own'[w].ctx # NoContext /\ contexts'[own'[w].ctx].st = "taken"
                /\ pc'[w] \in Stages[contexts'[own'[w].ctx].type]
                /\ pc'[w] = "sent" => contexts'[own'[w].ctx].res > 0
  <2>1. /\ w \in Threads /\ own'[w].ctx = own[w].ctx
        /\ own[w].ctx \in Contexts \cup {NoContext}
    BY <1>1, ThreadFacts, TypeFacts
  <2>2. CASE w # t
    BY <1>1, <1>2, <2>1, <2>2 DEF Places
  <2>3. CASE w = t
    <3>1. own[w].ctx # NoContext /\ contexts[own[w].ctx].st = "taken"
          /\ a \in Stages[contexts[own[w].ctx].type]
      BY <1>1, <2>3 DEF Places, Proper
    <3>2. contexts[own[w].ctx].type \in {"none", "read", "write", "shutdown"}
      BY <2>1, <3>1, TypeFacts, ContextFields
    <3>3. b \in Stages[contexts[own[w].ctx].type] /\ b # "sent"
      BY <2>3, <3>1, <3>2 DEF Proper
    <3>4. QED
      BY <1>1, <1>2, <2>1, <2>3, <3>1, <3>3
  <2>4. QED
    BY <2>2, <2>3
<1>4. ASSUME NEW u \in Users
      PROVE  own'[u].ctx = NoContext /\ pc'[u] \in UserLabels
  BY <1>1, ThreadFacts DEF Places, Proper
<1>5. \A c \in Contexts : contexts'[c].st = "taken" => \E w \in Workers : own'[w].ctx = c
  BY <1>1, <1>2, ThreadFacts DEF Places
<1>6. \A v, w \in Workers :
          own'[v].ctx = own'[w].ctx /\ own'[v].ctx # NoContext => v = w
  BY <1>1, ThreadFacts DEF Places
<1>7. QED
  BY <1>2, <1>3, <1>4, <1>5, <1>6 DEF Places

\* The rights to read and write after it: those of the new requests, and those that were,
\* without that of the context whose handler has come to its successor.
LEMMA MovesRights ==
    ASSUME Types, Places, NEW t \in Threads, NEW a, NEW b \in Labels \ {"received", "sent"},
           NEW N, NEW type, Moves(t, a, b, N, type)
    PROVE  \A c \in Contexts :
              /\ \A k : InUse(c, k)' <=> InUse(c, k) \/ (c \in N /\ type = k)
              /\ Reading(c)' <=> \/ /\ Reading(c)
                                    /\ ~(t \in Workers /\ a = "received" /\ own[t].ctx = c)
                                 \/ c \in N /\ type = "read"
              /\ Writing(c)' <=> \/ /\ Writing(c)
                                    /\ ~(t \in Workers /\ a = "sent" /\ own[t].ctx = c)
                                 \/ c \in N /\ type = "write"
<1>1. /\ pc[t] = a /\ pc'[t] = b /\ \A s \in Threads \ {t} : pc'[s] = pc[s]
      /\ \A s \in Threads : own'[s].ctx = own[s].ctx
  BY WalkFacts DEF Moves, SameCtx
<1> TAKE c \in Contexts
<1>2. \A w \in Workers : own[w].ctx = c => contexts[c].st = "taken"
  BY ThreadFacts DEF Places
<1>3. CASE c \in N
  <2>1. \A w \in Workers : own[w].ctx # c /\ own'[w].ctx # c
    BY <1>1, <1>2, <1>3, ThreadFacts DEF Moves
  <2>2. /\ contexts[c].st = "free" /\ contexts'[c].st = "pending"
        /\ contexts'[c].type = type
    BY <1>3 DEF Moves
  <2>3. QED
    BY <1>3, <2>1, <2>2 DEF InUse, Reading, Writing, Live
<1>4. CASE c \notin N
  <2>1. contexts'[c] = contexts[c]
    BY <1>4 DEF Moves
  <2>2. \A k : InUse(c, k)' <=> InUse(c, k)
    BY <2>1 DEF InUse
  <2>3. ASSUME NEW k, NEW label \in {"received", "sent"}
        PROVE  Live(c, k, label)' <=>
                  /\ Live(c, k, label)
                  /\ ~(t \in Workers /\ a = label /\ own[t].ctx = c)
    <3>1. ASSUME NEW w \in Workers
          PROVE  (own'[w].ctx = c /\ pc'[w] = label)
                  <=> (own[w].ctx = c /\ pc[w] = label /\ w # t)
      BY <1>1, ThreadFacts
    <3>2. CASE t \in Workers /\ own[t].ctx = c
      <4>1. \A w \in Workers : own[w].ctx = c => w = t
        BY <3>2, ThreadFacts DEF Places
      <4>2. contexts[c].st = "taken"
        BY <1>2, <3>2
      <4>3. QED
        BY <1>1, <2>1, <3>1, <3>2, <4>1, <4>2 DEF Live
    <3>3. CASE ~(t \in Workers /\ own[t].ctx = c)
      BY <2>1, <3>1, <3>3 DEF Live
    <3>4. QED
      BY <3>2, <3>3
  <2>4. QED
    BY <1>4, <2>2, <2>3 DEF Reading, Writing
<1>5. QED
  BY <1>3, <1>4

\* There is a first free context when there is a free one.
LEMMA FirstFreeIsFree ==
    ASSUME Free # {}
    PROVE  FirstFree \in Contexts /\ contexts[FirstFree].st = "free"
<1> DEFINE R == OpToRel(<, Nat)
<1>1. IsWellFoundedOn(R, Nat)
  BY NatLessThanWellFounded
<1>2. \A m, n \in Nat : <<m, n>> \in R <=> m < n
  BY DEF OpToRel
<1> HIDE DEF R
<1>3. Free \subseteq Nat
  BY UdpSocketAssumption DEF Free, Contexts
<1>4. PICK m \in Free : \A n \in Free : <<n, m>> \notin R
  BY <1>1, <1>3, WFMin, Zenon
<1>5. \A n \in Free : m <= n
  <2>1. TAKE n \in Free
  <2>2. m \in Nat /\ n \in Nat /\ ~(n < m)
    BY <1>2, <1>3, <1>4
  <2>3. QED
    BY <2>2
<1>6. FirstFree \in Free
  BY <1>5 DEF FirstFree
<1>7. QED
  BY <1>6 DEF Free

\* Thread t goes from one label to another and submits one request, about x.
Asks(t, a, b, c, x) ==
    /\ Walks(t, a, b) /\ SameCtx
    /\ c \in Contexts /\ contexts[c].st = "free"
    /\ contexts' \in [Contexts -> Context]
    /\ contexts'[c].st = "pending" /\ contexts'[c].fd = socket_handler
    /\ contexts'[c].type = x.type /\ contexts'[c].raw = x.raw /\ contexts'[c].len = x.len
    /\ \A d \in Contexts \ {c} : contexts'[d] = contexts[d]

\* What submit_receiving, submit_sending and submit_shutdown do.
LEMMA SubmitsAsks ==
    ASSUME Types, NEW t \in Threads, NEW a, NEW b, NEW x \in Context,
           Walks(t, a, b), SameCtx, Submits(t, x)
    PROVE  \E c \in Contexts : Asks(t, a, b, c, x)
<1> DEFINE c == FirstFree
<1>1. c \in Contexts /\ contexts[c].st = "free"
  BY FirstFreeIsFree DEF Submits
<1>2. PICK r \in RingsOf(t) :
          contexts' = [contexts EXCEPT ![c] =
              [x EXCEPT !.st = "pending", !.ring = r, !.fd = socket_handler]]
  BY DEF Submits
<1> HIDE DEF c
<1> DEFINE y == [x EXCEPT !.st = "pending", !.ring = r, !.fd = socket_handler]
<1>3. r \in Workers /\ socket_handler \in {Stdin, Fd}
  BY TypeFacts DEF RingsOf
<1>4. /\ y \in Context /\ y.st = "pending" /\ y.fd = socket_handler
      /\ y.type = x.type /\ y.raw = x.raw /\ y.len = x.len
  BY <1>3 DEF Context
<1>5. contexts' = [contexts EXCEPT ![c] = y]
  BY <1>2
<1> HIDE DEF y
<1>6. /\ contexts' \in [Contexts -> Context] /\ contexts'[c] = y
      /\ \A d \in Contexts \ {c} : contexts'[d] = contexts[d]
  BY <1>1, <1>4, <1>5, TypeFacts
<1>7. QED
  BY <1>1, <1>4, <1>6 DEF Asks

\* Such a step in the terms of the lemmas above.
LEMMA AsksMoves ==
    ASSUME NEW t \in Threads, NEW a, NEW b, NEW c, NEW x, Asks(t, a, b, c, x)
    PROVE  Moves(t, a, b, {c}, x.type)
BY DEF Asks, Moves

\* A step without a request.
LEMMA CalmMoves ==
    ASSUME NEW t \in Threads, NEW a, NEW b, Walks(t, a, b), contexts' = contexts, SameCtx
    PROVE  Moves(t, a, b, {}, "none")
BY DEF Moves

-----------------------------------------------------------------------------
(* What keeps each layer.                                                  *)

\* Some thread is in a handler or in a call, or some request is under way: nobody is in
\* on_active().
LEMMA NoneActivates ==
    ASSUME Activates,
           \/ \E t \in Threads : pc[t] \notin {"idle", "wait", "activate"}
           \/ \E c \in Contexts : contexts[c].st # "free"
    PROVE  \A t \in Threads : ~Activating(t)
BY DEF Activates, Activating, Untouched

\* User code runs after on_active().
LEMMA UserCodeIsLater ==
    ASSUME NEW t \in Threads, InUserCode(t)
    PROVE  \A s \in Threads : ~Activating(s)
BY DEF InUserCode, Activating

\* Nobody comes back to on_active().
LEMMA ActivatesKept ==
    ASSUME \A t \in Threads : ~Activating(t), NEW t \in Threads, NEW a,
           NEW b \in Labels \ {"activate"}, Types, Walks(t, a, b)
    PROVE  Activates' /\ \A s \in Threads : ~Activating(s)'
BY WalkFacts DEF Activates, Activating

\* The lock stays with whom it is.
LEMMA LocksKept ==
    ASSUME Types, Locks, lock' = lock, NEW t \in Threads, NEW a, NEW b \in Labels,
           Walks(t, a, b), a \in {"push", "spin"} <=> b \in {"push", "spin"}
    PROVE  Locks'
<1>1. pc[t] = a /\ pc'[t] = b /\ \A s \in Threads \ {t} : pc'[s] = pc[s]
  BY WalkFacts
<1>2. QED
  BY <1>1 DEF Locks

\* The right to read stays with whom it is.
LEMMA ReadsKept ==
    ASSUME Reads, \A c \in Contexts : Reading(c)' <=> Reading(c),
           log.stopping => log'.stopping, log.empty => log'.empty,
           \A t \in Threads : Activating(t) => Activating(t)'
    PROVE  Reads'
BY DEF Reads

\* A step that asks for no shutdown, and does not shut anything itself.
LEMMA StopsKept ==
    ASSUME Stops, NEW t \in Threads, NEW a, NEW b, NEW N, NEW type, type # "shutdown",
           Moves(t, a, b, N, type), log.stopping => log'.stopping,
           log'.empty = log.empty,
           ~log'.stopping => /\ socket_handler' = socket_handler
                             /\ shutdown_gracefully' = shutdown_gracefully
                             /\ file'.shut = file.shut
    PROVE  Stops'
<1> SUFFICES ASSUME ~log'.stopping
             PROVE  /\ socket_handler' = Fd /\ ~shutdown_gracefully' /\ ~file'.shut
                    /\ \A c \in Contexts :
                          /\ ~InUse(c, "shutdown")'
                          /\ contexts'[c].st # "free" => contexts'[c].fd = Fd
                          /\ contexts'[c].st = "done" /\ contexts'[c].type = "read" =>
                                contexts'[c].res > 0 \/ log'.empty
  BY DEF Stops
<1>1. ~log.stopping
  OBVIOUS
<1>2. ASSUME NEW c \in Contexts
      PROVE  /\ ~InUse(c, "shutdown")'
             /\ contexts'[c].st # "free" => contexts'[c].fd = Fd
             /\ contexts'[c].st = "done" /\ contexts'[c].type = "read" =>
                   contexts'[c].res > 0 \/ log'.empty
  BY <1>1 DEF Stops, Moves, InUse
<1>3. QED
  BY <1>1, <1>2 DEF Stops

\* Once stop() was called nothing is said of what is shut.
LEMMA StopsLater == ASSUME log'.stopping PROVE Stops'
BY DEF Stops

\* The right to write stays with whom it is, or is given up.
LEMMA WritesKept ==
    ASSUME Writes, send_buffer' = send_buffer,
           \A c \in Contexts : Writing(c)' => Writing(c)
    PROVE  Writes'
<1>1. main' = main /\ sub' = sub
  BY DEF main, sub
<1>2. QED
  BY <1>1 DEF Writes

\* The bytes stay where they are.
LEMMA BytesKept ==
    ASSUME Bytes, send_buffer' = send_buffer, Accepted' = Accepted,
           log'.sent = log.sent, log'.notified = log.notified,
           \A c \in Contexts : Writing(c)' <=> Writing(c),
           \A c \in Contexts : Writing(c) => contexts'[c] = contexts[c],
           \A t \in Threads : Activating(t) => Activating(t)'
    PROVE  Bytes'
<1>1. main' = main /\ sub' = sub /\ Gone' = Gone
  BY DEF main, sub, Gone
<1>2. CASE log.notified = 0
  <2>1. Held'
    BY <1>1, <1>2 DEF Bytes, Held
  <2>2. \A c \in Contexts : Writing(c)' => WriteOf(c)'
    BY <1>1, <1>2 DEF Bytes, OnWire, WriteOf
  <2>3. OnWire'
    BY <1>1, <1>2, <2>2 DEF Bytes, OnWire
  <2>4. QED
    BY <1>1, <1>2, <2>1, <2>3 DEF Bytes
<1>3. CASE log.notified # 0
  BY <1>3 DEF Bytes
<1>4. QED
  BY <1>2, <1>3

\* Nobody asks for a shutdown.
LEMMA DrainsKept ==
    ASSUME Drains, log \in Log, log' \in Log,
           Len(log.to) <= Len(log'.to), Len(log.sent) <= Len(log'.sent),
           log'.promised = log.promised, log.notified > 0 => log'.notified > 0,
           \A c \in Contexts : InUse(c, "shutdown")' => InUse(c, "shutdown")
    PROVE  Drains'
<1>1. /\ log.promised \in Nat /\ Len(log.to) \in Nat /\ Len(log'.to) \in Nat
      /\ Len(log.sent) \in Nat /\ Len(log'.sent) \in Nat
      /\ log.notified \in Nat /\ log'.notified \in Nat
  <2>1. log.promised \in Nat /\ log.notified \in Nat /\ log'.notified \in Nat
        /\ log.to \in Seq(Peers) /\ log'.to \in Seq(Peers)
        /\ log.sent \in Seq(Nat) /\ log'.sent \in Seq(Nat)
    BY DEF Log
  <2>2. QED
    BY <2>1, LenProperties
<1>2. log'.promised <= Len(log'.to)
  BY <1>1 DEF Drains
<1>3. ASSUME log'.notified = 0, NEW c \in Contexts, InUse(c, "shutdown")'
      PROVE  Len(log'.sent) >= log'.promised
  <2>1. log.notified = 0 /\ InUse(c, "shutdown")
    BY <1>1, <1>3
  <2>2. QED
    BY <1>1, <2>1 DEF Drains
<1>4. QED
  BY <1>2, <1>3 DEF Drains

-----------------------------------------------------------------------------
(* Steps that do nothing to the requests.                                  *)

\* A thread goes on, and no request, byte or promise changes.
LEMMA QuietKeeps ==
    ASSUME IInv, Types', Locks', NEW t \in Threads,
           NEW a \in Labels \ {"received", "sent", "activate"},
           NEW b \in Labels \ {"received", "sent", "activate"},
           Walks(t, a, b), Proper(t, a, b), contexts' = contexts, SameCtx,
           \A s \in Threads : ~Activating(s),
           send_buffer' = send_buffer, Accepted' = Accepted,
           log'.sent = log.sent, log'.notified = log.notified,
           log'.promised = log.promised, log'.stopping = log.stopping,
           log'.empty = log.empty, Len(log.to) <= Len(log'.to),
           ~log.stopping => /\ socket_handler' = socket_handler
                            /\ shutdown_gracefully' = shutdown_gracefully
                            /\ file'.shut = file.shut
    PROVE  IInv'
<1>1. Moves(t, a, b, {}, "none")
  BY CalmMoves
<1>2. Places'
  BY <1>1, MovesPlaces DEF IInv
<1>3. \A c \in Contexts : /\ Reading(c)' <=> Reading(c)
                          /\ Writing(c)' <=> Writing(c)
                          /\ InUse(c, "shutdown")' <=> InUse(c, "shutdown")
  BY <1>1, MovesRights DEF IInv
<1>4. Activates' /\ \A s \in Threads : ~Activating(s)'
  BY ActivatesKept DEF IInv
<1>5. Reads'
  BY <1>3, ReadsKept DEF IInv
<1>6. Stops'
  BY <1>1, StopsKept DEF IInv
<1>7. Writes'
  BY <1>3, WritesKept DEF IInv
<1>8. Bytes'
  BY <1>3, BytesKept DEF IInv
<1>9. log \in Log /\ log' \in Log /\ (log.notified > 0 => log'.notified > 0)
  BY TypeFacts DEF IInv, Types
<1>10. Drains'
  BY <1>3, <1>9, DrainsKept DEF IInv
<1>11. QED
  BY <1>2, <1>4, <1>5, <1>6, <1>7, <1>8, <1>10 DEF IInv

\* The shutdown completion is handled only when stop() was called.
LEMMA ShutIsLater ==
    ASSUME Types, Places, Stops, NEW w \in Workers, pc[w] \in {"zero", "closeFd"}
    PROVE  log.stopping
<1>1. /\ own[w].ctx \in Contexts /\ contexts[own[w].ctx].st = "taken"
      /\ pc[w] \in Stages[contexts[own[w].ctx].type]
  BY TypeFacts, ThreadFacts DEF Places
<1>2. contexts[own[w].ctx].type \in {"none", "read", "write", "shutdown"}
  BY <1>1, TypeFacts, ContextFields
<1>3. contexts[own[w].ctx].type = "shutdown"
  BY <1>1, <1>2 DEF Stages
<1>4. QED
  BY <1>1, <1>3 DEF Stops, InUse

\* The labels a thread can go to when its call or callback is over.
LEMMA HomeLabels ==
    ASSUME NEW t \in Threads
    PROVE  /\ Home(t) \in Labels \ {"received", "sent", "activate", "push", "spin"}
           /\ t \in Workers => Home(t) = "finish"
           /\ t \notin Workers => Home(t) = "idle"
BY DEF Home, Labels

\* User code of a worker runs in a read's callback.
LEMMA UserCodeProper ==
    ASSUME Types, Places, NEW t \in Threads, InUserCode(t), NEW b \in {"push", "poll"}
    PROVE  Proper(t, pc[t], b) /\ pc[t] \in Labels \ {"received", "sent", "activate"}
<1>1. CASE t \in Workers
  <2>1. pc[t] = "callback"
    <3>1. pc[t] \in {"idle", "callback"}
      BY DEF InUserCode
    <3>2. pc[t] = "wait" \/ \E type \in {"none", "read", "write", "shutdown"} :
                               pc[t] \in Stages[type]
      BY <1>1, ThreadFacts, TypeFacts, ContextFields DEF Places
    <3>3. QED
      BY <3>1, <3>2 DEF Stages
  <2>2. QED
    BY <1>1, <2>1 DEF Proper, Stages, Labels
<1>2. CASE t \notin Workers
  BY <1>2 DEF Proper, UserLabels, InUserCode, Labels
<1>3. QED
  BY <1>1, <1>2

\* send_to() up to the push (udp_socket.cpp:168-170): the lock is taken.
LEMMA SendToKeeps ==
    ASSUME IInv, NEW t \in Threads, SendTo(t)
    PROVE  IInv'
<1>1. PICK p \in Peers : /\ own' = [own EXCEPT ![t].addr = p]
                         /\ log' = [log EXCEPT !.to = Append(@, p)]
  BY DEF SendTo
<1>2. own' \in [Threads -> Own] /\ SameCtx
  BY <1>1, OwnAddr DEF IInv, SameCtx
<1>3. /\ log' \in Log /\ log'.to = Append(log.to, p) /\ Len(log'.to) = Len(log.to) + 1
      /\ log'.sent = log.sent /\ log'.notified = log.notified
      /\ log'.promised = log.promised /\ log'.stopping = log.stopping
      /\ log'.empty = log.empty /\ Len(log.to) \in Nat
  <2>1. log \in Log /\ log.to \in Seq(Peers) /\ Len(log.to) \in Nat
    BY TypeFacts, LogFields DEF IInv
  <2>2. Append(log.to, p) \in Seq(Peers) /\ Len(Append(log.to, p)) = Len(log.to) + 1
    BY <2>1, AppendProperties
  <2>3. QED
    BY <1>1, <2>1, <2>2 DEF Log
<1>4. /\ InUserCode(t) /\ lock = NoThread /\ lock' = t
      /\ Walks(t, pc[t], "push") /\ "push" \in Labels \ {"received", "sent", "activate"}
      /\ UNCHANGED <<socket_handler, shutdown_gracefully, send_buffer, contexts, file>>
  BY DEF SendTo, sockvars, Goto, Walks, Labels
<1>5. /\ Proper(t, pc[t], "push") /\ pc[t] \in Labels \ {"received", "sent", "activate"}
      /\ pc[t] \notin {"push", "spin"}
  BY <1>4, UserCodeProper DEF IInv, InUserCode
<1>6. pc' \in [Threads -> Labels] /\ pc'[t] = "push"
      /\ \A s \in Threads \ {t} : pc'[s] = pc[s]
  BY <1>4, WalkFacts DEF IInv
<1>7. Types'
  BY <1>2, <1>3, <1>4, <1>6, TypeFacts, TypesFollow DEF IInv
<1>8. Locks'
  BY <1>4, <1>6, ThreadFacts DEF IInv, Locks
<1>9. Accepted' = Accepted
  BY <1>3, <1>4, ThreadFacts DEF Accepted
<1>10. \A s \in Threads : ~Activating(s)
  BY <1>4, UserCodeIsLater
<1>11. QED
  BY <1>2, <1>3, <1>4, <1>5, <1>7, <1>8, <1>9, <1>10, QuietKeeps

\* A step from one label to another with no effect but on the history's `stopped', the
\* descriptor or socket_handler.
LEMMA GoesOnKeeps ==
    ASSUME IInv, NEW t \in Threads, NEW a \in Labels \ {"received", "sent", "activate", "idle"},
           NEW b \in Labels \ {"received", "sent", "activate"}, a # "wait",
           a \in {"push", "spin"} <=> b \in {"push", "spin"},
           Walks(t, a, b), Proper(t, a, b),
           UNCHANGED <<shutdown_gracefully, send_buffer, lock, own, contexts>>,
           socket_handler' \in {Stdin, Fd}, file' \in File, log' \in Log,
           log'.to = log.to, log'.sent = log.sent, log'.notified = log.notified,
           log'.promised = log.promised, log'.stopping = log.stopping,
           log'.empty = log.empty,
           ~log.stopping => socket_handler' = socket_handler /\ file'.shut = file.shut
    PROVE  IInv'
<1>1. pc' \in [Threads -> Labels]
  BY WalkFacts DEF IInv
<1>2. Types'
  BY <1>1, TypeFacts, TypesFollow DEF IInv
<1>3. Locks'
  BY LocksKept DEF IInv
<1>4. SameCtx /\ Accepted' = Accepted
  BY DEF SameCtx, Accepted
<1>5. \A s \in Threads : ~Activating(s)
  BY NoneActivates DEF IInv, Walks
<1>6. Len(log.to) <= Len(log'.to)
  BY TypeFacts, LogFields DEF IInv
<1>7. QED
  BY <1>2, <1>3, <1>4, <1>5, <1>6, QuietKeeps

\* send_to() in the endless loop of io_buffer::push, with the lock (io_buffer.cpp:77-85).
LEMMA SendToSpinsKeeps ==
    ASSUME IInv, NEW t \in Threads, SendToSpins(t)
    PROVE  IInv'
<1>1. /\ Walks(t, "push", "spin")
      /\ UNCHANGED <<shutdown_gracefully, send_buffer, lock, own, contexts>>
      /\ UNCHANGED <<socket_handler, file, log>>
  BY DEF SendToSpins, sockvars, Goto, Walks
<1>2. Proper(t, "push", "spin")
  BY DEF Proper, Stages, UserLabels
<1>3. QED
  BY <1>1, <1>2, TypeFacts, GoesOnKeeps DEF IInv, Labels

\* stop() comes back (udp_server.cpp:75-86).
LEMMA StopReturnsKeeps ==
    ASSUME IInv, NEW t \in Threads, StopReturns(t)
    PROVE  IInv'
<1>1. /\ Walks(t, "poll", Home(t))
      /\ UNCHANGED <<shutdown_gracefully, send_buffer, lock, own, contexts>>
      /\ UNCHANGED <<socket_handler, file>>
      /\ log' = [log EXCEPT !.stopped = TRUE]
  BY DEF StopReturns, sockvars, Goto, Walks
<1>2. Proper(t, "poll", Home(t))
  BY HomeLabels DEF Proper, Stages, UserLabels
<1>3. /\ log' \in Log /\ log'.to = log.to /\ log'.sent = log.sent
      /\ log'.notified = log.notified /\ log'.promised = log.promised
      /\ log'.stopping = log.stopping /\ log'.empty = log.empty
  <2>1. log \in Log
    BY TypeFacts DEF IInv
  <2>2. QED
    BY <1>1, <2>1 DEF Log
<1>4. QED
  BY <1>1, <1>2, <1>3, HomeLabels, TypeFacts, GoesOnKeeps DEF IInv, Labels

\* The receive callback returns (socket_object.cpp:92).
LEMMA CallbackReturnsKeeps ==
    ASSUME IInv, NEW w \in Workers, CallbackReturns(w)
    PROVE  IInv'
<1>1. /\ Walks(w, "callback", "finish")
      /\ UNCHANGED <<shutdown_gracefully, send_buffer, lock, own, contexts>>
      /\ UNCHANGED <<socket_handler, file, log>>
  BY DEF CallbackReturns, sockvars, Goto, Walks
<1>2. Proper(w, "callback", "finish")
  BY DEF Proper, Stages
<1>3. QED
  BY <1>1, <1>2, TypeFacts, ThreadFacts, GoesOnKeeps DEF IInv, Labels

\* The shutdown completion resets socket_handler (io_service.cpp:437-445) ...
LEMMA ShutZeroesKeeps ==
    ASSUME IInv, NEW w \in Workers, ShutZeroes(w)
    PROVE  IInv'
<1>1. PICK b \in {"closeFd", "finish"} : Walks(w, "zero", b)
  BY DEF ShutZeroes, Goto, Walks
<1>2. /\ UNCHANGED <<shutdown_gracefully, send_buffer, lock, own, contexts>>
      /\ UNCHANGED <<file, log>>
      /\ socket_handler' \in {socket_handler, Stdin}
  BY DEF ShutZeroes, Stdin
<1>3. Proper(w, "zero", b)
  BY <1>1 DEF Proper, Stages
<1>4. log.stopping
  BY <1>1, ShutIsLater DEF IInv, Walks
<1>5. QED
  BY <1>1, <1>2, <1>3, <1>4, TypeFacts, ThreadFacts, GoesOnKeeps DEF IInv, Labels

\* ... and closes the descriptor.
LEMMA ShutClosesKeeps ==
    ASSUME IInv, NEW w \in Workers, ShutCloses(w)
    PROVE  IInv'
<1>1. /\ Walks(w, "closeFd", "finish")
      /\ UNCHANGED <<shutdown_gracefully, send_buffer, lock, own, contexts>>
      /\ UNCHANGED <<socket_handler, log>>
      /\ file' = [file EXCEPT !.shut = TRUE, !.inbox = <<>>]
  BY DEF ShutCloses, sockvars, Goto, Walks
<1>2. Proper(w, "closeFd", "finish")
  BY DEF Proper, Stages
<1>3. log.stopping
  BY <1>1, ShutIsLater DEF IInv, Walks
<1>4. file' \in File
  <2>1. file \in File
    BY TypeFacts DEF IInv
  <2>2. <<>> \in Seq([from : Peers, len : {0, 1}])
    OBVIOUS
  <2>3. QED
    BY <1>1, <2>1, <2>2 DEF File
<1>5. QED
  BY <1>1, <1>2, <1>3, <1>4, TypeFacts, ThreadFacts, GoesOnKeeps DEF IInv, Labels

-----------------------------------------------------------------------------
(* Steps that submit a request.                                            *)

\* A datagram comes in: that is nobody's step.
LEMMA DatagramArrivesKeeps ==
    ASSUME IInv, DatagramArrives
    PROVE  IInv'
<1>1. /\ UNCHANGED <<socket_handler, shutdown_gracefully, send_buffer>>
      /\ UNCHANGED <<lock, pc, own, contexts>>
  BY DEF DatagramArrives, sockvars
<1>2. PICK p \in Peers \ OddPeers, n \in {0, 1} :
          file' = [file EXCEPT !.inbox = Append(@, [from |-> p, len |-> n])]
  BY DEF DatagramArrives
<1>3. log' = [log EXCEPT !.arrived = @ + 1]
  BY DEF DatagramArrives
<1>4. file' \in File /\ file'.shut = file.shut
  <2>1. file \in File /\ file.inbox \in Seq([from : Peers, len : {0, 1}])
    BY TypeFacts DEF IInv, File
  <2>2. Append(file.inbox, [from |-> p, len |-> n]) \in Seq([from : Peers, len : {0, 1}])
    BY <2>1, AppendProperties
  <2>3. QED
    BY <1>2, <2>1, <2>2 DEF File
<1>5. /\ log' \in Log /\ log'.to = log.to /\ log'.sent = log.sent
      /\ log'.notified = log.notified /\ log'.promised = log.promised
      /\ log'.stopping = log.stopping /\ log'.empty = log.empty
  <2>1. log \in Log /\ log.arrived \in Nat /\ log.arrived + 1 \in Nat
    BY TypeFacts, LogFields DEF IInv
  <2>2. QED
    BY <1>3, <2>1 DEF Log
<1>6. Types'
  BY <1>1, <1>4, <1>5, TypeFacts, TypesFollow DEF IInv
<1>7. Places' /\ Locks'
  BY <1>1 DEF IInv, Places, Locks
<1>8. Activates'
  BY <1>1, <1>5 DEF IInv, Activates, Activating, Untouched
<1>9. \A c \in Contexts : /\ Reading(c)' <=> Reading(c)
                          /\ Writing(c)' <=> Writing(c)
                          /\ InUse(c, "shutdown")' <=> InUse(c, "shutdown")
  BY <1>1 DEF Reading, Writing, Live, InUse
<1>10. Reads'
  BY <1>1, <1>5, <1>9, ReadsKept DEF IInv, Activating
<1>11. Stops'
  BY <1>1, <1>4, <1>5 DEF IInv, Stops, InUse
<1>12. Writes'
  BY <1>1, <1>9, WritesKept DEF IInv
<1>13. Accepted' = Accepted
  BY <1>1, <1>5 DEF Accepted
<1>14. Bytes'
  BY <1>1, <1>5, <1>9, <1>13, BytesKept DEF IInv, Activating
<1>15. Drains'
  <2>1. log \in Log /\ Len(log.to) \in Nat /\ Len(log.sent) \in Nat
    BY TypeFacts, LogFields DEF IInv
  <2>2. QED
    BY <1>5, <1>9, <2>1, DrainsKept DEF IInv
<1>16. QED
  BY <1>6, <1>7, <1>8, <1>10, <1>11, <1>12, <1>14, <1>15 DEF IInv

\* io_received (socket_object.cpp:86-93): the right to read goes from the completed
\* request to its successor.
LEMMA IoReceivedKeeps ==
    ASSUME IInv, NEW w \in Workers, IoReceived(w)
    PROVE  IInv'
<1>0. w \in Threads /\ Receiving \in Context /\ Receiving.type = "read"
  BY ThreadFacts DEF Receiving, FreeContext, Context, NULL
<1>1. /\ Walks(w, "received", "callback")
      /\ UNCHANGED <<socket_handler, shutdown_gracefully, send_buffer>>
      /\ UNCHANGED <<lock, own, file, log>>
      /\ SameCtx
  BY DEF IoReceived, sockvars, Goto, Walks, SameCtx
<1>2. PICK n \in Contexts : Asks(w, "received", "callback", n, Receiving)
  BY <1>0, <1>1, SubmitsAsks DEF IInv, IoReceived
<1>3. Moves(w, "received", "callback", {n}, "read")
  BY <1>0, <1>2, AsksMoves
<1>4. Types'
  BY <1>0, <1>1, <1>2, WalkFacts, TypeFacts, TypesFollow DEF IInv, Asks, Labels
<1>5. Places'
  BY <1>0, <1>3, MovesPlaces DEF IInv, Proper, Stages, Labels
<1>6. Locks'
  BY <1>0, <1>1, LocksKept DEF IInv, Labels
<1>7. \A t \in Threads : ~Activating(t)
  BY <1>0, <1>1, NoneActivates DEF IInv, Walks
<1>8. Activates' /\ \A t \in Threads : ~Activating(t)'
  BY <1>0, <1>1, <1>7, ActivatesKept DEF IInv, Labels
<1>9. \A c \in Contexts :
          /\ Reading(c)' <=> (Reading(c) /\ own[w].ctx # c) \/ c = n
          /\ Writing(c)' <=> Writing(c)
          /\ InUse(c, "shutdown")' <=> InUse(c, "shutdown")
  BY <1>0, <1>3, MovesRights DEF IInv, Labels
<1>10. own[w].ctx \in Contexts /\ Reading(own[w].ctx)
  <2>1. /\ own[w].ctx \in Contexts /\ contexts[own[w].ctx].st = "taken"
        /\ "received" \in Stages[contexts[own[w].ctx].type]
    BY <1>0, <1>1, TypeFacts DEF IInv, Places, Walks
  <2>2. contexts[own[w].ctx].type = "read"
    BY <2>1, TypeFacts, ContextFields DEF IInv, Stages
  <2>3. QED
    BY <1>1, <2>1, <2>2 DEF Reading, Live, Walks
<1>11. Reads'
  <2>1. \A c \in Contexts : Reading(c)' => c = n
    BY <1>9, <1>10 DEF IInv, Reads
  <2>2. Reading(n)'
    BY <1>9
  <2>3. QED
    BY <2>1, <2>2 DEF Reads
<1>12. Stops'
  BY <1>0, <1>1, <1>3, StopsKept DEF IInv
<1>13. Writes'
  BY <1>1, <1>9, WritesKept DEF IInv
<1>14. Accepted' = Accepted
  BY <1>1 DEF Accepted
<1>15. \A c \in Contexts : Writing(c) => contexts'[c] = contexts[c]
  BY <1>2 DEF Asks, Writing, Live, IInv, Places
<1>16. Bytes'
  BY <1>1, <1>7, <1>9, <1>14, <1>15, BytesKept DEF IInv
<1>17. Drains'
  <2>1. log \in Log /\ Len(log.to) \in Nat /\ Len(log.sent) \in Nat
    BY TypeFacts, LogFields DEF IInv
  <2>2. QED
    BY <1>1, <1>9, <2>1, DrainsKept DEF IInv
<1>18. QED
  BY <1>4, <1>5, <1>6, <1>8, <1>11, <1>12, <1>13, <1>16, <1>17 DEF IInv

\* Before on_active() nothing is under way, and the thread in it is a user's.
LEMMA ActivatingFacts ==
    ASSUME IInv, NEW t \in Threads, Activating(t)
    PROVE  /\ t \in Users /\ t \notin Workers
           /\ Untouched
           /\ \A s \in Threads \ {t} : pc[s] \in {"idle", "wait"}
           /\ \A c \in Contexts : \A k : ~InUse(c, k)
           /\ \A c \in Contexts : ~Reading(c) /\ ~Writing(c)
<1>1. Untouched /\ \A s \in Threads \ {t} : pc[s] \in {"idle", "wait"}
  BY DEF IInv, Activates
<1>2. \A w \in Workers : pc[w] = "wait" /\ own[w].ctx = NoContext
  BY <1>1, ThreadFacts, TypeFacts DEF IInv, Places, Untouched
<1>3. t \in Users /\ t \notin Workers
  BY <1>2, ThreadFacts DEF Activating
<1>4. \A c \in Contexts : \A k : ~InUse(c, k)
  BY <1>1 DEF Untouched, InUse
<1>5. \A c \in Contexts : ~Reading(c) /\ ~Writing(c)
  BY <1>1, <1>2, ThreadFacts DEF Untouched, Reading, Writing, Live
<1>6. QED
  BY <1>1, <1>3, <1>4, <1>5

\* on_active() (udp_socket.cpp:75-86): the buffer is there and the
\* first read is under way.
LEMMA OnActiveKeeps ==
    ASSUME IInv, NEW t \in Threads, OnActive(t)
    PROVE  IInv'
<1>0. Receiving \in Context /\ Receiving.type = "read"
  BY DEF Receiving, FreeContext, Context, NULL
<1>1. /\ Activating(t) /\ Walks(t, "activate", Home(t))
      /\ UNCHANGED <<socket_handler, shutdown_gracefully, lock, own, file>>
      /\ send_buffer' = DAssigned(send_buffer, log.fresh, BufferSize)
      /\ log' = [log EXCEPT !.fresh = @ + 1]
      /\ SameCtx
  BY DEF OnActive, Goto, Walks, SameCtx, Activating
<1>2. PICK n \in Contexts : Asks(t, "activate", Home(t), n, Receiving)
  BY <1>0, <1>1, SubmitsAsks DEF IInv, OnActive
<1>3. Moves(t, "activate", Home(t), {n}, "read")
  BY <1>0, <1>2, AsksMoves
<1>4. /\ t \notin Workers /\ Untouched /\ Home(t) = "idle"
      /\ Home(t) \in Labels \ {"received", "sent", "activate", "push", "spin"}
      /\ \A s \in Threads \ {t} : pc[s] \in {"idle", "wait"}
      /\ \A c \in Contexts : ~Reading(c) /\ ~Writing(c) /\ ~InUse(c, "shutdown")
  BY <1>1, ActivatingFacts, HomeLabels
<1>5. /\ log' \in Log /\ log'.to = log.to /\ log'.sent = log.sent
      /\ log'.notified = log.notified /\ log'.promised = log.promised
      /\ log'.stopping = log.stopping /\ log'.empty = log.empty
  <2>1. log \in Log /\ log.fresh \in Nat \ {0} /\ log.fresh + 1 \in Nat \ {0}
    BY TypeFacts, LogFields DEF IInv
  <2>2. QED
    BY <1>1, <2>1 DEF Log
<1>6. /\ send_buffer' \in DoubleBuffer /\ main' # NoBuffer
      /\ Solid(main)' /\ Solid(sub)' /\ main'.data = <<>> /\ sub'.data = <<>>
  <2>1. log.fresh \in Nat \ {0} /\ BufferSize \in Nat \ {0}
    BY TypeFacts, LogFields, UdpSocketAssumption DEF IInv
  <2>2. send_buffer = NoDoubleBuffer
    BY <1>4 DEF Untouched
  <2>3. /\ send_buffer' = [main |-> Assigned(log.fresh, BufferSize), sub |-> NoBuffer]
    BY <1>1, <2>2 DEF DAssigned, NoDoubleBuffer
  <2>4. main' = Assigned(log.fresh, BufferSize) /\ sub' = NoBuffer
    BY <2>3 DEF main, sub
  <2>5. Assigned(log.fresh, BufferSize) \in Buffer /\ NoBuffer \in Buffer
    BY <2>1 DEF Assigned, Buffer, NoBuffer, NULL
  <2>6. QED
    BY <2>1, <2>3, <2>4, <2>5 DEF DoubleBuffer, Solid, Assigned, NoBuffer, NULL
<1>7. Types'
  BY <1>1, <1>2, <1>4, <1>5, <1>6, WalkFacts, TypeFacts, TypesFollow DEF IInv, Asks
<1>8. Places'
  BY <1>3, <1>4, MovesPlaces DEF IInv, Proper, UserLabels
<1>9. Locks'
  BY <1>1, <1>4, LocksKept DEF IInv
<1>10. \A s \in Threads : ~Activating(s)'
  <2>1. pc'[t] = "idle" /\ \A s \in Threads \ {t} : pc'[s] = pc[s]
    BY <1>1, <1>4, WalkFacts DEF IInv
  <2>2. QED
    BY <1>4, <2>1 DEF Activating
<1>11. \A c \in Contexts : /\ Reading(c)' <=> c = n
                           /\ ~Writing(c)' /\ ~InUse(c, "shutdown")'
  BY <1>3, <1>4, MovesRights DEF IInv
<1>12. Activates' /\ Reads'
  BY <1>10, <1>11 DEF Activates, Reads
<1>13. Stops'
  BY <1>1, <1>3, <1>5, StopsKept DEF IInv
<1>14. Writes'
  BY <1>6, <1>11 DEF Writes
<1>15. Bytes'
  <2>1. lock = NoThread /\ log.to = <<>> /\ log.sent = <<>> /\ log.notified = 0
    BY <1>4 DEF Untouched
  <2>2. Accepted' = 0 /\ Gone' = 0
    BY <1>1, <1>5, <1>6, <2>1 DEF Accepted, Gone
  <2>3. Held' /\ OnWire'
    BY <1>5, <1>6, <1>11, <2>1, <2>2 DEF Held, OnWire, Follows
  <2>4. QED
    BY <1>5, <1>6, <2>1, <2>3 DEF Bytes
<1>16. Drains'
  BY <1>5, <1>11 DEF IInv, Drains
<1>17. QED
  BY <1>7, <1>8, <1>9, <1>12, <1>13, <1>14, <1>15, <1>16 DEF IInv

\* The inference of send_to() and close(): where the buffer is empty, no write is under
\* way, and so everything accepted has left.
LEMMA EmptyDrained ==
    ASSUME Types, Writes, Bytes, DEmpty(send_buffer), log.notified = 0,
           \A s \in Threads : ~Activating(s)
    PROVE  (\A c \in Contexts : ~Writing(c)) /\ Len(log.sent) = Accepted
<1>1. main # NoBuffer /\ Empty(main) /\ Empty(sub)
  BY DEF Bytes, DEmpty, main, sub
<1>2. \A c \in Contexts : ~Writing(c)
  BY <1>1 DEF Writes
<1>3. Len(main.data) = 0 /\ Len(sub.data) = 0 /\ Accepted \in Int
  <2>1. Len(log.to) \in Nat
    BY TypeFacts, LogFields
  <2>2. QED
    BY <1>1, <2>1 DEF Empty, Accepted
<1>4. Len(log.sent) = Gone
  BY <1>2 DEF Bytes, OnWire
<1>5. QED
  BY <1>2, <1>3, <1>4 DEF Gone

\* udp_server::stop(), or close( graceful ) (socket_object.cpp:73-83): a shutdown is asked
\* for at once only if nothing is left to send.
LEMMA StopCallsKeeps ==
    ASSUME IInv, NEW t \in Threads, StopCalls(t)
    PROVE  IInv'
<1>0. Shutting \in Context /\ Shutting.type = "shutdown"
  BY DEF Shutting, FreeContext, Context, NULL
<1>1. /\ InUserCode(t) /\ ~log.stopping /\ lock = NoThread
      /\ Walks(t, pc[t], "poll") /\ SameCtx
      /\ UNCHANGED <<socket_handler, send_buffer, lock, own, file>>
      /\ shutdown_gracefully' \in {shutdown_gracefully, TRUE}
      /\ log' = [log EXCEPT !.stopping = TRUE, !.promised = Len(log.to)]
  BY DEF StopCalls, Goto, Walks, SameCtx
<1>2. /\ Proper(t, pc[t], "poll") /\ pc[t] \in Labels \ {"received", "sent", "activate"}
      /\ pc[t] \notin {"push", "spin"}
  BY <1>1, UserCodeProper DEF IInv, InUserCode
<1>3. \A s \in Threads : ~Activating(s)
  BY <1>1, UserCodeIsLater
<1>4. \E N : /\ Moves(t, pc[t], "poll", N, "shutdown")
             /\ contexts' \in [Contexts -> Context]
             /\ N # {} => DEmpty(send_buffer)
  <2>1. CASE DEmpty(send_buffer)
    <3>1. Submits(t, Shutting)
      BY <2>1 DEF StopCalls
    <3>2. PICK n \in Contexts : Asks(t, pc[t], "poll", n, Shutting)
      BY <1>0, <1>1, <3>1, SubmitsAsks DEF IInv
    <3>3. Moves(t, pc[t], "poll", {n}, "shutdown")
      BY <1>0, <3>2, AsksMoves
    <3>4. contexts' \in [Contexts -> Context]
      BY <3>2 DEF Asks
    <3>5. QED
      BY <2>1, <3>3, <3>4
  <2>2. CASE ~DEmpty(send_buffer)
    <3>1. contexts' = contexts
      BY <2>2 DEF StopCalls
    <3>2. Moves(t, pc[t], "poll", {}, "shutdown")
      BY <1>1, <3>1 DEF Moves
    <3>3. QED
      BY <3>1, <3>2, TypeFacts DEF IInv
  <2>3. QED
    BY <2>1, <2>2
<1>5. PICK N : /\ Moves(t, pc[t], "poll", N, "shutdown")
               /\ contexts' \in [Contexts -> Context]
               /\ N # {} => DEmpty(send_buffer)
  BY <1>4
<1>6. /\ log' \in Log /\ log'.to = log.to /\ log'.sent = log.sent
      /\ log'.notified = log.notified /\ log'.promised = Len(log.to)
      /\ log'.stopping /\ log'.empty = log.empty
      /\ Len(log.to) \in Nat
  <2>1. log \in Log /\ Len(log.to) \in Nat
    BY TypeFacts, LogFields DEF IInv
  <2>2. QED
    BY <1>1, <2>1 DEF Log
<1>7. Types'
  BY <1>1, <1>5, <1>6, WalkFacts, TypeFacts, TypesFollow DEF IInv, Labels
<1>8. Places'
  BY <1>2, <1>5, MovesPlaces DEF IInv, Labels
<1>9. Locks'
  BY <1>1, <1>2, LocksKept DEF IInv, Labels
<1>10. Activates' /\ \A s \in Threads : ~Activating(s)'
  BY <1>1, <1>3, ActivatesKept DEF IInv, Labels
<1>11. \A c \in Contexts :
          /\ Reading(c)' <=> Reading(c)
          /\ Writing(c)' <=> Writing(c)
          /\ InUse(c, "shutdown")' <=> InUse(c, "shutdown") \/ c \in N
  BY <1>2, <1>5, MovesRights DEF IInv, Labels
<1>12. Reads'
  BY <1>3, <1>6, <1>11, ReadsKept DEF IInv
<1>13. Stops'
  BY <1>6, StopsLater
<1>14. Writes'
  BY <1>1, <1>11, WritesKept DEF IInv
<1>15. Bytes'
  <2>1. Accepted' = Accepted
    BY <1>1, <1>6 DEF Accepted
  <2>2. \A c \in Contexts : Writing(c) => contexts'[c] = contexts[c]
    BY <1>5 DEF Moves, Writing, Live, IInv, Places
  <2>3. QED
    BY <1>1, <1>3, <1>6, <1>11, <2>1, <2>2, BytesKept DEF IInv
<1>16. Drains'
  <2>1. ASSUME log'.notified = 0, NEW c \in Contexts, InUse(c, "shutdown")'
        PROVE  Len(log'.sent) >= log'.promised
    <3>1. ~InUse(c, "shutdown")
      BY <1>1 DEF IInv, Stops
    <3>2. DEmpty(send_buffer)
      BY <1>5, <1>11, <2>1, <3>1
    <3>3. Len(log.sent) = Accepted
      BY <1>3, <1>6, <2>1, <3>2, EmptyDrained DEF IInv
    <3>4. QED
      BY <1>1, <1>6, <3>3 DEF Accepted
  <2>2. QED
    BY <1>6, <2>1 DEF Drains
<1>17. QED
  BY <1>7, <1>8, <1>9, <1>10, <1>12, <1>13, <1>14, <1>15, <1>16 DEF IInv

\* io_shutdown destroys the buffers (udp_socket.cpp:88-91).
LEMMA IoShutdownKeeps ==
    ASSUME IInv, NEW w \in Workers, IoShutdown(w)
    PROVE  IInv'
<1>1. /\ w \in Threads /\ Walks(w, "down", "finish") /\ SameCtx
      /\ UNCHANGED <<socket_handler, shutdown_gracefully, lock, own, contexts, file>>
      /\ send_buffer' = [main |-> Destroyed(main), sub |-> Destroyed(sub)]
      /\ log' = [log EXCEPT !.notified = @ + 1]
  BY ThreadFacts DEF IoShutdown, Goto, Walks, SameCtx, main, sub
<1>2. Moves(w, "down", "finish", {}, "none")
  BY <1>1, CalmMoves
<1>3. send_buffer' = NoDoubleBuffer /\ send_buffer' \in DoubleBuffer
      /\ main' = NoBuffer /\ sub' = NoBuffer
  <2>1. Destroyed(main) = NoBuffer /\ Destroyed(sub) = NoBuffer
    BY DEF IInv, Writes, Solid, Destroyed, NoBuffer
  <2>2. NoBuffer \in Buffer
    BY DEF NoBuffer, Buffer, NULL
  <2>3. QED
    BY <1>1, <2>1, <2>2 DEF NoDoubleBuffer, DoubleBuffer, main, sub
<1>4. /\ log' \in Log /\ log'.to = log.to /\ log'.sent = log.sent
      /\ log'.notified = log.notified + 1 /\ log'.promised = log.promised
      /\ log'.stopping = log.stopping /\ log'.empty = log.empty
      /\ log.notified \in Nat
  <2>1. log \in Log /\ log.notified \in Nat /\ log.notified + 1 \in Nat
    BY TypeFacts, LogFields DEF IInv
  <2>2. QED
    BY <1>1, <2>1 DEF Log
<1>5. Types'
  BY <1>1, <1>3, <1>4, WalkFacts, TypeFacts, TypesFollow DEF IInv, Labels
<1>6. Places'
  <2>1. Proper(w, "down", "finish")
    BY DEF Proper, Stages
  <2>2. QED
    BY <1>1, <1>2, <2>1, MovesPlaces DEF IInv, Labels
<1>7. Locks'
  BY <1>1, LocksKept DEF IInv, Labels
<1>8. \A s \in Threads : ~Activating(s)
  BY <1>1, NoneActivates DEF IInv, Walks
<1>9. Activates' /\ \A s \in Threads : ~Activating(s)'
  BY <1>1, <1>8, ActivatesKept DEF IInv, Labels
<1>10. \A c \in Contexts : /\ Reading(c)' <=> Reading(c)
                           /\ Writing(c)' <=> Writing(c)
                           /\ InUse(c, "shutdown")' <=> InUse(c, "shutdown")
  BY <1>1, <1>2, MovesRights DEF IInv, Labels
<1>11. Reads'
  BY <1>4, <1>8, <1>10, ReadsKept DEF IInv
<1>12. Stops'
  BY <1>1, <1>2, <1>4, StopsKept DEF IInv
<1>13. Writes'
  BY <1>3, <1>10 DEF IInv, Writes, Solid
<1>14. Bytes' /\ Drains'
  BY <1>3, <1>4 DEF IInv, Bytes, Drains
<1>15. QED
  BY <1>5, <1>6, <1>7, <1>9, <1>11, <1>12, <1>13, <1>14 DEF IInv

\* A request for a write with what is in front of the buffer (udp_socket.cpp:115-166).
LEMMA SendingFacts ==
    ASSUME NEW d, d.main \in Buffer, NEW addr \in Peers \cup {NoPeer}
    PROVE  /\ Sending(d, addr) \in Context /\ Sending(d, addr).type = "write"
           /\ Sending(d, addr).raw = d.main.raw
           /\ Sending(d, addr).len = Len(d.main.data)
<1> DEFINE x == Sending(d, addr)
<1>1. d.main.raw \in Nat /\ Len(d.main.data) \in Nat
  BY BufferFields
<1>2. FreeContext \in Context
  BY DEF FreeContext, Context, NULL
<1>3. x = [FreeContext EXCEPT !.type = "write", !.addr = addr,
                              !.raw = d.main.raw, !.len = Len(d.main.data)]
  BY DEF Sending, DRaw, DSize
<1> HIDE DEF x
<1>4. /\ x \in Context /\ x.type = "write" /\ x.raw = d.main.raw
      /\ x.len = Len(d.main.data)
  BY <1>1, <1>2, <1>3 DEF Context
<1>5. QED
  BY <1>4 DEF x

-----------------------------------------------------------------------------
(* The two handlers that move bytes.                                       *)

\* What push leaves in the buffer (udp_socket.cpp:170-175): the byte of this call behind
\* those of the calls before it, and bytes that a write is reading where they were.
LEMMA PushFacts ==
    ASSUME IInv, NEW t \in Threads, pc[t] = "push", lock = t,
           ~DPushSpins(send_buffer, 1),
           NEW d, d \in DPushes(send_buffer, <<Len(log.to)>>, log.fresh)
    PROVE  /\ log.notified = 0
           /\ d \in DoubleBuffer /\ Solid(d.main) /\ Solid(d.sub)
           /\ d.main # NoBuffer /\ (Empty(d.main) => ~DEmpty(send_buffer) /\ Empty(main))
           /\ Follows(d.main.data, Gone)
           /\ Follows(d.sub.data, Gone + Len(d.main.data))
           /\ Len(d.main.data) \in Nat /\ Len(d.sub.data) \in Nat
           /\ Len(d.main.data) + Len(d.sub.data) = Len(main.data) + Len(sub.data) + 1
           /\ ~Empty(main) => /\ d.main.raw = main.raw
                              /\ Len(d.main.data) >= Len(main.data)
<1> DEFINE b == <<Len(log.to)>>
<1>1. /\ Len(log.to) \in Nat /\ log.fresh \in Nat \ {0} /\ log.notified \in Nat
      /\ send_buffer \in DoubleBuffer /\ main \in Buffer /\ sub \in Buffer
  BY TypeFacts, LogFields DEF IInv
<1>2. b \in Seq(Nat) /\ Len(b) = 1 /\ b[1] = Len(log.to)
  BY <1>1
<1>3. /\ main.data \in Seq(Nat) /\ sub.data \in Seq(Nat)
      /\ Len(main.data) \in Nat /\ Len(sub.data) \in Nat
      /\ Empty(main) <=> Len(main.data) = 0
      /\ Empty(sub) <=> Len(sub.data) = 0
  BY <1>1, BufferFields
<1>4. log.notified = 0
  <2>1. DPushSpins(NoDoubleBuffer, 1)
    BY DEF DPushSpins, NoDoubleBuffer, NoBuffer, PushSpins, Overflows, Empty
  <2>2. QED
    BY <1>1, <2>1 DEF IInv, Bytes
<1>5. Gone \in Nat /\ Follows(main.data, Gone) /\ Follows(sub.data, Gone + Len(main.data))
      /\ Len(log.to) = Gone + Len(main.data) + Len(sub.data) + 1
  <2>1. Accepted = Len(log.to) - 1
    BY ThreadFacts DEF Accepted
  <2>2. Held
    BY <1>4 DEF IInv, Bytes
  <2>3. Gone \in Nat /\ Gone = Len(log.to) - 1 - Len(main.data) - Len(sub.data)
    BY <2>1, <2>2 DEF Held, Gone
  <2>4. Len(log.to) = Gone + Len(main.data) + Len(sub.data) + 1
    BY <1>1, <1>3, <2>3
  <2>5. QED
    BY <2>2, <2>4 DEF Held
<1>6. main # NoBuffer
  <2>1. \A s \in Threads : ~Activating(s)
    BY NoneActivates DEF IInv
  <2>2. QED
    BY <1>4, <2>1 DEF IInv, Bytes
<1> HIDE DEF b
<1>7. d \in DPushes(send_buffer, b, log.fresh) /\ ~DPushSpins(send_buffer, Len(b))
  BY <1>2 DEF b
<1>8. /\ d \in DoubleBuffer /\ Solid(d.main) /\ Solid(d.sub)
      /\ \/ /\ Empty(sub) /\ d.sub = sub
            /\ d.main.data = main.data \o b
            /\ ~Empty(main) => d.main.raw = main.raw
         \/ /\ ~DEmpty(send_buffer) /\ d.main = main
            /\ d.sub.data = sub.data \o b
  <2>1. Solid(send_buffer.main) /\ Solid(send_buffer.sub)
    BY DEF IInv, Writes, main, sub
  <2>2. log.fresh \in Nat /\ log.fresh # NULL
    BY <1>1 DEF NULL
  <2>3. /\ d \in DoubleBuffer /\ Solid(d.main) /\ Solid(d.sub)
        /\ \/ /\ Empty(send_buffer.sub) /\ d.sub = send_buffer.sub
              /\ d.main.data = send_buffer.main.data \o b
              /\ ~Empty(send_buffer.main) => d.main.raw = send_buffer.main.raw
           \/ /\ ~DEmpty(send_buffer) /\ d.main = send_buffer.main
              /\ d.sub.data = send_buffer.sub.data \o b
    <3>1. Len(b) > 0 /\ b \in Seq(Nat)
      BY <1>2
    <3>2. send_buffer \in DoubleBuffer /\ log.fresh \in Nat
      BY <1>1
    <3>3. ~DPushSpins(send_buffer, Len(b)) /\ d \in DPushes(send_buffer, b, log.fresh)
      BY <1>7
    <3> DEFINE s == send_buffer new == log.fresh
    <3>4. /\ s \in DoubleBuffer /\ Solid(s.main) /\ Solid(s.sub)
          /\ new \in Nat /\ new # NULL /\ ~DPushSpins(s, Len(b)) /\ d \in DPushes(s, b, new)
      BY <2>1, <2>2, <3>2, <3>3
    <3> HIDE DEF s, new
    <3>5. \A x \in DPushes(s, b, new) :
             /\ x \in DoubleBuffer /\ Solid(x.main) /\ Solid(x.sub)
             /\ \/ /\ Empty(s.sub) /\ x.sub = s.sub
                   /\ x.main.data = s.main.data \o b
                   /\ s.main # NoBuffer
                   /\ ~Empty(s.main) => x.main.raw = s.main.raw
                \/ /\ ~DEmpty(s) /\ x.main = s.main
                   /\ x.sub.data = s.sub.data \o b
      BY <3>1, <3>4, DPushesAppends
    <3>6. QED
      BY <3>4, <3>5 DEF s
  <2>4. QED
    BY <2>3 DEF main, sub
<1>9. d.main \in Buffer /\ d.sub \in Buffer
      /\ Len(d.main.data) \in Nat /\ Len(d.sub.data) \in Nat
      /\ (Empty(d.main) <=> Len(d.main.data) = 0)
  BY <1>8, DoubleFields, BufferFields
<1>10. ASSUME NEW s \in Seq(Nat), NEW n \in Nat, Follows(s, n),
              Len(log.to) = n + Len(s) + 1
       PROVE  Follows(s \o b, n) /\ Len(s \o b) = Len(s) + 1
  <2>1. Len(s) \in Nat
    BY LenProperties
  <2>2. Follows(b, n + Len(s))
    BY <1>2, <1>10, <2>1 DEF Follows
  <2>3. QED
    BY <1>2, <1>10, <2>2, ConcatFollows
<1>11. CASE /\ Empty(sub) /\ d.sub = sub
            /\ d.main.data = main.data \o b
            /\ ~Empty(main) => d.main.raw = main.raw
  <2>1. Len(sub.data) = 0 /\ Len(log.to) = Gone + Len(main.data) + 1
    BY <1>3, <1>5, <1>11
  <2>2. Follows(d.main.data, Gone) /\ Len(d.main.data) = Len(main.data) + 1
    BY <1>3, <1>5, <1>10, <1>11, <2>1
  <2>3. Follows(d.sub.data, Gone + Len(d.main.data))
    BY <1>11, <2>1 DEF Follows
  <2>4. ~Empty(d.main) /\ d.main # NoBuffer
    BY <1>3, <1>9, <2>2 DEF NoBuffer
  <2>5. QED
    BY <1>3, <1>4, <1>8, <1>9, <1>11, <2>1, <2>2, <2>3, <2>4
<1>12. CASE /\ ~DEmpty(send_buffer) /\ d.main = main
            /\ d.sub.data = sub.data \o b
  <2>1. Follows(d.sub.data, Gone + Len(main.data)) /\ Len(d.sub.data) = Len(sub.data) + 1
    <3>1. Gone + Len(main.data) \in Nat
          /\ Len(log.to) = (Gone + Len(main.data)) + Len(sub.data) + 1
      BY <1>3, <1>5
    <3>2. QED
      BY <1>3, <1>5, <1>10, <1>12, <3>1
  <2>2. Len(d.main.data) = Len(main.data)
    BY <1>12
  <2>3. Len(d.main.data) + Len(d.sub.data) = Len(main.data) + Len(sub.data) + 1
    <3> DEFINE m == Len(main.data) n == Len(sub.data)
               p == Len(d.main.data) q == Len(d.sub.data)
    <3>1. m \in Nat /\ n \in Nat /\ p \in Nat /\ q \in Nat /\ p = m /\ q = n + 1
      BY <1>3, <1>9, <2>1, <2>2
    <3> HIDE DEF m, n, p, q
    <3>2. p + q = m + n + 1
      BY <3>1
    <3>3. QED
      BY <3>2 DEF m, n, p, q
  <2>4. Empty(d.main) => ~DEmpty(send_buffer) /\ Empty(main)
    BY <1>12
  <2>5. /\ Follows(d.main.data, Gone)
        /\ Follows(d.sub.data, Gone + Len(d.main.data))
        /\ d.main # NoBuffer
    BY <1>5, <1>6, <1>12, <2>1, <2>2
  <2>6. d.main.raw = main.raw /\ Len(d.main.data) >= Len(main.data)
    BY <1>3, <1>12, <2>2
  <2>7. QED
    BY <1>4, <1>8, <1>9, <2>3, <2>4, <2>5, <2>6
<1>13. QED
  BY <1>8, <1>11, <1>12

\* send_to() from the push on (udp_socket.cpp:170-177): a write is submitted if and only
\* if the buffer was empty, and then there is none.
LEMMA SendToPushesKeeps ==
    ASSUME IInv, NEW t \in Threads, SendToPushes(t)
    PROVE  IInv'
<1>1. PICK d :
          /\ d \in DPushes(send_buffer, <<Len(log.to)>>, log.fresh)
          /\ send_buffer' = d
          /\ IF DEmpty(send_buffer) /\ own[t].addr \notin OddPeers
             THEN Submits(t, Sending(d, own[t].addr))
             ELSE UNCHANGED contexts
  BY DEF SendToPushes
<1>2. /\ pc[t] = "push" /\ lock = t /\ ~DPushSpins(send_buffer, 1)
      /\ Walks(t, "push", Home(t)) /\ SameCtx
      /\ UNCHANGED <<socket_handler, shutdown_gracefully, own, file>>
      /\ lock' = NoThread
      /\ log' = [log EXCEPT !.fresh = @ + 1,
                     !.odd = @ \/ (DEmpty(send_buffer) /\ own[t].addr \in OddPeers)]
  BY DEF SendToPushes, Goto, Walks, SameCtx
<1>3. /\ Home(t) \in Labels \ {"received", "sent", "activate", "push", "spin"}
      /\ Proper(t, "push", Home(t))
  BY HomeLabels DEF Proper, Stages, UserLabels
<1>4. /\ log.notified = 0
      /\ d \in DoubleBuffer /\ Solid(d.main) /\ Solid(d.sub)
      /\ d.main # NoBuffer /\ (Empty(d.main) => ~DEmpty(send_buffer) /\ Empty(main))
      /\ Follows(d.main.data, Gone)
      /\ Follows(d.sub.data, Gone + Len(d.main.data))
      /\ Len(d.main.data) \in Nat /\ Len(d.sub.data) \in Nat
      /\ Len(d.main.data) + Len(d.sub.data) = Len(main.data) + Len(sub.data) + 1
      /\ ~Empty(main) => /\ d.main.raw = main.raw
                         /\ Len(d.main.data) >= Len(main.data)
  BY <1>1, <1>2, PushFacts
<1>5. main' = d.main /\ sub' = d.sub
  BY <1>1 DEF main, sub
<1>6. d.main \in Buffer /\ (Empty(d.main) <=> Len(d.main.data) = 0)
      /\ main \in Buffer /\ Len(main.data) \in Nat /\ (Empty(main) <=> Len(main.data) = 0)
  BY <1>4, DoubleFields, BufferFields, TypeFacts DEF IInv
<1>7. /\ log' \in Log /\ log'.to = log.to /\ log'.sent = log.sent
      /\ log'.notified = log.notified /\ log'.promised = log.promised
      /\ log'.stopping = log.stopping /\ log'.empty = log.empty
      /\ Len(log.to) \in Nat /\ Len(log.sent) \in Nat
  <2>1. /\ log \in Log /\ log.fresh \in Nat \ {0} /\ log.fresh + 1 \in Nat \ {0}
        /\ Len(log.to) \in Nat /\ Len(log.sent) \in Nat
    BY TypeFacts, LogFields DEF IInv
  <2>2. (log.odd \/ (DEmpty(send_buffer) /\ own[t].addr \in OddPeers)) \in BOOLEAN
    BY <2>1, LogFields
  <2>3. QED
    BY <1>2, <2>1, <2>2 DEF Log
<1>8. \A s \in Threads : ~Activating(s)
  BY <1>2, NoneActivates DEF IInv
<1>9. DEmpty(send_buffer) => \A c \in Contexts : ~Writing(c)
  BY <1>4, <1>8, EmptyDrained DEF IInv
<1>10. \E N : /\ Moves(t, "push", Home(t), N, "write")
              /\ contexts' \in [Contexts -> Context]
              /\ N # {} => DEmpty(send_buffer)
              /\ \A c \in N : contexts'[c].raw = d.main.raw
                              /\ contexts'[c].len = Len(d.main.data)
  <2>1. CASE DEmpty(send_buffer) /\ own[t].addr \notin OddPeers
    <3> DEFINE x == Sending(d, own[t].addr)
    <3>1. /\ x \in Context /\ x.type = "write" /\ x.raw = d.main.raw
          /\ x.len = Len(d.main.data)
      <4>1. own[t].addr \in Peers \cup {NoPeer}
        BY TypeFacts DEF IInv, Own
      <4>2. QED
        BY <1>6, <4>1, SendingFacts
    <3>2. Submits(t, x)
      BY <1>1, <2>1
    <3> HIDE DEF x
    <3>3. PICK n \in Contexts : Asks(t, "push", Home(t), n, x)
      BY <1>2, <3>1, <3>2, SubmitsAsks DEF IInv
    <3>4. Moves(t, "push", Home(t), {n}, "write")
      BY <3>1, <3>3, AsksMoves
    <3>5. /\ contexts' \in [Contexts -> Context]
          /\ contexts'[n].raw = d.main.raw /\ contexts'[n].len = Len(d.main.data)
      BY <3>1, <3>3 DEF Asks
    <3>6. QED
      BY <2>1, <3>4, <3>5
  <2>2. CASE ~(DEmpty(send_buffer) /\ own[t].addr \notin OddPeers)
    <3>1. contexts' = contexts
      BY <1>1, <2>2
    <3>2. Moves(t, "push", Home(t), {}, "write")
      BY <1>2, <3>1 DEF Moves
    <3>3. QED
      BY <3>1, <3>2, TypeFacts DEF IInv
  <2>3. QED
    BY <2>1, <2>2
<1>11. PICK N : /\ Moves(t, "push", Home(t), N, "write")
                /\ contexts' \in [Contexts -> Context]
                /\ N # {} => DEmpty(send_buffer)
                /\ \A c \in N : contexts'[c].raw = d.main.raw
                                /\ contexts'[c].len = Len(d.main.data)
  BY <1>10
<1>12. Types'
  BY <1>1, <1>2, <1>3, <1>4, <1>7, <1>11, WalkFacts, TypeFacts, TypesFollow DEF IInv
<1>13. Places'
  BY <1>3, <1>11, MovesPlaces DEF IInv
<1>14. Locks'
  <2>1. pc'[t] = Home(t) /\ \A s \in Threads \ {t} : pc'[s] = pc[s]
    BY <1>2, <1>3, WalkFacts DEF IInv
  <2>2. QED
    BY <1>2, <1>3, <2>1, ThreadFacts DEF IInv, Locks
<1>15. Activates' /\ \A s \in Threads : ~Activating(s)'
  BY <1>2, <1>3, <1>8, ActivatesKept DEF IInv
<1>16. \A c \in Contexts :
          /\ Reading(c)' <=> Reading(c)
          /\ Writing(c)' <=> Writing(c) \/ c \in N
          /\ InUse(c, "shutdown")' <=> InUse(c, "shutdown")
  <2>1. Home(t) \in Labels \ {"received", "sent"}
    BY <1>3
  <2>2. \A c \in Contexts :
          /\ \A k : InUse(c, k)' <=> InUse(c, k) \/ (c \in N /\ "write" = k)
          /\ Reading(c)' <=> \/ /\ Reading(c)
                                /\ ~(t \in Workers /\ "push" = "received" /\ own[t].ctx = c)
                             \/ c \in N /\ "write" = "read"
          /\ Writing(c)' <=> \/ /\ Writing(c)
                                /\ ~(t \in Workers /\ "push" = "sent" /\ own[t].ctx = c)
                             \/ c \in N /\ "write" = "write"
    <3>1. Types /\ Places /\ Moves(t, "push", Home(t), N, "write")
      BY <1>11 DEF IInv
    <3>2. QED
      BY <2>1, <3>1, MovesRights, Zenon
  <2>3. QED
    BY <2>2
<1>17. Reads'
  BY <1>7, <1>8, <1>16, ReadsKept DEF IInv
<1>18. Stops'
  BY <1>2, <1>7, <1>11, StopsKept DEF IInv
<1>19. Writes'
  <2>1. \A c \in Contexts : Writing(c)' => ~Empty(d.main)
    <3>1. ASSUME NEW c \in Contexts, Writing(c)' PROVE ~Empty(d.main)
      <4>1. CASE Writing(c)
        <5>1. main # NoBuffer
          BY <1>4, <1>8 DEF IInv, Bytes
        <5>2. QED
          BY <1>4, <4>1, <5>1 DEF IInv, Writes
      <4>2. CASE c \in N
        BY <1>4, <1>11, <4>2
      <4>3. QED
        BY <1>16, <3>1, <4>1, <4>2
    <3>2. QED
      BY <3>1
  <2>2. ASSUME NEW c \in Contexts, NEW e \in Contexts, Writing(c)', Writing(e)'
        PROVE  c = e
    <3>1. CASE N = {}
      BY <1>16, <2>2, <3>1 DEF IInv, Writes
    <3>2. CASE N # {}
      BY <1>9, <1>11, <1>16, <2>2, <3>2 DEF Moves
    <3>3. QED
      BY <3>1, <3>2
  <2>3. QED
    BY <1>4, <1>5, <2>1, <2>2 DEF Writes
<1>20. Bytes'
  <2>1. /\ Accepted = Len(log.to) - 1 /\ Accepted' = Len(log.to)
        /\ Len(sub.data) \in Nat /\ Gone' = Gone /\ Gone \in Nat
    <3>1. Accepted = Len(log.to) - 1 /\ Accepted' = Len(log.to)
      BY <1>2, <1>7, ThreadFacts DEF Accepted
    <3>2. Len(sub.data) \in Nat /\ Gone \in Nat
      BY <1>4, TypeFacts, BufferFields DEF IInv, Bytes, Held
    <3>3. Gone' = Gone
      <4> DEFINE l == Len(log.to) m == Len(main.data) n == Len(sub.data)
                 p == Len(d.main.data) q == Len(d.sub.data)
      <4>1. Gone' = l - p - q /\ Gone = l - 1 - m - n
        BY <1>5, <3>1 DEF Gone
      <4>2. /\ l \in Nat /\ m \in Nat /\ n \in Nat /\ p \in Nat /\ q \in Nat
            /\ p + q = m + n + 1
        BY <1>4, <1>6, <1>7, <3>2
      <4> HIDE DEF l, m, n, p, q
      <4>3. l - p - q = l - 1 - m - n
        BY <4>2
      <4>4. QED
        BY <4>1, <4>3
    <3>4. QED
      BY <3>1, <3>2, <3>3
  <2>2. Held'
    BY <1>4, <1>5, <1>7, <2>1 DEF IInv, Bytes, Held
  <2>3. ASSUME NEW c \in Contexts, Writing(c)'
        PROVE  WriteOf(c)'
    <3>1. CASE c \in N
      <4>1. contexts'[c].st = "pending"
        BY <1>11, <3>1 DEF Moves
      <4>2. Len(d.main.data) >= 1
        BY <1>4, <1>6, <1>11, <3>1
      <4>3. Len(log.sent) = Gone
        BY <1>4, <1>9, <1>11, <3>1 DEF IInv, Bytes, OnWire
      <4>4. QED
        BY <1>4, <1>5, <1>7, <1>11, <2>1, <3>1, <4>1, <4>2, <4>3 DEF WriteOf
    <3>2. CASE c \notin N
      <4>1. Writing(c) /\ contexts'[c] = contexts[c]
        BY <1>11, <1>16, <2>3, <3>2 DEF Moves
      <4>2. WriteOf(c) /\ ~Empty(main)
        BY <1>4, <1>8, <4>1 DEF IInv, Bytes, OnWire, Writes
      <4>3. contexts[c].len \in Nat /\ contexts[c].res \in Int
        BY TypeFacts, ContextFields DEF IInv
      <4>4. d.main.raw = main.raw /\ 1..Len(main.data) \subseteq 1..Len(d.main.data)
            /\ Len(d.main.data) >= Len(main.data)
        BY <1>4, <1>6, <4>2
      <4>5. CASE contexts[c].st = "pending"
        BY <1>5, <1>7, <2>1, <4>1, <4>2, <4>4, <4>5 DEF WriteOf
      <4>6. CASE contexts[c].st # "pending"
        <5>1. IF contexts[c].res > 0
              THEN contexts[c].res <= Len(main.data) /\ Len(log.sent) = Gone + contexts[c].res
              ELSE Len(log.sent) = Gone
          BY <4>2, <4>6 DEF WriteOf
        <5>2. contexts[c].res > 0 => contexts[c].res <= Len(d.main.data)
          BY <1>4, <1>6, <4>3, <4>4, <5>1
        <5>3. QED
          BY <1>5, <1>7, <2>1, <4>1, <4>6, <5>1, <5>2 DEF WriteOf
      <4>7. QED
        BY <4>5, <4>6
    <3>3. QED
      BY <3>1, <3>2
  <2>4. (\A c \in Contexts : ~Writing(c)') => Len(log'.sent) = Gone'
    BY <1>4, <1>7, <1>16, <2>1 DEF IInv, Bytes, OnWire
  <2>5. QED
    BY <1>4, <1>5, <1>7, <2>2, <2>3, <2>4 DEF Bytes, OnWire
<1>21. Drains'
  <2>1. log \in Log
    BY TypeFacts DEF IInv
  <2>2. QED
    BY <1>7, <1>16, <2>1, DrainsKept DEF IInv
<1>22. QED
  BY <1>12, <1>13, <1>14, <1>15, <1>17, <1>18, <1>19, <1>20, <1>21 DEF IInv

\* What io_sent pops and elevates (socket_object.cpp:96-100): the bytes that have left go,
\* the others stay in their order, and after io_shutdown there is nothing to pop.
LEMMA SentFacts ==
    ASSUME IInv, NEW w \in Workers, pc[w] = "sent",
           NEW k, k = contexts[own[w].ctx].res,
           NEW d, d = Elevated(DPopped(send_buffer, k))
    PROVE  /\ own[w].ctx \in Contexts /\ Writing(own[w].ctx) /\ k \in Nat \ {0}
           /\ d \in DoubleBuffer /\ Solid(d.main) /\ Solid(d.sub)
           /\ Empty(d.main) => DEmpty(d)
           /\ log.notified # 0 => d = NoDoubleBuffer
           /\ log.notified = 0 =>
                 /\ d.main # NoBuffer
                 /\ Gone + k \in Nat /\ Len(log.sent) = Gone + k
                 /\ Follows(d.main.data, Gone + k)
                 /\ Follows(d.sub.data, (Gone + k) + Len(d.main.data))
                 /\ Len(d.main.data) + Len(d.sub.data) + k = Len(main.data) + Len(sub.data)
<1> DEFINE x == contexts[own[w].ctx]
           p == DPopped(send_buffer, k)
<1>1. /\ own[w].ctx \in Contexts /\ x.st = "taken" /\ x.type = "write"
      /\ k \in Nat \ {0}
  <2>1. own[w].ctx \in Contexts /\ x.st = "taken" /\ "sent" \in Stages[x.type]
        /\ k > 0
    BY ThreadFacts, TypeFacts DEF IInv, Places
  <2>2. x.type \in {"none", "read", "write", "shutdown"} /\ x.res \in Int
    BY <2>1, TypeFacts, ContextFields DEF IInv
  <2>3. QED
    BY <2>1, <2>2 DEF Stages
<1>2. Writing(own[w].ctx)
  BY <1>1 DEF Writing, Live
<1>3. /\ send_buffer \in DoubleBuffer /\ main \in Buffer /\ sub \in Buffer
      /\ Solid(main) /\ Solid(sub)
      /\ Len(main.data) \in Nat /\ Len(sub.data) \in Nat
      /\ log.notified \in Nat
  BY TypeFacts, LogFields, BufferFields DEF IInv, Writes
<1>4. /\ p = [send_buffer EXCEPT !.main = Popped(main, k)]
      /\ p.main = Popped(main, k) /\ p.sub = sub /\ d = Elevated(p)
  BY <1>3 DEF DPopped, main, sub, DoubleBuffer
<1> HIDE DEF p
<1>5. CASE log.notified # 0
  <2>1. send_buffer = NoDoubleBuffer
    BY <1>3, <1>5 DEF IInv, Bytes
  <2>2. main = NoBuffer /\ sub = NoBuffer /\ NoBuffer.data = <<>>
    BY <2>1 DEF main, sub, NoDoubleBuffer, NoBuffer
  <2>3. Popped(main, k) = NoBuffer
    BY <1>1, <2>2 DEF Popped
  <2>4. p = NoDoubleBuffer
    BY <1>4, <2>1, <2>3 DEF NoDoubleBuffer
  <2>5. d = NoDoubleBuffer
    BY <1>4, <2>4 DEF Elevated, NoDoubleBuffer, NoBuffer, Empty
  <2>6. d.main = NoBuffer /\ d.sub = NoBuffer
    BY <2>5 DEF NoDoubleBuffer
  <2>7. DEmpty(d)
    BY <2>2, <2>6 DEF DEmpty, Empty
  <2>8. d \in DoubleBuffer /\ Solid(d.main) /\ Solid(d.sub)
    BY <1>3, <2>1, <2>5, <2>6 DEF Solid
  <2>9. QED
    BY <1>1, <1>2, <1>5, <2>5, <2>7, <2>8
<1>6. CASE log.notified = 0
  <2>1. /\ k <= Len(main.data) /\ Len(log.sent) = Gone + k
        /\ Gone \in Nat /\ Follows(main.data, Gone)
        /\ Follows(sub.data, Gone + Len(main.data))
    <3>1. WriteOf(own[w].ctx) /\ Held
      BY <1>1, <1>2, <1>6 DEF IInv, Bytes, OnWire
    <3>2. QED
      BY <1>1, <3>1 DEF WriteOf, Held
  <2>2. k \in 0 .. Len(main.data)
    BY <1>1, <1>3, <2>1
  <2>3. main # NoBuffer
    BY <1>1, <1>3, <2>1 DEF NoBuffer
  <2>4. /\ Popped(main, k) \in Buffer /\ Popped(main, k).raw = main.raw
        /\ Popped(main, k).block = main.block
        /\ Len(Popped(main, k).data) = Len(main.data) - k
        /\ Follows(Popped(main, k).data, Gone + k)
    BY <1>3, <2>1, <2>2, PoppedDrops, PoppedFollows
  <2>5. Solid(p.main) /\ Solid(p.sub) /\ p.main # NoBuffer /\ p \in DoubleBuffer
    <3>1. main.raw # NULL /\ main.block > 0
      BY <1>3, <2>3 DEF Solid
    <3>2. Popped(main, k) # NoBuffer /\ Solid(Popped(main, k))
      BY <2>4, <3>1 DEF Solid, NoBuffer
    <3>3. p \in DoubleBuffer
      BY <1>3, <1>4, <2>4, DoubleFields
    <3>4. QED
      BY <1>3, <1>4, <3>2, <3>3
  <2>6. Follows(p.main.data, Gone + k)
        /\ Follows(p.sub.data, (Gone + k) + Len(p.main.data))
        /\ Len(p.main.data) = Len(main.data) - k /\ p.sub = sub
        /\ Gone + k \in Nat
    <3> DEFINE n == Len(main.data) o == Gone
    <3>1. n \in Nat /\ o \in Nat /\ k \in Nat
      BY <1>1, <1>3, <2>1
    <3> HIDE DEF n, o
    <3>2. (o + k) + (n - k) = o + n /\ o + k \in Nat
      BY <3>1
    <3> USE DEF n, o
    <3>3. QED
      BY <1>4, <2>1, <2>4, <3>2
  <2> DEFINE g == Gone + k
  <2> HIDE DEF g
  <2>7. /\ d \in DoubleBuffer /\ Solid(d.main) /\ Solid(d.sub)
        /\ Empty(d.main) => DEmpty(d)
        /\ d.main # NoBuffer
        /\ Len(d.main.data) + Len(d.sub.data) = Len(p.main.data) + Len(p.sub.data)
        /\ Follows(d.main.data, g) /\ Follows(d.sub.data, g + Len(d.main.data))
    <3>1. d = Elevated(p)
      BY <1>4
    <3>2. g \in Nat /\ Follows(p.main.data, g) /\ Follows(p.sub.data, g + Len(p.main.data))
      BY <2>6 DEF g
    <3>3. LET e == Elevated(p)
          IN  /\ e \in DoubleBuffer /\ Solid(e.main) /\ Solid(e.sub)
              /\ DEmpty(e) <=> DEmpty(p)
              /\ Empty(e.main) => DEmpty(e)
              /\ e.main = NoBuffer => p.main = NoBuffer
              /\ Len(e.main.data) + Len(e.sub.data) = Len(p.main.data) + Len(p.sub.data)
              /\ \A n \in Nat :
                    Follows(p.main.data, n) /\ Follows(p.sub.data, n + Len(p.main.data)) =>
                    Follows(e.main.data, n) /\ Follows(e.sub.data, n + Len(e.main.data))
      BY <2>5, ElevatedKeeps
    <3>4. QED
      BY <2>5, <3>1, <3>2, <3>3
  <2>8. Len(d.main.data) + Len(d.sub.data) + k = Len(main.data) + Len(sub.data)
    <3> DEFINE a == Len(d.main.data) b == Len(d.sub.data)
               m == Len(main.data) n == Len(sub.data) q == Len(p.main.data)
    <3>1. /\ a \in Nat /\ b \in Nat /\ m \in Nat /\ n \in Nat /\ k \in Nat
          /\ q = m - k /\ a + b = q + n
      BY <1>1, <1>3, <2>6, <2>7, DoubleFields, BufferFields
    <3> HIDE DEF a, b, m, n, q
    <3>2. a + b + k = m + n
      BY <3>1
    <3>3. QED
      BY <3>2 DEF a, b, m, n
  <2>9. QED
    BY <1>1, <1>2, <1>6, <2>1, <2>6, <2>7, <2>8 DEF g
<1>7. QED
  BY <1>5, <1>6

\* io_sent after the pop (socket_object.cpp:96-111): the right to write goes from the
\* completed request to its successor, if there are bytes left; if not, a graceful close
\* goes on.
LEMMA IoSentKeeps ==
    ASSUME IInv, NEW w \in Workers, IoSent(w)
    PROVE  IInv'
<1> DEFINE x == contexts[own[w].ctx]
           k == x.res
           d == Elevated(DPopped(send_buffer, k))
<1>1. /\ w \in Threads /\ Walks(w, "sent", "finish") /\ SameCtx /\ lock = NoThread
      /\ UNCHANGED <<socket_handler, shutdown_gracefully, lock, own, file>>
      /\ log' = log /\ send_buffer' = d
      /\ "finish" \in Labels \ {"received", "sent", "activate"}
  BY ThreadFacts DEF IoSent, Goto, Walks, SameCtx, Labels
<1>2. IF ~DEmpty(d) THEN Submits(w, Sending(d, x.addr))
      ELSE IF shutdown_gracefully THEN Submits(w, Shutting)
      ELSE UNCHANGED contexts
  BY DEF IoSent
<1>3. /\ own[w].ctx \in Contexts /\ Writing(own[w].ctx) /\ k \in Nat \ {0}
      /\ d \in DoubleBuffer /\ Solid(d.main) /\ Solid(d.sub)
      /\ Empty(d.main) => DEmpty(d)
      /\ log.notified # 0 => d = NoDoubleBuffer
      /\ log.notified = 0 =>
            /\ d.main # NoBuffer
            /\ Gone + k \in Nat /\ Len(log.sent) = Gone + k
            /\ Follows(d.main.data, Gone + k)
            /\ Follows(d.sub.data, (Gone + k) + Len(d.main.data))
            /\ Len(d.main.data) + Len(d.sub.data) + k = Len(main.data) + Len(sub.data)
  BY <1>1, SentFacts DEF Walks
<1>4. x.addr \in Peers \cup {NoPeer}
  BY <1>3, TypeFacts, ContextFields DEF IInv
<1> HIDE DEF d, k, x
<1>5. /\ main' = d.main /\ sub' = d.sub
      /\ d.main \in Buffer /\ d.sub \in Buffer
      /\ Len(d.main.data) \in Nat /\ Len(d.sub.data) \in Nat
      /\ Empty(d.main) <=> Len(d.main.data) = 0
      /\ Empty(d.sub) <=> Len(d.sub.data) = 0
  BY <1>1, <1>3, DoubleFields, BufferFields DEF main, sub
<1>6. \E N, type :
          /\ Moves(w, "sent", "finish", N, type) /\ type \in {"write", "shutdown"}
          /\ contexts' \in [Contexts -> Context]
          /\ N # {} /\ type = "write" =>
                /\ ~DEmpty(d)
                /\ \A c \in N : /\ contexts'[c].raw = d.main.raw
                                 /\ contexts'[c].len = Len(d.main.data)
          /\ type = "shutdown" => DEmpty(d) /\ shutdown_gracefully
  <2>1. CASE ~DEmpty(d)
    <3>1. /\ Sending(d, x.addr) \in Context /\ Sending(d, x.addr).type = "write"
          /\ Sending(d, x.addr).raw = d.main.raw
          /\ Sending(d, x.addr).len = Len(d.main.data)
      BY <1>4, <1>5, SendingFacts
    <3>2. PICK n \in Contexts : Asks(w, "sent", "finish", n, Sending(d, x.addr))
      BY <1>1, <1>2, <2>1, <3>1, SubmitsAsks DEF IInv
    <3>3. Moves(w, "sent", "finish", {n}, "write")
      BY <1>1, <3>1, <3>2, AsksMoves
    <3>4. /\ contexts' \in [Contexts -> Context]
          /\ contexts'[n].raw = d.main.raw /\ contexts'[n].len = Len(d.main.data)
      BY <3>1, <3>2 DEF Asks
    <3>5. QED
      BY <2>1, <3>3, <3>4
  <2>2. CASE DEmpty(d) /\ shutdown_gracefully
    <3>1. Shutting \in Context /\ Shutting.type = "shutdown"
      BY DEF Shutting, FreeContext, Context, NULL
    <3>2. PICK n \in Contexts : Asks(w, "sent", "finish", n, Shutting)
      BY <1>1, <1>2, <2>2, <3>1, SubmitsAsks DEF IInv
    <3>3. Moves(w, "sent", "finish", {n}, "shutdown")
      BY <1>1, <3>1, <3>2, AsksMoves
    <3>4. contexts' \in [Contexts -> Context]
      BY <3>2 DEF Asks
    <3>5. QED
      BY <2>2, <3>3, <3>4
  <2>3. CASE DEmpty(d) /\ ~shutdown_gracefully
    <3>1. contexts' = contexts
      BY <1>2, <2>3
    <3>2. Moves(w, "sent", "finish", {}, "write")
      BY <1>1, <3>1 DEF Moves
    <3>3. QED
      BY <3>1, <3>2, TypeFacts DEF IInv
  <2>4. QED
    BY <2>1, <2>2, <2>3
<1>7. PICK N, type :
          /\ Moves(w, "sent", "finish", N, type) /\ type \in {"write", "shutdown"}
          /\ contexts' \in [Contexts -> Context]
          /\ N # {} /\ type = "write" =>
                /\ ~DEmpty(d)
                /\ \A c \in N : /\ contexts'[c].raw = d.main.raw
                                 /\ contexts'[c].len = Len(d.main.data)
          /\ type = "shutdown" => DEmpty(d) /\ shutdown_gracefully
  BY <1>6
<1>8. Types'
  BY <1>1, <1>3, <1>7, WalkFacts, TypeFacts, TypesFollow DEF IInv
<1>9. Places'
  <2>1. Proper(w, "sent", "finish")
    BY DEF Proper, Stages
  <2>2. QED
    BY <1>1, <1>7, <2>1, MovesPlaces DEF IInv
<1>10. Locks'
  BY <1>1, LocksKept DEF IInv
<1>11. \A s \in Threads : ~Activating(s)
  BY <1>1, NoneActivates DEF IInv, Walks
<1>12. Activates' /\ \A s \in Threads : ~Activating(s)'
  BY <1>1, <1>11, ActivatesKept DEF IInv
<1>13. \A c \in Contexts :
          /\ Reading(c)' <=> Reading(c)
          /\ Writing(c)' <=> c \in N /\ type = "write"
          /\ InUse(c, "shutdown")' <=>
                InUse(c, "shutdown") \/ (c \in N /\ type = "shutdown")
  <2>1. \A c \in Contexts :
          /\ \A j : InUse(c, j)' <=> InUse(c, j) \/ (c \in N /\ type = j)
          /\ Reading(c)' <=> \/ /\ Reading(c)
                                /\ ~(w \in Workers /\ "sent" = "received" /\ own[w].ctx = c)
                             \/ c \in N /\ type = "read"
          /\ Writing(c)' <=> \/ /\ Writing(c)
                                /\ ~(w \in Workers /\ "sent" = "sent" /\ own[w].ctx = c)
                             \/ c \in N /\ type = "write"
    <3>1. Types /\ Places /\ "finish" \in Labels \ {"received", "sent"}
      BY <1>1 DEF IInv
    <3>2. QED
      BY <1>1, <1>7, <3>1, MovesRights, Zenon
  <2>2. \A c \in Contexts : Writing(c) => c = own[w].ctx
    BY <1>3 DEF IInv, Writes
  <2>3. QED
    BY <1>7, <2>1, <2>2
<1>14. Reads'
  BY <1>1, <1>11, <1>13, ReadsKept DEF IInv
<1>15. Stops'
  <2>1. CASE log.stopping
    BY <1>1, <2>1, StopsLater
  <2>2. CASE ~log.stopping
    <3>1. type # "shutdown"
      BY <1>7, <2>2 DEF IInv, Stops
    <3>2. QED
      BY <1>1, <1>7, <3>1, StopsKept DEF IInv
  <2>3. QED
    BY <2>1, <2>2
<1>16. Writes'
  <2>1. ASSUME NEW c \in Contexts, Writing(c)'
        PROVE  ~Empty(d.main)
    BY <1>3, <1>7, <1>13, <2>1
  <2>2. ASSUME NEW c \in Contexts, NEW e \in Contexts, Writing(c)', Writing(e)'
        PROVE  c = e
    BY <1>7, <1>13, <2>2 DEF Moves
  <2>3. QED
    BY <1>3, <1>5, <2>1, <2>2 DEF Writes
<1>17. log.notified = 0 => Accepted' = Len(log.to) /\ Gone' = Gone + k
  <2>1. Accepted' = Len(log.to) /\ Accepted = Len(log.to)
    BY <1>1 DEF Accepted
  <2> DEFINE l == Len(log.to) m == Len(main.data) n == Len(sub.data)
             p == Len(d.main.data) q == Len(d.sub.data)
  <2>2. Gone' = l - p - q /\ Gone = l - m - n
    BY <1>5, <2>1 DEF Gone
  <2>3. /\ l \in Nat /\ m \in Nat /\ n \in Nat /\ p \in Nat /\ q \in Nat /\ k \in Nat
        /\ log.notified = 0 => p + q + k = m + n
    BY <1>3, <1>5, TypeFacts, LogFields, BufferFields DEF IInv
  <2> HIDE DEF l, m, n, p, q
  <2>4. log.notified = 0 => l - p - q = (l - m - n) + k
    BY <2>3
  <2>5. QED
    BY <2>1, <2>2, <2>4 DEF l
<1>18. Bytes'
  <2>1. CASE log.notified # 0
    <3>1. log.notified \in Nat
      BY TypeFacts, LogFields DEF IInv
    <3>2. QED
      BY <1>1, <1>3, <2>1, <3>1 DEF Bytes
  <2>2. CASE log.notified = 0
    <3>1. Follows(log.sent, 0) /\ log'.notified = 0 /\ log'.sent = log.sent
      BY <1>1, <2>2 DEF IInv, Bytes, Held
    <3>2. Held'
      BY <1>3, <1>5, <1>17, <2>2, <3>1 DEF Held
    <3>3. Len(log'.sent) = Gone'
      BY <1>3, <1>17, <2>2, <3>1
    <3>4. ASSUME NEW c \in Contexts, Writing(c)'
          PROVE  WriteOf(c)'
      <4>1. /\ contexts'[c].st = "pending"
            /\ contexts'[c].raw = d.main.raw /\ contexts'[c].len = Len(d.main.data)
        BY <1>7, <1>13, <3>4 DEF Moves
      <4>2. ~Empty(d.main)
        BY <1>3, <1>7, <1>13, <3>4
      <4>3. Len(d.main.data) \in 1..Len(d.main.data)
        BY <1>5, <4>2
      <4>4. QED
        BY <1>5, <3>3, <4>1, <4>3 DEF WriteOf
    <3>5. OnWire'
      BY <3>3, <3>4 DEF OnWire
    <3>6. QED
      BY <1>3, <1>5, <2>2, <3>1, <3>2, <3>5 DEF Bytes
  <2>3. QED
    BY <2>1, <2>2
<1>19. Drains'
  <2>1. ASSUME log.notified = 0, NEW c \in Contexts, InUse(c, "shutdown")'
        PROVE  Len(log.sent) >= log.promised
    <3>1. CASE InUse(c, "shutdown")
      BY <2>1, <3>1 DEF IInv, Drains
    <3>2. CASE ~InUse(c, "shutdown")
      <4>1. DEmpty(d)
        BY <1>7, <1>13, <2>1, <3>2
      <4>2. Len(d.main.data) = 0 /\ Len(d.sub.data) = 0
        BY <1>5, <4>1 DEF DEmpty
      <4>3. Gone' = Len(log.to)
        BY <1>5, <1>17, <2>1, <4>2, TypeFacts, LogFields DEF IInv, Gone
      <4>4. Len(log.sent) = Len(log.to)
        BY <1>3, <1>17, <2>1, <4>3
      <4>5. log.promised \in Nat /\ Len(log.to) \in Nat
        BY TypeFacts, LogFields DEF IInv
      <4>6. QED
        BY <4>4, <4>5 DEF IInv, Drains
    <3>3. QED
      BY <3>1, <3>2
  <2>2. QED
    BY <1>1, <2>1 DEF IInv, Drains
<1>20. QED
  BY <1>8, <1>9, <1>10, <1>12, <1>14, <1>15, <1>16, <1>18, <1>19 DEF IInv

-----------------------------------------------------------------------------
(* Completions and what becomes of them.                                   *)

\* The kernel answers request c, which becomes x: nothing moves but the bytes of a write
\* that succeeds.
LEMMA CompletesKeeps ==
    ASSUME IInv, NEW c \in Contexts, contexts[c].st = "pending",
           NEW x \in Context, x.st = "done",
           x.type = contexts[c].type, x.fd = contexts[c].fd,
           contexts' = [contexts EXCEPT ![c] = x],
           UNCHANGED <<socket_handler, shutdown_gracefully, send_buffer, lock, pc, own>>,
           file' \in File, log.stopping \/ file'.shut = file.shut,
           log' \in Log, log'.to = log.to, log'.notified = log.notified,
           log'.promised = log.promised, log'.stopping = log.stopping,
           log.empty => log'.empty,
           x.type = "read" => x.res > 0 \/ log'.empty \/ log.stopping,
           NEW n \in Nat, Len(log'.sent) = Len(log.sent) + n,
           log.notified = 0 => /\ Follows(log'.sent, 0)
                               /\ x.type # "write" => n = 0
                               /\ x.type = "write" /\ x.res > 0 =>
                                     x.res <= Len(main.data) /\ n = x.res
                               /\ x.type = "write" /\ ~(x.res > 0) => n = 0
    PROVE  IInv'
<1>1. /\ contexts' \in [Contexts -> Context] /\ contexts'[c] = x
      /\ \A d \in Contexts \ {c} : contexts'[d] = contexts[d]
  BY TypeFacts DEF IInv
<1>2. \A s \in Threads : ~Activating(s)
  BY NoneActivates DEF IInv
<1>3. Types'
  BY <1>1, TypeFacts, TypesFollow DEF IInv
<1>4. \A w \in Workers : own[w].ctx # c
  BY ThreadFacts DEF IInv, Places
<1>5. Places'
  <2>1. ASSUME NEW w \in Workers
        PROVE  \/ own'[w].ctx = NoContext /\ pc'[w] = "wait"
               \/ /\ own'[w].ctx # NoContext /\ contexts'[own'[w].ctx].st = "taken"
                  /\ pc'[w] \in Stages[contexts'[own'[w].ctx].type]
                  /\ pc'[w] = "sent" => contexts'[own'[w].ctx].res > 0
    <3>1. own[w].ctx \in (Contexts \ {c}) \cup {NoContext}
      BY <1>4, TypeFacts, ThreadFacts DEF IInv
    <3>2. QED
      BY <1>1, <3>1 DEF IInv, Places
  <2>2. \A d \in Contexts : /\ contexts'[d].st = "taken" => contexts[d].st = "taken"
                            /\ contexts'[d].st # "free" => contexts'[d].type # "none"
    BY <1>1 DEF IInv, Places
  <2>3. QED
    BY <2>1, <2>2 DEF IInv, Places
<1>6. Locks'
  BY DEF IInv, Locks
<1>7. Activates' /\ \A s \in Threads : ~Activating(s)'
  BY <1>2 DEF Activates, Activating
<1>8. \A d \in Contexts :
         /\ Reading(d)' <=> Reading(d)
         /\ Writing(d)' <=> Writing(d)
         /\ InUse(d, "shutdown")' <=> InUse(d, "shutdown")
  <2>1. ASSUME NEW d \in Contexts, d # c
        PROVE  /\ Reading(d)' <=> Reading(d)
               /\ Writing(d)' <=> Writing(d)
               /\ InUse(d, "shutdown")' <=> InUse(d, "shutdown")
    BY <1>1, <2>1 DEF Reading, Writing, Live, InUse
  <2>2. /\ Reading(c)' <=> Reading(c)
        /\ Writing(c)' <=> Writing(c)
        /\ InUse(c, "shutdown")' <=> InUse(c, "shutdown")
    BY <1>1 DEF Reading, Writing, Live, InUse
  <2>3. QED
    BY <2>1, <2>2
<1>9. Reads'
  BY <1>2, <1>8, ReadsKept DEF IInv
<1>10. Stops'
  <2>1. CASE log.stopping
    BY <2>1, StopsLater
  <2>2. CASE ~log.stopping
    <3>1. \A d \in Contexts :
             /\ contexts'[d].st # "free" => contexts'[d].fd = Fd
             /\ contexts'[d].st = "done" /\ contexts'[d].type = "read" =>
                   contexts'[d].res > 0 \/ log'.empty
      BY <1>1, <2>2 DEF IInv, Stops
    <3>2. QED
      BY <1>8, <2>2, <3>1 DEF IInv, Stops
  <2>3. QED
    BY <2>1, <2>2
<1>11. Writes'
  BY <1>8, WritesKept DEF IInv
<1>12. main' = main /\ sub' = sub /\ Accepted' = Accepted /\ Gone' = Gone
  BY DEF main, sub, Accepted, Gone
<1>13. /\ Len(log.sent) \in Nat /\ Len(log'.sent) \in Nat /\ log.notified \in Nat
       /\ Len(log.to) \in Nat /\ Len(log'.to) \in Nat
  BY TypeFacts, LogFields DEF IInv
<1>14. Bytes'
  <2>1. CASE log.notified # 0
    BY <1>13, <2>1 DEF IInv, Bytes
  <2>2. CASE log.notified = 0
    <3>1. Held /\ OnWire /\ main # NoBuffer /\ Gone \in Nat
      BY <1>2, <2>2 DEF IInv, Bytes, Held
    <3>2. Held'
      BY <1>12, <2>2, <3>1 DEF Held
    <3>3. CASE x.type # "write"
      <4>1. \A d \in Contexts : Writing(d) => d # c
        BY <3>3 DEF Writing, Live
      <4>2. Len(log'.sent) = Len(log.sent)
        BY <1>13, <2>2, <3>3
      <4>3. \A d \in Contexts : Writing(d)' => WriteOf(d)'
        BY <1>1, <1>8, <1>12, <3>1, <4>1, <4>2 DEF OnWire, WriteOf
      <4>4. (\A d \in Contexts : ~Writing(d)') => Len(log'.sent) = Gone'
        BY <1>8, <1>12, <3>1, <4>2 DEF OnWire
      <4>5. QED
        BY <1>12, <2>2, <3>1, <3>2, <4>3, <4>4 DEF Bytes, OnWire
    <3>4. CASE x.type = "write"
      <4>1. Writing(c)
        BY <3>4 DEF Writing, Live
      <4>2. Len(log.sent) = Gone
        BY <3>1, <4>1 DEF OnWire, WriteOf
      <4>3. \A d \in Contexts : Writing(d)' => d = c
        BY <1>8, <4>1 DEF IInv, Writes
      <4>4. IF x.res > 0 THEN x.res <= Len(main.data) /\ Len(log'.sent) = Gone + x.res
                         ELSE Len(log'.sent) = Gone
        BY <1>13, <2>2, <3>1, <3>4, <4>2
      <4>5. WriteOf(c)'
        BY <1>1, <1>12, <4>4 DEF WriteOf
      <4>6. Writing(c)'
        BY <1>8, <4>1
      <4>7. QED
        BY <1>12, <2>2, <3>1, <3>2, <4>3, <4>5, <4>6 DEF Bytes, OnWire
    <3>5. QED
      BY <3>3, <3>4
  <2>3. QED
    BY <2>1, <2>2
<1>15. Drains'
  <2>1. Len(log.sent) <= Len(log'.sent) /\ Len(log.to) <= Len(log'.to) /\ log \in Log
    BY <1>13, TypeFacts DEF IInv
  <2>2. QED
    BY <1>8, <2>1, DrainsKept DEF IInv
<1>16. QED
  BY <1>3, <1>5, <1>6, <1>7, <1>9, <1>10, <1>11, <1>14, <1>15 DEF IInv

\* The record of a request of which the result is written.
LEMMA DoneRecord ==
    ASSUME NEW c \in Context, NEW r \in Int
    PROVE  LET x == [c EXCEPT !.st = "done", !.res = r]
           IN  /\ x \in Context /\ x.st = "done" /\ x.res = r
               /\ x.type = c.type /\ x.fd = c.fd
BY DEF Context

\* The kernel's answer to a request of which no byte leaves, with res = r.
LEMMA CompletedKeeps ==
    ASSUME IInv, NEW c \in Contexts, contexts[c].st = "pending",
           NEW r \in Int, Completed(c, r), contexts[c].type = "write" => r <= 0,
           UNCHANGED <<socket_handler, shutdown_gracefully, send_buffer, lock, pc, own, log>>,
           file' \in File, log.stopping \/ file'.shut = file.shut,
           contexts[c].type = "read" => r > 0 \/ log.stopping
    PROVE  IInv'
<1> DEFINE x == [contexts[c] EXCEPT !.st = "done", !.res = r]
<1>1. /\ x \in Context /\ x.st = "done" /\ x.res = r
      /\ x.type = contexts[c].type /\ x.fd = contexts[c].fd
  <2>1. contexts[c] \in Context
    BY TypeFacts DEF IInv
  <2>2. QED
    BY <2>1, DoneRecord
<1>2. contexts' = [contexts EXCEPT ![c] = x]
  BY DEF Completed
<1> HIDE DEF x
<1>3. log \in Log /\ Len(log.sent) = Len(log.sent) + 0
  BY TypeFacts, LogFields DEF IInv
<1>4. log.notified = 0 => Follows(log.sent, 0)
  BY DEF IInv, Bytes, Held
<1>5. x.type = "write" => ~(x.res > 0)
  BY <1>1
<1>6. QED
  BY <1>1, <1>2, <1>3, <1>4, <1>5, CompletesKeeps

\* Before stop() no request is for stdin and nothing is shut.
LEMMA BeforeStop ==
    ASSUME IInv, NEW c \in Contexts, contexts[c].st = "pending",
           contexts[c].fd = Stdin \/ contexts[c].type = "shutdown" \/ file.shut
    PROVE  log.stopping
BY DEF IInv, Stops, InUse, Fd, Stdin

\* sendmsg fails.
LEMMA KernelRefusesKeeps ==
    ASSUME IInv, NEW c \in Contexts, KernelRefuses(c)
    PROVE  IInv'
<1>1. /\ contexts[c].st = "pending" /\ contexts[c].type = "write" /\ Completed(c, -1)
      /\ UNCHANGED <<socket_handler, shutdown_gracefully, send_buffer, lock, pc, own, log>>
      /\ file' = file
  BY DEF KernelRefuses, Pending, sockvars
<1>2. QED
  BY <1>1, TypeFacts, CompletedKeeps DEF IInv

\* The shutdown request is carried out.
LEMMA KernelShutsDownKeeps ==
    ASSUME IInv, NEW c \in Contexts, KernelShutsDown(c)
    PROVE  IInv'
<1>1. /\ contexts[c].st = "pending" /\ contexts[c].type = "shutdown" /\ Completed(c, 0)
      /\ UNCHANGED <<socket_handler, shutdown_gracefully, send_buffer, lock, pc, own, log>>
      /\ file' = [file EXCEPT !.shut = TRUE]
  BY DEF KernelShutsDown, Pending, sockvars
<1>2. file' \in File
  BY <1>1, TypeFacts DEF IInv, File
<1>3. log.stopping /\ contexts[c].type # "write" /\ contexts[c].type # "read" /\ 0 \in Int
  BY <1>1, BeforeStop
<1>4. QED
  <2>1. log.stopping \/ file'.shut = file.shut
    BY <1>3
  <2>2. contexts[c].type = "write" => 0 <= 0
    BY <1>3
  <2>3. contexts[c].type = "read" => 0 > 0 \/ log.stopping
    BY <1>3
  <2>4. QED
    BY <1>1, <1>2, <1>3, <2>1, <2>2, <2>3, CompletedKeeps

\* A request for descriptor 0 fails.
LEMMA StdinAnswersKeeps ==
    ASSUME IInv, NEW c \in Contexts, StdinAnswers(c)
    PROVE  IInv'
<1>1. /\ contexts[c].st = "pending" /\ contexts[c].fd = Stdin /\ Completed(c, -1)
      /\ UNCHANGED <<socket_handler, shutdown_gracefully, send_buffer, lock, pc, own, log>>
      /\ file' = file
  BY DEF StdinAnswers, Pending, sockvars
<1>2. log.stopping
  BY <1>1, BeforeStop
<1>3. QED
  BY <1>1, <1>2, TypeFacts, CompletedKeeps DEF IInv

\* recvmsg takes a datagram; or there are none and stop() was called.
LEMMA KernelReceivesKeeps ==
    ASSUME IInv, NEW c \in Contexts, KernelReceives(c)
    PROVE  IInv'
<1>1. /\ contexts[c].st = "pending" /\ contexts[c].type = "read"
      /\ UNCHANGED <<socket_handler, shutdown_gracefully, send_buffer, lock, pc, own>>
  BY DEF KernelReceives, Pending, sockvars
<1>2. CASE file.inbox = <<>>
  <2>1. /\ file.shut /\ Completed(c, 0) /\ file' = file /\ log' = log
    BY <1>2 DEF KernelReceives
  <2>2. log.stopping /\ contexts[c].type # "write" /\ 0 \in Int
    BY <1>1, <2>1, BeforeStop
  <2>3. file' \in File
    BY <2>1, TypeFacts DEF IInv
  <2>4. QED
    BY <1>1, <2>1, <2>2, <2>3, CompletedKeeps
<1>3. CASE file.inbox # <<>>
  <2> DEFINE m == Head(file.inbox)
             x == [contexts[c] EXCEPT !.st = "done", !.res = m.len, !.addr = m.from]
  <2>1. /\ contexts' = [contexts EXCEPT ![c] = x]
        /\ file' = [file EXCEPT !.inbox = Tail(@)]
        /\ log' = [log EXCEPT !.empty = @ \/ m.len = 0]
    BY <1>3 DEF KernelReceives
  <2>2. /\ m.len \in {0, 1} /\ m.from \in Peers
        /\ file' \in File /\ file'.shut = file.shut
    <3>1. file \in File /\ file.inbox \in Seq([from : Peers, len : {0, 1}])
      BY TypeFacts DEF IInv, File
    <3>2. /\ m \in [from : Peers, len : {0, 1}]
          /\ Tail(file.inbox) \in Seq([from : Peers, len : {0, 1}])
      BY <1>3, <3>1, HeadTailProperties
    <3> HIDE DEF m
    <3>3. QED
      BY <2>1, <3>1, <3>2 DEF File
  <2> HIDE DEF m
  <2>3. /\ x \in Context /\ x.st = "done" /\ x.res = m.len
        /\ x.type = contexts[c].type /\ x.fd = contexts[c].fd
    <3>1. m.len \in Int /\ m.from \in Peers /\ contexts[c] \in Context
      BY <2>2, TypeFacts DEF IInv
    <3> DEFINE r == m.len a == m.from y == contexts[c]
    <3>2. r \in Int /\ a \in Peers /\ y \in Context
      BY <3>1
    <3> HIDE DEF r, a, y
    <3>3. LET z == [y EXCEPT !.st = "done", !.res = r, !.addr = a]
          IN  /\ z \in Context /\ z.st = "done" /\ z.res = r
              /\ z.type = y.type /\ z.fd = y.fd
      BY <3>2 DEF Context
    <3>4. QED
      BY <3>3 DEF r, a, y
  <2> HIDE DEF x
  <2>4. log \in Log /\ log.empty \in BOOLEAN /\ Len(log.sent) = Len(log.sent) + 0
    BY TypeFacts, LogFields DEF IInv
  <2>5. /\ log' \in Log /\ log'.to = log.to /\ log'.sent = log.sent
        /\ log'.notified = log.notified /\ log'.promised = log.promised
        /\ log'.stopping = log.stopping
        /\ (log.empty => log'.empty) /\ (m.len = 0 => log'.empty)
    <3>1. (log.empty \/ m.len = 0) \in BOOLEAN
      BY <2>4
    <3>2. QED
      BY <2>1, <2>4, <3>1 DEF Log
  <2>6. x.type = "read" => x.res > 0 \/ log'.empty \/ log.stopping
    BY <2>2, <2>3, <2>5
  <2>7. x.type # "write" /\ (log.notified = 0 => Follows(log'.sent, 0))
    BY <1>1, <2>3, <2>5 DEF IInv, Bytes, Held
  <2>8. QED
    BY <1>1, <2>1, <2>2, <2>3, <2>4, <2>5, <2>6, <2>7, CompletesKeeps
<1>4. QED
  BY <1>2, <1>3

\* What the kernel reads from an allocation is bytes.
LEMMA MemoryBytes ==
    ASSUME Types, NEW p, NEW k \in Nat
    PROVE  /\ Memory(send_buffer, p, k) \in Seq(Nat)
           /\ Len(Memory(send_buffer, p, k)) = k
           /\ p = main.raw /\ p # NULL /\ k <= Len(main.data) =>
                 \A i \in 1..k : Memory(send_buffer, p, k)[i] = main.data[i]
<1> DEFINE held == IF p = NULL THEN <<>>
                   ELSE IF p = send_buffer.main.raw THEN send_buffer.main.data
                   ELSE IF p = send_buffer.sub.raw THEN send_buffer.sub.data
                   ELSE <<>>
           m == [i \in 1..k |-> IF i <= Len(held) THEN held[i] ELSE Garbage]
<1>1. Memory(send_buffer, p, k) = m
  BY DEF Memory
<1>2. send_buffer.main.data \in Seq(Nat) /\ send_buffer.sub.data \in Seq(Nat)
      /\ main = send_buffer.main
  BY TypeFacts, BufferFields DEF main, sub
<1>3. held \in Seq(Nat) /\ Garbage \in Nat
  BY <1>2 DEF Garbage
<1>4. p = main.raw /\ p # NULL => held = main.data
  BY <1>2
<1> HIDE DEF held
<1>5. \A i \in 1..k : (IF i <= Len(held) THEN held[i] ELSE Garbage) \in Nat
  BY <1>3, ElementOfSeq, LenProperties
<1>6. m \in [1..k -> Nat]
  BY <1>5
<1>7. m \in Seq(Nat) /\ Len(m) = k
  BY <1>6, LenProperties, SeqDef
<1>8. p = main.raw /\ p # NULL /\ k <= Len(main.data) => \A i \in 1..k : m[i] = main.data[i]
  <2>1. Len(main.data) \in Nat
    BY TypeFacts, BufferFields
  <2>2. QED
    BY <1>4, <2>1
<1>9. QED
  BY <1>1, <1>7, <1>8

\* sendmsg takes a datagram: its bytes are the next ones of the calls of send_to().
LEMMA KernelSendsKeeps ==
    ASSUME IInv, NEW c \in Contexts, KernelSends(c)
    PROVE  IInv'
<1> DEFINE k == contexts[c].len
           data == Memory(send_buffer, contexts[c].raw, k)
           x == [contexts[c] EXCEPT !.st = "done", !.res = k]
<1>1. /\ contexts[c].st = "pending" /\ contexts[c].type = "write"
      /\ UNCHANGED <<socket_handler, shutdown_gracefully, send_buffer, lock, pc, own>>
      /\ file' = file /\ contexts' = [contexts EXCEPT ![c] = x]
      /\ log' = [log EXCEPT !.wire = Append(@, [to |-> contexts[c].addr, data |-> data]),
                            !.sent = @ \o data]
  BY DEF KernelSends, Pending, sockvars, Completed
<1>2. k \in Nat /\ contexts[c].addr \in Peers \cup {NoPeer} /\ Types
  BY TypeFacts, ContextFields DEF IInv
<1>3. /\ x \in Context /\ x.st = "done" /\ x.res = k
      /\ x.type = contexts[c].type /\ x.fd = contexts[c].fd
  <2>1. contexts[c] \in Context /\ k \in Int
    BY <1>2, TypeFacts
  <2>2. QED
    BY <2>1, DoneRecord
<1>4. /\ data \in Seq(Nat) /\ Len(data) = k
      /\ contexts[c].raw = main.raw /\ contexts[c].raw # NULL /\ k <= Len(main.data) =>
            \A i \in 1..k : data[i] = main.data[i]
  BY <1>2, MemoryBytes
<1> HIDE DEF data, x
<1>5. log \in Log /\ log.sent \in Seq(Nat) /\ Len(log.sent) \in Nat
  BY <1>2, TypeFacts, LogFields
<1>6. log.sent \o data \in Seq(Nat) /\ Len(log.sent \o data) = Len(log.sent) + k
  <2> DEFINE s == log.sent n == k
  <2>1. s \in Seq(Nat) /\ data \in Seq(Nat) /\ Len(data) = n
    BY <1>4, <1>5
  <2> HIDE DEF s, n
  <2>2. s \o data \in Seq(Nat) /\ Len(s \o data) = Len(s) + n
    BY <2>1, ConcatProperties
  <2>3. QED
    BY <2>2 DEF s, n
<1>7. /\ log' \in Log /\ log'.to = log.to /\ log'.sent = log.sent \o data
      /\ log'.notified = log.notified /\ log'.promised = log.promised
      /\ log'.stopping = log.stopping /\ log'.empty = log.empty
  <2>1. log.wire \in Seq([to : Peers \cup {NoPeer}, data : Seq(Nat)])
    BY <1>5 DEF Log
  <2>2. [to |-> contexts[c].addr, data |-> data] \in [to : Peers \cup {NoPeer}, data : Seq(Nat)]
    BY <1>2, <1>4
  <2>3. Append(log.wire, [to |-> contexts[c].addr, data |-> data])
            \in Seq([to : Peers \cup {NoPeer}, data : Seq(Nat)])
    BY <2>1, <2>2, AppendProperties
  <2>4. QED
    BY <1>1, <1>5, <1>6, <2>3 DEF Log
<1>8. log.notified = 0 => Follows(log'.sent, 0) /\ x.res > 0 /\ x.res <= Len(main.data)
  <2> SUFFICES ASSUME log.notified = 0
               PROVE  Follows(log'.sent, 0) /\ x.res > 0 /\ x.res <= Len(main.data)
    OBVIOUS
  <2>1. Held /\ OnWire /\ main # NoBuffer
    <3>1. \A s \in Threads : ~Activating(s)
      BY <1>1, NoneActivates DEF IInv
    <3>2. QED
      BY <3>1 DEF IInv, Bytes
  <2>2. Writing(c)
    BY <1>1 DEF Writing, Live
  <2>3. /\ contexts[c].raw = main.raw /\ k \in 1..Len(main.data)
        /\ Len(log.sent) = Gone
    BY <1>1, <2>1, <2>2 DEF OnWire, WriteOf
  <2>4. main.raw # NULL
    BY <2>1 DEF IInv, Writes, Solid
  <2>5. Len(main.data) \in Nat
    BY <1>2, TypeFacts, BufferFields
  <2>6. Follows(data, 0 + Len(log.sent))
    <3>1. \A i \in 1..k : data[i] = main.data[i]
      BY <1>2, <1>4, <2>3, <2>4, <2>5
    <3>2. \A i \in 1..k : main.data[i] = Gone + i
      BY <1>2, <2>1, <2>3, <2>5 DEF Held, Follows
    <3>3. QED
      BY <1>4, <1>5, <2>3, <3>1, <3>2 DEF Follows
  <2>7. Follows(log.sent \o data, 0)
    BY <1>4, <1>5, <2>1, <2>6, ConcatFollows DEF Held
  <2>8. QED
    BY <1>2, <1>3, <1>7, <2>3, <2>5, <2>7
<1>9. file' \in File
  BY <1>1, <1>2, TypeFacts
<1>10. Len(log'.sent) = Len(log.sent) + k
  BY <1>6, <1>7
<1>11. QED
  BY <1>1, <1>2, <1>3, <1>7, <1>8, <1>9, <1>10, CompletesKeeps

\* The facts on which handler a completion goes to (io_service.cpp:415-458).
LEMMA HandlerFacts ==
    ASSUME NEW x \in Context, x.type # "none"
    PROVE  /\ Handler(x) \in Stages[x.type] /\ Handler(x) \in Labels
           /\ Handler(x) \notin {"push", "spin", "activate", "wait", "idle"}
           /\ Handler(x) = "received" <=> x.type = "read" /\ x.res > 0
           /\ Handler(x) = "sent" <=> x.type = "write" /\ x.res > 0
<1>1. x.type \in {"read", "write", "shutdown"} /\ x.res \in Int
  BY ContextFields
<1>2. CASE x.type = "read"
  <2>1. CASE x.res > 0
    BY <1>1, <1>2, <2>1 DEF Handler, Stages, Labels
  <2>2. CASE x.res <= 0
    BY <1>1, <1>2, <2>2 DEF Handler, Stages, Labels
  <2>3. QED
    BY <1>1, <2>1, <2>2
<1>3. CASE x.type = "write"
  <2>1. CASE x.res > 0
    BY <1>1, <1>3, <2>1 DEF Handler, Stages, Labels
  <2>2. CASE x.res <= 0
    BY <1>1, <1>3, <2>2 DEF Handler, Stages, Labels
  <2>3. QED
    BY <1>1, <2>1, <2>2
<1>4. CASE x.type = "shutdown"
  BY <1>4 DEF Handler, Stages, Labels
<1>5. QED
  BY <1>1, <1>2, <1>3, <1>4

\* A worker takes a completion (io_service.cpp:399-415).  Reads and writes with no bytes go
\* on to no successor.
LEMMA TakesCqeKeeps ==
    ASSUME IInv, NEW w \in Workers, TakesCqe(w)
    PROVE  IInv'
<1>1. PICK c \in Contexts :
          /\ contexts[c].st = "done" /\ contexts[c].ring = w
          /\ own' = [own EXCEPT ![w].ctx = c]
          /\ contexts' = [contexts EXCEPT ![c].st = "taken"]
          /\ Goto(w, Handler(contexts[c]))
          /\ log' = [log EXCEPT !.failed = @ \/ /\ contexts[c].type = "write"
                                                /\ contexts[c].res <= 0]
  BY DEF TakesCqe
<1> DEFINE h == Handler(contexts[c])
           x == [contexts[c] EXCEPT !.st = "taken"]
<1>2. /\ w \in Threads /\ pc[w] = "wait" /\ Walks(w, "wait", h)
      /\ UNCHANGED <<socket_handler, shutdown_gracefully, send_buffer, lock, file>>
  BY <1>1, ThreadFacts DEF TakesCqe, sockvars, Goto, Walks
<1>3. contexts[c] \in Context /\ contexts[c].type # "none"
  BY <1>1, TypeFacts DEF IInv, Places
<1>4. /\ h \in Stages[contexts[c].type] /\ h \in Labels
      /\ h \notin {"push", "spin", "activate", "wait", "idle"}
      /\ h = "received" <=> contexts[c].type = "read" /\ contexts[c].res > 0
      /\ h = "sent" <=> contexts[c].type = "write" /\ contexts[c].res > 0
  BY <1>3, HandlerFacts
<1>5. /\ x \in Context /\ x.st = "taken" /\ x.type = contexts[c].type
      /\ x.res = contexts[c].res /\ x.fd = contexts[c].fd
  BY <1>3 DEF Context
<1>6. contexts' = [contexts EXCEPT ![c] = x]
  BY <1>1
<1> HIDE DEF h, x
<1>7. /\ contexts' \in [Contexts -> Context] /\ contexts'[c] = x
      /\ \A d \in Contexts \ {c} : contexts'[d] = contexts[d]
  BY <1>5, <1>6, TypeFacts DEF IInv
<1>8. /\ pc' \in [Threads -> Labels] /\ pc'[w] = h
      /\ \A s \in Threads \ {w} : pc'[s] = pc[s]
  BY <1>2, <1>4, WalkFacts DEF IInv
<1>9. /\ own' \in [Threads -> Own] /\ own'[w].ctx = c
      /\ \A s \in Threads \ {w} : own'[s].ctx = own[s].ctx
  BY <1>1, <1>2, OwnCtx DEF IInv
<1>10. own[w].ctx = NoContext /\ \A v \in Workers : own[v].ctx # c
  <2>1. \A type \in {"none", "read", "write", "shutdown"} : "wait" \notin Stages[type]
    BY DEF Stages
  <2>2. own[w].ctx \in Contexts => contexts[own[w].ctx].type \in
            {"none", "read", "write", "shutdown"}
    BY TypeFacts, ContextFields DEF IInv
  <2>3. own[w].ctx = NoContext
    BY <1>2, <2>1, <2>2, TypeFacts DEF IInv, Places
  <2>4. \A v \in Workers : own[v].ctx # c
    BY <1>1, ThreadFacts DEF IInv, Places
  <2>5. QED
    BY <2>3, <2>4
<1>11. /\ log' \in Log /\ log'.to = log.to /\ log'.sent = log.sent
       /\ log'.notified = log.notified /\ log'.promised = log.promised
       /\ log'.stopping = log.stopping /\ log'.empty = log.empty
  <2>1. log \in Log /\ log.failed \in BOOLEAN
    BY TypeFacts, LogFields DEF IInv
  <2>2. (log.failed \/ (contexts[c].type = "write" /\ contexts[c].res <= 0)) \in BOOLEAN
    BY <2>1
  <2>3. QED
    BY <1>1, <2>1, <2>2 DEF Log
<1>12. Types'
  BY <1>2, <1>7, <1>8, <1>9, <1>11, TypeFacts, TypesFollow DEF IInv
<1>13. Places'
  <2>1. ASSUME NEW v \in Workers
        PROVE  \/ own'[v].ctx = NoContext /\ pc'[v] = "wait"
               \/ /\ own'[v].ctx # NoContext /\ contexts'[own'[v].ctx].st = "taken"
                  /\ pc'[v] \in Stages[contexts'[own'[v].ctx].type]
                  /\ pc'[v] = "sent" => contexts'[own'[v].ctx].res > 0
    <3>1. CASE v = w
      BY <1>1, <1>4, <1>5, <1>7, <1>8, <1>9, <3>1, ThreadFacts
    <3>2. CASE v # w
      <4>1. own[v].ctx \in (Contexts \ {c}) \cup {NoContext} /\ v \in Threads
        BY <1>10, TypeFacts, ThreadFacts DEF IInv
      <4>2. QED
        BY <1>7, <1>8, <1>9, <3>2, <4>1 DEF IInv, Places
    <3>3. QED
      BY <3>1, <3>2
  <2>2. \A u \in Users : own'[u].ctx = NoContext /\ pc'[u] \in UserLabels
    BY <1>8, <1>9, ThreadFacts DEF IInv, Places
  <2>3. \A u, v \in Workers : own'[u].ctx = own'[v].ctx /\ own'[u].ctx # NoContext => u = v
    BY <1>9, <1>10, ThreadFacts DEF IInv, Places
  <2>4. \A d \in Contexts : contexts'[d].st = "taken" => \E v \in Workers : own'[v].ctx = d
    BY <1>2, <1>7, <1>9, <1>10, ThreadFacts DEF IInv, Places
  <2>5. \A d \in Contexts : contexts'[d].st # "free" => contexts'[d].type # "none"
    BY <1>3, <1>5, <1>7 DEF IInv, Places
  <2>6. QED
    BY <2>1, <2>2, <2>3, <2>4, <2>5 DEF Places
<1>14. Locks'
  BY <1>2, <1>4, LocksKept DEF IInv
<1>15. \A s \in Threads : ~Activating(s)
  BY <1>1, NoneActivates DEF IInv
<1>16. Activates' /\ \A s \in Threads : ~Activating(s)'
  BY <1>2, <1>4, <1>15, ActivatesKept DEF IInv
<1>17. \A d \in Contexts :
          /\ InUse(d, "shutdown")' <=> InUse(d, "shutdown")
          /\ Reading(d)' <=> Reading(d) /\ ~(d = c /\ ~(x.res > 0))
          /\ Writing(d)' <=> Writing(d) /\ ~(d = c /\ ~(x.res > 0))
  <2>1. ASSUME NEW d \in Contexts, d # c
        PROVE  /\ InUse(d, "shutdown")' <=> InUse(d, "shutdown")
               /\ Reading(d)' <=> Reading(d)
               /\ Writing(d)' <=> Writing(d)
    <3>1. \A v \in Workers : \A label : (own'[v].ctx = d /\ pc'[v] = label)
                                         <=> (own[v].ctx = d /\ pc[v] = label)
      BY <1>8, <1>9, <1>10, <2>1, ThreadFacts
    <3>2. contexts'[d] = contexts[d]
      BY <1>7, <2>1
    <3>3. QED
      BY <3>1, <3>2 DEF Reading, Writing, Live, InUse
  <2>2. /\ InUse(c, "shutdown")' <=> InUse(c, "shutdown")
        /\ Reading(c)' <=> Reading(c) /\ x.res > 0
        /\ Writing(c)' <=> Writing(c) /\ x.res > 0
    <3>1. /\ \A v \in Workers : own'[v].ctx = c <=> v = w
          /\ contexts'[c].st = "taken" /\ contexts'[c].type = contexts[c].type
      BY <1>5, <1>7, <1>9, <1>10, ThreadFacts
    <3>2. QED
      BY <1>1, <1>4, <1>5, <1>8, <3>1 DEF Reading, Writing, Live, InUse
  <2>3. QED
    BY <2>1, <2>2
<1>18. Reads'
  <2>1. \A d, e \in Contexts : Reading(d)' /\ Reading(e)' => d = e
    BY <1>17 DEF IInv, Reads
  <2>2. (\E d \in Contexts : Reading(d)') \/ log'.stopping \/ log'.empty
    <3>1. CASE \E d \in Contexts : Reading(d) /\ ~(d = c /\ ~(x.res > 0))
      BY <1>17, <3>1
    <3>2. CASE Reading(c) /\ ~(x.res > 0)
      BY <1>1, <1>5, <1>11, <3>2 DEF IInv, Stops, Reading, Live
    <3>3. QED
      BY <1>11, <1>15, <3>1, <3>2 DEF IInv, Reads
  <2>3. QED
    BY <2>1, <2>2 DEF Reads
<1>19. Stops'
  <2>1. CASE log.stopping
    BY <1>11, <2>1, StopsLater
  <2>2. CASE ~log.stopping
    <3>1. \A d \in Contexts :
             /\ contexts'[d].st # "free" => contexts'[d].fd = Fd
             /\ contexts'[d].st = "done" /\ contexts'[d].type = "read" =>
                   contexts'[d].res > 0 \/ log'.empty
      BY <1>1, <1>5, <1>7, <1>11, <2>2 DEF IInv, Stops
    <3>2. QED
      BY <1>2, <1>17, <2>2, <3>1 DEF IInv, Stops
  <2>3. QED
    BY <2>1, <2>2
<1>20. Writes'
  BY <1>2, <1>17, WritesKept DEF IInv
<1>21. main' = main /\ sub' = sub /\ Accepted' = Accepted /\ Gone' = Gone
  BY <1>2, <1>11 DEF main, sub, Accepted, Gone
<1>22. Bytes'
  <2>1. CASE log.notified # 0
    BY <1>2, <1>11, <2>1 DEF IInv, Bytes
  <2>2. CASE log.notified = 0
    <3>1. Held /\ OnWire /\ main # NoBuffer
      BY <1>15, <2>2 DEF IInv, Bytes
    <3>2. Held'
      BY <1>11, <1>21, <3>1 DEF Held
    <3>3. ASSUME NEW d \in Contexts, Writing(d)'
          PROVE  WriteOf(d)'
      <4>1. WriteOf(d)
        BY <1>17, <3>1, <3>3 DEF OnWire
      <4>2. CASE d = c
        <5>1. x.res > 0
          BY <1>17, <3>3, <4>2
        <5>2. /\ contexts[c].st # "pending" /\ contexts'[c].st # "pending"
              /\ contexts'[c].res = contexts[c].res
          BY <1>1, <1>5, <1>7
        <5>3. QED
          BY <1>5, <1>11, <1>21, <4>1, <4>2, <5>1, <5>2 DEF WriteOf
      <4>3. CASE d # c
        BY <1>7, <1>11, <1>21, <4>1, <4>3 DEF WriteOf
      <4>4. QED
        BY <4>2, <4>3
    <3>4. ASSUME \A d \in Contexts : ~Writing(d)'
          PROVE  Len(log'.sent) = Gone'
      <4>1. CASE \E d \in Contexts : Writing(d)
        <5>1. Writing(c) /\ ~(x.res > 0)
          BY <1>17, <3>4, <4>1
        <5>2. WriteOf(c)
          BY <3>1, <5>1 DEF OnWire
        <5>3. contexts[c].st # "pending" /\ ~(contexts[c].res > 0)
          BY <1>1, <1>5, <5>1
        <5>4. QED
          BY <1>11, <1>21, <5>2, <5>3 DEF WriteOf
      <4>2. CASE \A d \in Contexts : ~Writing(d)
        BY <1>11, <1>21, <3>1, <4>2 DEF OnWire
      <4>3. QED
        BY <4>1, <4>2
    <3>5. QED
      BY <1>11, <1>21, <2>2, <3>1, <3>2, <3>3, <3>4 DEF Bytes, OnWire
  <2>3. QED
    BY <2>1, <2>2
<1>23. Drains'
  <2>1. log \in Log /\ Len(log.to) \in Nat /\ Len(log.sent) \in Nat
    BY TypeFacts, LogFields DEF IInv
  <2>2. QED
    BY <1>11, <1>17, <2>1, DrainsKept DEF IInv
<1>24. QED
  BY <1>12, <1>13, <1>14, <1>16, <1>18, <1>19, <1>20, <1>22, <1>23 DEF IInv

\* The worker gives the context back (io_service.cpp:461-463).
LEMMA FinishesKeeps ==
    ASSUME IInv, NEW w \in Workers, Finishes(w)
    PROVE  IInv'
<1>0. PICK c \in Contexts \cup {NoContext} : c = own[w].ctx
  BY ThreadFacts, TypeFacts DEF IInv
<1>1. /\ w \in Threads /\ pc[w] = "finish" /\ Walks(w, "finish", "wait")
      /\ UNCHANGED <<socket_handler, shutdown_gracefully, send_buffer, lock, file, log>>
      /\ own' = [own EXCEPT ![w].ctx = NoContext]
      /\ contexts' = IF c = NoContext THEN contexts
                     ELSE [contexts EXCEPT ![c] = FreeContext]
  BY <1>0, ThreadFacts DEF Finishes, sockvars, Goto, Walks
<1>2. c \in Contexts /\ contexts[c].st = "taken" /\ c # NoContext
  BY <1>0, <1>1, ThreadFacts DEF IInv, Places
<1>3. /\ FreeContext \in Context /\ FreeContext.st = "free"
      /\ FreeContext.type = "none"
  BY DEF FreeContext, Context, NULL
<1>4. /\ contexts' \in [Contexts -> Context] /\ contexts'[c] = FreeContext
      /\ \A d \in Contexts \ {c} : contexts'[d] = contexts[d]
  BY <1>1, <1>2, <1>3, TypeFacts DEF IInv
<1>5. /\ pc' \in [Threads -> Labels] /\ pc'[w] = "wait"
      /\ \A s \in Threads \ {w} : pc'[s] = pc[s]
  BY <1>1, WalkFacts DEF IInv, Labels
<1>6. /\ own' \in [Threads -> Own] /\ own'[w].ctx = NoContext
      /\ \A s \in Threads \ {w} : own'[s].ctx = own[s].ctx
  BY <1>1, OwnCtx DEF IInv
<1>7. \A v \in Workers \ {w} : own[v].ctx # c
  BY <1>0, <1>2 DEF IInv, Places
<1>8. Types'
  BY <1>1, <1>4, <1>5, <1>6, TypeFacts, TypesFollow DEF IInv
<1>9. Places'
  <2>1. ASSUME NEW v \in Workers
        PROVE  \/ own'[v].ctx = NoContext /\ pc'[v] = "wait"
               \/ /\ own'[v].ctx # NoContext /\ contexts'[own'[v].ctx].st = "taken"
                  /\ pc'[v] \in Stages[contexts'[own'[v].ctx].type]
                  /\ pc'[v] = "sent" => contexts'[own'[v].ctx].res > 0
    <3>1. CASE v = w
      BY <1>5, <1>6, <3>1
    <3>2. CASE v # w
      <4>1. own[v].ctx \in (Contexts \ {c}) \cup {NoContext} /\ v \in Threads
        BY <1>7, <3>2, TypeFacts, ThreadFacts DEF IInv
      <4>2. QED
        BY <1>4, <1>5, <1>6, <3>2, <4>1 DEF IInv, Places
    <3>3. QED
      BY <3>1, <3>2
  <2>2. \A u \in Users : own'[u].ctx = NoContext /\ pc'[u] \in UserLabels
    BY <1>5, <1>6, ThreadFacts DEF IInv, Places
  <2>3. \A u, v \in Workers : own'[u].ctx = own'[v].ctx /\ own'[u].ctx # NoContext => u = v
    BY <1>6, ThreadFacts DEF IInv, Places
  <2>4. ASSUME NEW d \in Contexts, contexts'[d].st = "taken"
        PROVE  \E v \in Workers : own'[v].ctx = d
    <3>1. d # c /\ contexts[d].st = "taken"
      BY <1>3, <1>4, <2>4
    <3>2. PICK v \in Workers : own[v].ctx = d
      BY <3>1 DEF IInv, Places
    <3>3. v # w
      BY <1>0, <3>1, <3>2
    <3>4. QED
      BY <1>6, <3>2, <3>3, ThreadFacts
  <2>5. \A d \in Contexts : contexts'[d].st # "free" => contexts'[d].type # "none"
    BY <1>3, <1>4 DEF IInv, Places
  <2>6. QED
    BY <2>1, <2>2, <2>3, <2>4, <2>5 DEF Places
<1>10. Locks'
  BY <1>1, LocksKept DEF IInv, Labels
<1>11. \A s \in Threads : ~Activating(s)
  BY <1>1, NoneActivates DEF IInv
<1>12. Activates' /\ \A s \in Threads : ~Activating(s)'
  BY <1>1, <1>11, ActivatesKept DEF IInv, Labels
<1>13. \A d \in Contexts :
          /\ Reading(d)' <=> Reading(d)
          /\ Writing(d)' <=> Writing(d)
          /\ InUse(d, "shutdown")' => InUse(d, "shutdown")
  <2>1. ASSUME NEW d \in Contexts, d # c
        PROVE  /\ Reading(d)' <=> Reading(d)
               /\ Writing(d)' <=> Writing(d)
               /\ InUse(d, "shutdown")' => InUse(d, "shutdown")
    <3>1. contexts'[d] = contexts[d]
      BY <1>4, <2>1
    <3>2. \A v \in Workers : \A label \in {"received", "sent"} :
              (own'[v].ctx = d /\ pc'[v] = label) <=> (own[v].ctx = d /\ pc[v] = label)
      BY <1>0, <1>1, <1>2, <1>5, <1>6, ThreadFacts
    <3>3. QED
      BY <3>1, <3>2 DEF Reading, Writing, Live, InUse
  <2>2. ~Reading(c) /\ ~Writing(c) /\ ~Reading(c)' /\ ~Writing(c)' /\ ~InUse(c, "shutdown")'
    <3>1. \A v \in Workers : own'[v].ctx # c
      BY <1>2, <1>6, <1>7, ThreadFacts
    <3>2. \A v \in Workers : own[v].ctx = c => pc[v] = "finish"
      BY <1>1, <1>7
    <3>3. QED
      BY <1>2, <1>3, <1>4, <3>1, <3>2 DEF Reading, Writing, Live, InUse
  <2>3. QED
    BY <1>2, <2>1, <2>2
<1>14. Reads'
  BY <1>1, <1>11, <1>13, ReadsKept DEF IInv
<1>15. Stops'
  BY <1>1, <1>3, <1>4, <1>13 DEF IInv, Stops
<1>16. Writes'
  BY <1>1, <1>13, WritesKept DEF IInv
<1>17. Bytes'
  <2>1. Accepted' = Accepted
    BY <1>1 DEF Accepted
  <2>2. \A d \in Contexts : Writing(d) => contexts'[d] = contexts[d]
    BY <1>3, <1>4, <1>13 DEF Writing, Live
  <2>3. QED
    BY <1>1, <1>11, <1>13, <2>1, <2>2, BytesKept DEF IInv
<1>18. Drains'
  <2>1. log \in Log /\ Len(log.to) \in Nat /\ Len(log.sent) \in Nat
    BY TypeFacts, LogFields DEF IInv
  <2>2. QED
    BY <1>1, <1>13, <2>1, DrainsKept DEF IInv
<1>19. QED
  BY <1>8, <1>9, <1>10, <1>12, <1>14, <1>15, <1>16, <1>17, <1>18 DEF IInv

-----------------------------------------------------------------------------
(* The invariant holds always.                                             *)

\* Between the assignment of the descriptor and on_active() (udp_socket.cpp:20-73,
\* udp_server.cpp:22-73) there is nothing but the socket.
LEMMA InitEstablishes == Init => IInv
<1> SUFFICES ASSUME Init PROVE IInv
  OBVIOUS
<1>1. /\ socket_handler = Fd /\ shutdown_gracefully = FALSE
      /\ send_buffer = NoDoubleBuffer /\ lock = NoThread
      /\ own = [t \in Threads |-> [ctx |-> NoContext, addr |-> NoPeer]]
      /\ contexts = [c \in Contexts |-> FreeContext]
      /\ file = [inbox |-> <<>>, shut |-> FALSE]
  BY DEF Init
<1>2. PICK u \in Users :
          pc = [t \in Threads |-> IF t = u THEN "activate"
                                  ELSE IF t \in Workers THEN "wait" ELSE "idle"]
  BY DEF Init
<1>3. /\ log \in Log /\ log.to = <<>> /\ log.sent = <<>> /\ log.notified = 0
      /\ log.promised = 0 /\ log.stopping = FALSE /\ log.empty = FALSE
  <2>1. log = [fresh |-> 1, to |-> <<>>, wire |-> <<>>, sent |-> <<>>, arrived |-> 0,
               notified |-> 0, empty |-> FALSE, odd |-> FALSE, failed |-> FALSE,
               promised |-> 0, stopping |-> FALSE, stopped |-> FALSE]
    BY DEF Init
  <2>2. /\ <<>> \in Seq(Peers) /\ <<>> \in Seq(Nat)
        /\ <<>> \in Seq([to : Peers \cup {NoPeer}, data : Seq(Nat)])
    OBVIOUS
  <2>3. QED
    BY <2>1, <2>2 DEF Log
<1>4. /\ pc \in [Threads -> Labels] /\ pc[u] = "activate" /\ u \in Threads
      /\ \A w \in Workers : pc[w] = "wait"
      /\ \A v \in Users : pc[v] \in UserLabels
      /\ \A t \in Threads : pc[t] \in {"activate", "idle", "wait"}
      /\ \A t \in Threads \ {u} : pc[t] \in {"idle", "wait"}
  BY <1>2, ThreadFacts DEF Labels, UserLabels
<1>5. /\ own \in [Threads -> Own] /\ \A t \in Threads : own[t].ctx = NoContext
  BY <1>1 DEF Own
<1>6. FreeContext \in Context /\ FreeContext.st = "free" /\ FreeContext.type = "none"
  BY DEF FreeContext, Context, NULL
<1>7. contexts \in [Contexts -> Context] /\ \A c \in Contexts : contexts[c] = FreeContext
  BY <1>1, <1>6
<1>8. send_buffer \in DoubleBuffer /\ main = NoBuffer /\ sub = NoBuffer
      /\ NoBuffer.data = <<>>
  <2>1. NoBuffer \in Buffer /\ NoBuffer.data = <<>>
    BY DEF NoBuffer, Buffer, NULL
  <2>2. QED
    BY <1>1, <2>1 DEF NoDoubleBuffer, DoubleBuffer, main, sub
<1>9. Types
  <2>1. send_buffer \in [main : [raw : Nat, data : Seq(Nat), size : Nat, block : Nat],
                         sub : [raw : Nat, data : Seq(Nat), size : Nat, block : Nat]]
    BY <1>8 DEF DoubleBuffer, Buffer
  <2>2. file \in File
    BY <1>1 DEF File
  <2>3. own \in [Threads -> [ctx : Contexts \cup {NoContext}, addr : Peers \cup {NoPeer}]]
    BY <1>5 DEF Own
  <2>4. \A c \in Contexts : /\ contexts[c].st \in {"free", "pending", "done", "taken"}
                            /\ contexts[c].ring \in Workers \cup {NoThread}
    BY <1>6, <1>7, ContextFields
  <2>5. QED
    BY <1>1, <1>3, <1>4, <1>7, <2>1, <2>2, <2>3, <2>4 DEF Types, TypeOK
<1>10. Places
  BY <1>4, <1>5, <1>6, <1>7, ThreadFacts DEF Places
<1>11. Locks
  BY <1>1, <1>4, ThreadFacts DEF Locks
<1>12. Activates
  BY <1>1, <1>3, <1>4, <1>6, <1>7 DEF Activates, Activating, Untouched
<1>13. \A c \in Contexts : /\ ~Reading(c) /\ ~Writing(c) /\ ~InUse(c, "shutdown")
                           /\ contexts[c].st = "free"
  BY <1>6, <1>7 DEF Reading, Writing, Live, InUse
<1>14. Reads
  BY <1>4, <1>13 DEF Reads, Activating
<1>15. Stops
  BY <1>1, <1>13 DEF Stops
<1>16. Writes
  BY <1>8, <1>13 DEF Writes, Solid
<1>17. Bytes
  <2>1. Accepted = 0 /\ Gone = 0
    <3>1. Len(main.data) = 0 /\ Len(sub.data) = 0 /\ Len(log.to) = 0
      BY <1>3, <1>8
    <3>2. Accepted = 0
      BY <1>1, <3>1 DEF Accepted
    <3>3. QED
      BY <3>1, <3>2 DEF Gone
  <2>2. Held /\ OnWire
    BY <1>3, <1>8, <1>13, <2>1 DEF Held, OnWire, Follows
  <2>3. QED
    BY <1>3, <1>4, <2>2 DEF Bytes, Activating
<1>18. Drains
  BY <1>3, <1>13 DEF Drains
<1>19. QED
  BY <1>9, <1>10, <1>11, <1>12, <1>14, <1>15, <1>16, <1>17, <1>18 DEF IInv

\* Every step of the model keeps it.
LEMMA NextPreserves == IInv /\ [Next]_vars => IInv'
<1> SUFFICES ASSUME IInv, [Next]_vars PROVE IInv'
  OBVIOUS
<1>1. ASSUME NEW t \in Threads, Proceeds(t) PROVE IInv'
  BY <1>1, OnActiveKeeps, SendToPushesKeeps, SendToSpinsKeeps, StopReturnsKeeps DEF Proceeds
<1>2. ASSUME NEW t \in Threads, Calls(t) PROVE IInv'
  BY <1>2, SendToKeeps, StopCallsKeeps DEF Calls
<1>3. ASSUME NEW w \in Workers, Handles(w) PROVE IInv'
  BY <1>3, TakesCqeKeeps, FinishesKeeps, IoReceivedKeeps, CallbackReturnsKeeps, IoSentKeeps,
     IoShutdownKeeps, ShutZeroesKeeps, ShutClosesKeeps DEF Handles
<1>4. ASSUME NEW c \in Contexts, Kernel(c) PROVE IInv'
  BY <1>4, KernelReceivesKeeps, KernelSendsKeeps, KernelRefusesKeeps, KernelShutsDownKeeps,
     StdinAnswersKeeps DEF Kernel
<1>5. CASE DatagramArrives
  BY <1>5, DatagramArrivesKeeps
<1>6. CASE UNCHANGED vars
  <2>1. UNCHANGED <<socket_handler, shutdown_gracefully, send_buffer, lock, pc, own,
                    contexts, file, log>>
    BY <1>6 DEF vars, sockvars
  <2>2. Types' /\ Places' /\ Locks'
    BY <2>1 DEF IInv, Types, TypeOK, Places, Locks
  <2>3. \A c \in Contexts : /\ Reading(c)' <=> Reading(c)
                            /\ Writing(c)' <=> Writing(c)
                            /\ InUse(c, "shutdown")' <=> InUse(c, "shutdown")
    BY <2>1 DEF Reading, Writing, Live, InUse
  <2>4. Activates' /\ Stops'
    BY <2>1 DEF IInv, Activates, Activating, Untouched, Stops, InUse
  <2>5. Reads' /\ Writes'
    BY <2>1, <2>3, ReadsKept, WritesKept DEF IInv, Activating
  <2>6. Bytes'
    <3>1. Accepted' = Accepted
      BY <2>1 DEF Accepted
    <3>2. QED
      BY <2>1, <2>3, <3>1, BytesKept DEF IInv, Activating
  <2>7. Drains'
    BY <2>1, <2>3 DEF IInv, Drains
  <2>8. QED
    BY <2>2, <2>4, <2>5, <2>6, <2>7 DEF IInv
<1>7. QED
  BY <1>1, <1>2, <1>3, <1>4, <1>5, <1>6 DEF Next

\* The inductive invariant holds always, for any number of threads.
THEOREM Invariance == Spec => []IInv
<1>1. Init => IInv
  BY InitEstablishes
<1>2. IInv /\ [Next]_vars => IInv'
  BY NextPreserves
<1>3. QED
  BY <1>1, <1>2, PTL DEF Spec

-----------------------------------------------------------------------------
(* What follows.                                                           *)

\* Members of the socket, contexts and buffers keep their types through every interleaving
\* of senders, stop(), workers and kernel.
THEOREM TypeCorrect == Spec => []TypeOK
<1>1. IInv => TypeOK
  BY DEF IInv, Types
<1>2. QED
  BY <1>1, Invariance, PTL

\* A set of which any two members are the same.
LEMMA AtMostOne ==
    ASSUME NEW S, \A x, y \in S : x = y
    PROVE  /\ Cardinality(S) <= 1
           /\ S # {} => Cardinality(S) = 1
<1>1. CASE S = {}
  BY <1>1, FS_EmptySet
<1>2. CASE S # {}
  <2>1. PICK x \in S : TRUE
    BY <1>2
  <2>2. S = {x}
    BY <2>1
  <2>3. QED
    BY <2>2, FS_Singleton
<1>3. QED
  BY <1>1, <1>2

\* What a context that is not yet handled over is, in the terms of the invariant.
LEMMA UnderWayLive ==
    ASSUME IInv, NEW type \in {"read", "write"}, NEW label \in {"received", "sent"}, NEW over,
           label \notin over,
           \A l \in Stages[type] : l = label \/ l \in over
    PROVE  UnderWay(type, over) = {c \in Contexts : Live(c, type, label)}
<1>1. ASSUME NEW c \in Contexts, c \in UnderWay(type, over)
      PROVE  Live(c, type, label)
  <2>1. contexts[c].st # "free" /\ contexts[c].type = type /\ ~Handled(c, over)
    BY <1>1 DEF UnderWay
  <2>2. CASE contexts[c].st = "taken"
    <3>1. PICK w \in Workers : own[w].ctx = c
      BY <2>2 DEF IInv, Places
    <3>2. pc[w] \in Stages[type]
      BY <2>1, <3>1, ThreadFacts DEF IInv, Places
    <3>3. QED
      BY <2>1, <3>1, <3>2 DEF Live, Handled
  <2>3. CASE contexts[c].st # "taken"
    BY <2>1, <2>3, TypeFacts, ContextFields DEF IInv, Live
  <2>4. QED
    BY <2>2, <2>3
<1>2. ASSUME NEW c \in Contexts, Live(c, type, label)
      PROVE  c \in UnderWay(type, over)
  <2>1. \A w \in Workers : own[w].ctx = c => contexts[c].st = "taken"
    BY ThreadFacts DEF IInv, Places
  <2>2. contexts[c].st # "free" /\ contexts[c].type = type
    BY <1>2, <2>1 DEF Live
  <2>3. ASSUME NEW w \in Workers, own[w].ctx = c PROVE pc[w] = label
    <3>1. PICK v \in Workers : own[v].ctx = c /\ pc[v] = label
      BY <1>2, <2>1, <2>3 DEF Live
    <3>2. v = w
      BY <2>3, <3>1, ThreadFacts DEF IInv, Places
    <3>3. QED
      BY <3>1, <3>2
  <2>4. ~Handled(c, over)
    BY <2>3 DEF Handled
  <2>5. QED
    BY <2>2, <2>4 DEF UnderWay
<1>3. UnderWay(type, over) \subseteq Contexts
  BY DEF UnderWay
<1>4. QED
  BY <1>1, <1>2, <1>3

\* io_received submits the next read before the callback (socket_object.cpp:86-92): the
\* socket has one read at a time, and listens until somebody stops it or an empty datagram
\* ends it.
THEOREM ListensOn == Spec => []Listens
<1>1. ASSUME IInv PROVE Listens
  <2> DEFINE S == UnderWay("read", Labels \ {"received"})
  <2>1. S = {c \in Contexts : Reading(c)}
    <3>1. \A l \in Stages["read"] : l = "received" \/ l \in Labels \ {"received"}
      BY DEF Stages, Labels
    <3>2. S = {c \in Contexts : Live(c, "read", "received")}
      BY <1>1, <3>1, UnderWayLive
    <3>3. QED
      BY <3>2 DEF Reading
  <2>2. \A c, d \in S : c = d
    BY <1>1, <2>1 DEF IInv, Reads
  <2>3. \/ S # {} \/ log.stopping \/ log.empty
        \/ \E t \in Threads : pc[t] = "activate"
    BY <1>1, <2>1 DEF IInv, Reads, Activating
  <2> HIDE DEF S
  <2>4. Cardinality(S) <= 1 /\ (S # {} => Cardinality(S) = 1)
    BY <2>2, AtMostOne
  <2>5. QED
    BY <2>3, <2>4 DEF Listens, S
<1>2. QED
  BY <1>1, Invariance, PTL

\* Datagrams leave one at a time whoever has the lock in between (udp_socket.cpp:168-177
\* against socket_object.cpp:96-111), and their bytes in the order of the calls.
THEOREM LeavesInOrder == Spec => []InOrder
<1>1. ASSUME IInv PROVE InOrder
  <2>1. OneWrite
    <3> DEFINE S == UnderWay("write", {"finish"})
    <3>1. \A l \in Stages["write"] : l = "sent" \/ l \in {"finish"}
      BY DEF Stages
    <3>2. S = {c \in Contexts : Live(c, "write", "sent")}
      BY <1>1, <3>1, UnderWayLive
    <3>3. \A c, d \in S : c = d
      BY <1>1, <3>2 DEF IInv, Writes, Writing
    <3> HIDE DEF S
    <3>4. Cardinality(S) <= 1
      BY <3>3, AtMostOne
    <3>5. QED
      BY <3>4 DEF OneWrite, S
  <2>2. ASSUME log.notified = 0 PROVE log.sent = [i \in 1..Len(log.sent) |-> i]
    <3>1. log.sent \in Seq(Nat)
      BY <1>1, TypeFacts, LogFields DEF IInv
    <3>2. \A i \in 1..Len(log.sent) : log.sent[i] = 0 + i
      BY <1>1, <2>2 DEF IInv, Bytes, Held, Follows
    <3>3. Len(log.sent) \in Nat /\ log.sent \in [1..Len(log.sent) -> Nat]
      BY <3>1, LenProperties
    <3>4. \A i \in 1..Len(log.sent) : log.sent[i] = i
      BY <3>2, <3>3
    <3>5. QED
      BY <3>3, <3>4
  <2>3. QED
    BY <2>1, <2>2 DEF InOrder
<1>2. QED
  BY <1>1, Invariance, PTL

\* close( graceful ) waits for every datagram accepted before it (socket_object.cpp:73-83,
\* 104-110), also when it races send_to() and io_sent, and whatever sendmsg refuses.
THEOREM StopWaits == Spec => []StopDrains
<1>1. ASSUME IInv PROVE StopDrains
  <2>1. SUFFICES ASSUME UnderWay("shutdown", {}) # {}, log.notified = 0
                 PROVE  Len(log.sent) >= log.promised
    BY DEF StopDrains
  <2>2. \E c \in Contexts : InUse(c, "shutdown")
    BY <2>1 DEF UnderWay, InUse
  <2>3. QED
    BY <1>1, <2>1, <2>2 DEF IInv, Drains
<1>2. QED
  BY <1>1, Invariance, PTL
=============================================================================
