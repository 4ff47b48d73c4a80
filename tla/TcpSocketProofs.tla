--------------------------- MODULE TcpSocketProofs ---------------------------
(***************************************************************************)
(* The proofs about TcpSocket.tla, for any number of threads, any block    *)
(* size and any bounds.                                                    *)
(*                                                                         *)
(* The inductive invariant is a conjunction of layers.  Each layer is      *)
(* about fewer variables than there are, and its proof uses the layers     *)
(* before it: where each context is (Places), who reads (Reads), who has   *)
(* the lock (Locks), who writes (Writes), which bytes are where (Bytes),   *)
(* what a graceful close has promised (Promises), and who closes the       *)
(* descriptor (Closes).                                                    *)
(***************************************************************************)
EXTENDS TcpSocket, IoBufferProofs, FiniteSetTheorems, WellFoundedInduction

-----------------------------------------------------------------------------
(* The inductive invariant.                                                *)

Context == [st : {"free", "prepared", "pending", "done"},
            type : {"none", "read", "write", "shutdown"},
            ring : Workers \cup {NoThread}, fd : {Stdin, Fd},
            raw : Nat, len : Nat, res : Int]

Log == [case : Cases, sends : Nat, calls : Nat, fresh : Nat \ {0}, accepted : Nat, wire : Seq(Nat),
        received : Nat, completed : Nat, notified : Nat, promised : Seq(Nat),
        closing : BOOLEAN, forced : BOOLEAN, failed : BOOLEAN, destroyed : BOOLEAN,
        refused : SUBSET {"read", "write", "shutdown"}, overlap : BOOLEAN,
        closed : Seq([by : Workers, fd : {Stdin, Fd}])]

File == [open : BOOLEAN, unread : Nat, ended : BOOLEAN, broken : BOOLEAN]

Peer == [sent : Nat, done : BOOLEAN]

Types == /\ TypeOK
         /\ contexts \in [Contexts -> Context]
         /\ log \in Log
         /\ file \in File
         /\ peer \in Peer

main == send_buffer.main
sub == send_buffer.sub

InUse(c, type) == contexts[c].st # "free" /\ contexts[c].type = type

\* A context in use has a ring and is a request.
PoolPlaces == \A c \in Contexts : contexts[c].st # "free" =>
                 contexts[c].ring \in Workers /\ contexts[c].type # "none"

\* A staged context is staged by one thread; a worker stages for its own ring.
StagedPlaces ==
    /\ \A t \in Threads : staged[t] # NoContext =>
          /\ contexts[staged[t]].st = "prepared"
          /\ t \in Workers => contexts[staged[t]].ring = t
    /\ \A s, t \in Threads : staged[s] # NoContext /\ staged[s] = staged[t] => s = t

\* A queue has completions of its own ring, each once and none that is being handled.
QueuePlaces ==
    \A w \in Workers : \A i \in 1..Len(cq[w]) :
        /\ contexts[cq[w][i]].st = "done" /\ contexts[cq[w][i]].ring = w
        /\ own[w].ctx # cq[w][i]
        /\ \A j \in 1..Len(cq[w]) : cq[w][i] = cq[w][j] => i = j

\* A worker handles a completion of its own ring.
WorkerPlaces ==
    \A w \in Workers : own[w].ctx # NoContext => /\ contexts[own[w].ctx].st = "done"
                                                 /\ contexts[own[w].ctx].ring = w

Has(w, type) == own[w].ctx # NoContext /\ contexts[own[w].ctx].type = type

ReadLabels == {"received", "callback", "send", "push", "spin", "submit", "close",
               "flag", "destroyMain", "destroySub", "notify"}
WriteLabels == {"sent", "elevate"}
ShutLabels == {"check", "copy", "zero", "closeFd"}
FirstLabels == {"activate", "assign", "receive"}

\* Where a worker is tells what it handles; users handle nothing.
LabelPlaces ==
    /\ \A w \in Workers : /\ pc[w] \in ReadLabels => Has(w, "read")
                          /\ pc[w] \in WriteLabels => Has(w, "write")
                          /\ pc[w] \in ShutLabels => Has(w, "shutdown")
                          /\ pc[w] \in FirstLabels \cup {"wait"} => own[w].ctx = NoContext
                          /\ pc[w] # "idle"
    /\ \A t \in Threads \ Workers :
          /\ own[t].ctx = NoContext
          /\ pc[t] \in FirstLabels \cup {"idle", "send", "push", "spin", "submit",
                                         "unlock", "close"}

\* Bytes are popped for a write that has transferred some.
SentPlaces == \A w \in Workers : pc[w] = "sent" => contexts[own[w].ctx].res > 0

\* A context is in one place: free, prepared by one thread, with the kernel, once in
\* the completion queue of its ring, or with that ring's worker.
Places == /\ PoolPlaces /\ StagedPlaces /\ QueuePlaces
          /\ WorkerPlaces /\ LabelPlaces /\ SentPlaces

\* A read or write that has no successor yet.
Reading(c) == /\ InUse(c, "read")
              /\ \A w \in Workers : own[w].ctx = c => pc[w] \in {"received", "flag"}
Writing(c) == /\ InUse(c, "write")
              /\ \A w \in Workers : own[w].ctx = c => pc[w] \notin {"unlock", "finish"}

Activating(t) == pc[t] \in FirstLabels
GoingDown(w) == pc[w] \in {"destroyMain", "destroySub", "notify"}

\* The right to read is with the thread that activates the socket, then with one read
\* after the other, then with the worker that reports the end, and then it is gone.
ReadRight ==
    /\ \A s, t \in Threads : Activating(s) /\ Activating(t) => s = t
    /\ \A t \in Threads : Activating(t) => /\ \A c \in Contexts : ~InUse(c, "read")
                                           /\ log.notified = 0
    /\ \A c, d \in Contexts : Reading(c) /\ Reading(d) => c = d
    /\ \A c \in Contexts : Reading(c) => /\ \A w \in Workers : ~GoingDown(w)
                                         /\ log.notified = 0
    /\ \A v, w \in Workers : GoingDown(v) /\ GoingDown(w) => v = w
    /\ \A w \in Workers : GoingDown(w) => log.notified = 0
    /\ log.notified <= 1

\* All the reads that are under way while a worker handles one are on its ring.
ReadRing ==
    /\ \A v, w \in Workers : InReceive(v) /\ InReceive(w) => v = w
    /\ \A w \in Workers : InReceive(w) =>
          \A c \in Contexts : InUse(c, "read") => contexts[c].ring = w

Reads == ReadRight /\ ReadRing

Locks == \A t \in Threads :
             pc[t] \in {"push", "spin", "submit", "unlock", "elevate"} => lock = t

\* The write whose bytes have not been popped from the buffer.
Unpopped(c) == Writing(c) /\ \A w \in Workers : own[w].ctx = c => pc[w] # "elevate"

\* The write that is under way has bytes, unless the buffer is gone.
Filled == ~Empty(main) \/ main = NoBuffer

\* The right to write is with the thread that found the buffer empty, or with the write.
WriteRight ==
    /\ \A c, d \in Contexts : Writing(c) /\ Writing(d) => c = d
    /\ \A c \in Contexts : Unpopped(c) => Filled
    /\ \A t \in Threads : pc[t] = "push" /\ own[t].first =>
          DEmpty(send_buffer) /\ (main = NoBuffer \/ \A c \in Contexts : ~Writing(c))
    /\ \A t \in Threads : pc[t] = "submit" =>
          Filled /\ \A c \in Contexts : ~Writing(c)

\* Before the socket is active it has no buffer and nobody writes.
WriteFirst ==
    \A t \in Threads : pc[t] \in {"activate", "assign"} =>
        /\ send_buffer = NoDoubleBuffer
        /\ \A c \in Contexts : ~InUse(c, "write")
        /\ \A s \in Threads : pc[s] # "submit"

Writes == Solid(main) /\ Solid(sub) /\ WriteRight /\ WriteFirst

\* How many bytes io_sent has popped.
Gone == log.accepted - Len(main.data) - Len(sub.data)

\* The buffer holds the bytes that follow the popped ones.
Held == /\ Gone \in Nat
        /\ Follows(main.data, Gone)
        /\ Follows(sub.data, Gone + Len(main.data))
        /\ Follows(log.wire, 0)

\* The buffer is there from on_active to on_shutdown.
Present == /\ main = NoBuffer => \E t \in Threads : pc[t] \in {"activate", "assign"}
           /\ \A w \in Workers : pc[w] \notin {"destroySub", "notify"}

\* What the write c has added to the popped bytes on the wire.
Added(c) == IF contexts[c].st = "done" /\ contexts[c].res > 0 THEN contexts[c].res ELSE 0

\* A write is about bytes of the main buffer, and those on the wire are the popped ones
\* and what it has added.
WriteOf(c) ==
    /\ contexts[c].st \in {"prepared", "pending"} =>
          contexts[c].raw = main.raw /\ contexts[c].len <= Len(main.data)
    /\ contexts[c].st = "done" => contexts[c].res <= Len(main.data)
    /\ contexts[c].fd = Fd => Len(log.wire) = Gone + Added(c)

OnWire == /\ \A c \in Contexts : Unpopped(c) => WriteOf(c)
          /\ socket_handler = Fd /\ (\A c \in Contexts : ~Unpopped(c)) =>
                Len(log.wire) = Gone

Bytes == ~log.destroyed => Held /\ Present /\ OnWire

\* Nobody but graceful closes asks for the shutdown; they have promised to wait.
Promises ==
    /\ socket_handler = Fd => \A c \in Contexts :
          contexts[c].st # "free" => contexts[c].fd = Fd
    /\ \A i \in DOMAIN log.promised : log.promised[i] <= log.accepted
    /\ ~log.forced /\ (log.closing \/ shutdown_gracefully
                                   \/ \E c \in Contexts : InUse(c, "shutdown")) =>
          log.promised # <<>>
    /\ Undisturbed /\ (log.closing \/ \E c \in Contexts : InUse(c, "shutdown")) =>
          \A i \in DOMAIN log.promised : log.promised[i] <= Len(log.wire)

\* A worker that handles a shutdown completion has passed the test of the descriptor.
Closing(w) == pc[w] \in {"copy", "zero", "closeFd"}
HasFd(w) == pc[w] = "closeFd" /\ own[w].fd = Fd

\* What has been closed was closed by workers that are done with it.
Closers ==
    /\ \A i, j \in 1..Len(log.closed) : log.closed[i].by = log.closed[j].by => i = j
    /\ \A w \in Workers : Closing(w) => \A i \in 1..Len(log.closed) : log.closed[i].by # w

\* The connection's descriptor is in the member, then with a worker, and then closed.
Owed ==
    /\ socket_handler = Fd => /\ log.closed = <<>>
                              /\ \A w \in Workers : /\ pc[w] # "closeFd"
                                                    /\ pc[w] = "zero" => own[w].fd = Fd
    /\ socket_handler # Fd => \/ \E w \in Workers : HasFd(w)
                              \/ \E i \in 1..Len(log.closed) : log.closed[i].fd = Fd

\* Until two workers overlap, one alone gets to closing.
Alone ==
    /\ \A v, w \in Workers : Closing(v) /\ Closing(w) => v = w
    /\ \A w \in Workers : /\ Closing(w) => log.closed = <<>>
                          /\ pc[w] \in {"copy", "zero"} => socket_handler = Fd
                          /\ pc[w] = "closeFd" => own[w].fd = Fd
    /\ Len(log.closed) <= 1 /\ \A i \in 1..Len(log.closed) : log.closed[i].fd = Fd

Closes == Closers /\ Owed /\ (~log.overlap => Alone)

IInv == Types /\ Places /\ Reads /\ Locks /\ Writes /\ Bytes /\ Promises /\ Closes

-----------------------------------------------------------------------------
(* What the actions do to the variables, one function update at a time.    *)

\* A context that is in use, or any, as a record.
LEMMA ContextFields ==
    ASSUME NEW x \in Context
    PROVE  /\ x.st \in {"free", "prepared", "pending", "done"}
           /\ x.type \in {"none", "read", "write", "shutdown"}
           /\ x.ring \in Workers \cup {NoThread} /\ x.fd \in {Stdin, Fd}
           /\ x.raw \in Nat /\ x.len \in Nat /\ x.res \in Int
BY DEF Context

\* The state's types, each variable's by itself.
LEMMA TypeFacts ==
    ASSUME Types
    PROVE  /\ send_buffer \in DoubleBuffer /\ main \in Buffer /\ sub \in Buffer
           /\ pc \in [Threads -> Labels]
           /\ staged \in [Threads -> Contexts \cup {NoContext}]
           /\ cq \in [Workers -> Seq(Contexts)]
           /\ contexts \in [Contexts -> Context]
           /\ \A t \in Threads : own[t].ctx \in Contexts \cup {NoContext}
           /\ NoContext \notin Contexts /\ Workers \subseteq Threads
           /\ \A c \in Contexts : contexts[c] \in Context
<1>1. send_buffer \in DoubleBuffer
  BY DEF Types, TypeOK, DoubleBuffer, Buffer
<1>2. main \in Buffer /\ sub \in Buffer
  BY <1>1, DoubleFields DEF main, sub
<1>3. /\ pc \in [Threads -> Labels]
      /\ staged \in [Threads -> Contexts \cup {NoContext}]
      /\ cq \in [Workers -> Seq(Contexts)]
      /\ contexts \in [Contexts -> Context]
      /\ own \in [Threads -> [ctx : Contexts \cup {NoContext}, fd : {Stdin, Fd},
                              first : BOOLEAN]]
  BY DEF Types, TypeOK
<1>4. \A t \in Threads : own[t].ctx \in Contexts \cup {NoContext}
  BY <1>3
<1>5. NoContext \notin Contexts /\ Workers \subseteq Threads
  BY TcpSocketAssumption DEF Threads, NoContext, Contexts
<1>6. \A c \in Contexts : contexts[c] \in Context
  BY <1>3
<1>7. QED
  BY <1>1, <1>2, <1>3, <1>4, <1>5, <1>6

\* Thread t goes from one label to another, and no other thread moves.
Walks(t, a, b) == /\ pc[t] = a /\ staged[t] = NoContext /\ pc'[t] = b
                  /\ \A s \in Threads \ {t} : pc'[s] = pc[s]

\* Goto, as the lemmas below use it.
LEMMA GotoWalks ==
    ASSUME Types, NEW t \in Threads, NEW a, NEW b, At(t, a), Goto(t, b)
    PROVE  Walks(t, a, b)
BY DEF Types, TypeOK, Walks, At, Goto

\* No thread changes the context it handles.
SameCtx == \A t \in Threads : own'[t].ctx = own[t].ctx

\* Nothing happens to the requests.
Calm == contexts' = contexts /\ staged' = staged /\ cq' = cq /\ SameCtx

\* The local variables of a thread as one record.
Own == [ctx : Contexts \cup {NoContext}, fd : {Stdin, Fd}, first : BOOLEAN]

\* An assignment to one local variable leaves the others, and the other threads', alone.
LEMMA OwnCtx ==
    ASSUME Types, NEW t \in Threads, NEW x \in Contexts \cup {NoContext},
           own' = [own EXCEPT ![t].ctx = x]
    PROVE  /\ own' \in [Threads -> Own] /\ own'[t].ctx = x
           /\ own'[t].fd = own[t].fd /\ own'[t].first = own[t].first
           /\ \A s \in Threads \ {t} : own'[s] = own[s]
<1> DEFINE y == [own[t] EXCEPT !.ctx = x]
<1>1. own \in [Threads -> Own] /\ own[t] \in Own
  BY DEF Types, TypeOK, Own
<1>2. y \in Own /\ y.ctx = x /\ y.fd = own[t].fd /\ y.first = own[t].first
  BY <1>1 DEF Own
<1>3. own' = [own EXCEPT ![t] = y]
  BY <1>1
<1> HIDE DEF y
<1>4. QED
  BY <1>1, <1>2, <1>3

\* The same for `fd'.
LEMMA OwnFd ==
    ASSUME Types, NEW t \in Threads, NEW x \in {Stdin, Fd},
           own' = [own EXCEPT ![t].fd = x]
    PROVE  /\ own' \in [Threads -> Own] /\ own'[t].fd = x
           /\ own'[t].ctx = own[t].ctx /\ own'[t].first = own[t].first
           /\ \A s \in Threads \ {t} : own'[s] = own[s]
<1> DEFINE y == [own[t] EXCEPT !.fd = x]
<1>1. own \in [Threads -> Own] /\ own[t] \in Own
  BY DEF Types, TypeOK, Own
<1>2. y \in Own /\ y.fd = x /\ y.ctx = own[t].ctx /\ y.first = own[t].first
  BY <1>1 DEF Own
<1>3. own' = [own EXCEPT ![t] = y]
  BY <1>1
<1> HIDE DEF y
<1>4. QED
  BY <1>1, <1>2, <1>3

\* The same for `first'.
LEMMA OwnFirst ==
    ASSUME Types, NEW t \in Threads, NEW x \in BOOLEAN,
           own' = [own EXCEPT ![t].first = x]
    PROVE  /\ own' \in [Threads -> Own] /\ own'[t].first = x
           /\ own'[t].ctx = own[t].ctx /\ own'[t].fd = own[t].fd
           /\ \A s \in Threads \ {t} : own'[s] = own[s]
<1> DEFINE y == [own[t] EXCEPT !.first = x]
<1>1. own \in [Threads -> Own] /\ own[t] \in Own
  BY DEF Types, TypeOK, Own
<1>2. y \in Own /\ y.first = x /\ y.ctx = own[t].ctx /\ y.fd = own[t].fd
  BY <1>1 DEF Own
<1>3. own' = [own EXCEPT ![t] = y]
  BY <1>1
<1> HIDE DEF y
<1>4. QED
  BY <1>1, <1>2, <1>3

LogFields == {"case", "sends", "calls", "fresh", "accepted", "wire", "received", "completed",
              "notified", "promised", "closing", "forced", "failed", "destroyed",
              "refused", "overlap", "closed"}

\* The history changes in no other fields than those of F.
LogStep(F) == log' \in Log /\ \A f \in LogFields \ F : log'[f] = log[f]

-----------------------------------------------------------------------------
(* Steps that do nothing to the requests.                                  *)

\* A worker's step from one label to another that says the same, or nothing, about the
\* context it handles.
Proper(t, a, b) ==
    IF t \in Workers
    THEN /\ b \in ReadLabels => a \in ReadLabels
         /\ b \in WriteLabels => a \in WriteLabels
         /\ b \in ShutLabels => a \in ShutLabels
         /\ b \in FirstLabels \cup {"wait"} => a \in FirstLabels \cup {"wait"}
         /\ b \notin {"idle", "sent"}
    ELSE b \in FirstLabels \cup {"idle", "send", "push", "spin", "submit", "unlock",
                                 "close"}

\* Such a step leaves every context where it was.
LEMMA CalmPlaces ==
    ASSUME Types, Places, Calm, NEW t \in Threads, NEW a, NEW b,
           Walks(t, a, b), Proper(t, a, b)
    PROVE  Places'
<1>1. /\ contexts' = contexts /\ staged' = staged /\ cq' = cq
      /\ \A s \in Threads : own'[s].ctx = own[s].ctx
      /\ Workers \subseteq Threads
  BY TypeFacts DEF Calm, SameCtx
<1>2. PoolPlaces'
  BY <1>1 DEF Places, PoolPlaces
<1>3. StagedPlaces'
  BY <1>1 DEF Places, StagedPlaces
<1>4. QueuePlaces'
  BY <1>1 DEF Places, QueuePlaces
<1>5. WorkerPlaces'
  BY <1>1 DEF Places, WorkerPlaces
<1>6. LabelPlaces'
  <2>1. \A w \in Workers : \A type : Has(w, type)' <=> Has(w, type)
    BY <1>1 DEF Has
  <2>2. ASSUME NEW w \in Workers
        PROVE  LET p == pc'[w]
               IN  /\ p \in ReadLabels => Has(w, "read")
                   /\ p \in WriteLabels => Has(w, "write")
                   /\ p \in ShutLabels => Has(w, "shutdown")
                   /\ p \in FirstLabels \cup {"wait"} => own[w].ctx = NoContext
                   /\ p # "idle"
    <3>1. CASE w = t
      BY <3>1 DEF Places, LabelPlaces, Walks, Proper
    <3>2. CASE w # t
      BY <1>1, <3>2 DEF Places, LabelPlaces, Walks
    <3>3. QED
      BY <3>1, <3>2
  <2>3. ASSUME NEW u \in Threads \ Workers
        PROVE  /\ own[u].ctx = NoContext
               /\ pc'[u] \in FirstLabels \cup {"idle", "send", "push", "spin", "submit",
                                               "unlock", "close"}
    BY DEF Places, LabelPlaces, Walks, Proper
  <2>4. QED
    BY <1>1, <2>1, <2>2, <2>3 DEF LabelPlaces
<1>7. SentPlaces'
  BY <1>1 DEF Places, SentPlaces, Walks, Proper
<1>8. QED
  BY <1>2, <1>3, <1>4, <1>5, <1>6, <1>7 DEF Places

\* The use of every context, seen from the next state.
SameUse == \A c \in Contexts : /\ contexts'[c].st # "free" <=> contexts[c].st # "free"
                               /\ contexts'[c].type = contexts[c].type
                               /\ contexts'[c].ring = contexts[c].ring
                               /\ contexts'[c].fd = contexts[c].fd

\* A step that is none of those of a completion's handler up to the successor it submits:
\* it changes nobody's right to read or to write.
Unrelated(t, a, b) == /\ b \notin {"received", "flag"}
                      /\ t \in Workers => a \in ReadLabels \cup ShutLabels \cup FirstLabels
                                          \/ (a = "unlock" /\ b = "finish")

\* The rights to read and write, after such a step.
LEMMA CalmRights ==
    ASSUME Types, Places, SameUse, SameCtx, NEW t \in Threads, NEW a, NEW b,
           Walks(t, a, b), Unrelated(t, a, b)
    PROVE  /\ \A c \in Contexts : \A type : InUse(c, type)' <=> InUse(c, type)
           /\ \A w \in Workers : InReceive(w)' <=> InReceive(w)
           /\ \A c \in Contexts : Reading(c)' => Reading(c)
           /\ \A c \in Contexts : Writing(c)' <=> Writing(c)
           /\ \A c \in Contexts : Unpopped(c)' <=> Unpopped(c)
<1>1. /\ \A s \in Threads : own'[s].ctx = own[s].ctx
      /\ Workers \subseteq Threads
      /\ \A s \in Threads \ {t} : pc'[s] = pc[s]
      /\ pc[t] = a /\ pc'[t] = b
      /\ \A s \in Threads : own[s].ctx \in Contexts \cup {NoContext}
      /\ NoContext \notin Contexts
  BY TypeFacts DEF SameCtx, Walks
<1>2. \A c \in Contexts : \A type : InUse(c, type)' <=> InUse(c, type)
  BY DEF SameUse, InUse
<1>3. \A w \in Workers : InReceive(w)' <=> InReceive(w)
  BY <1>1 DEF SameUse, InReceive
<1>4. \A c \in Contexts : Reading(c)' => Reading(c)
  BY <1>1, <1>2 DEF Reading, Unrelated
<1>5. t \in Workers /\ own[t].ctx # NoContext /\ contexts[own[t].ctx].type = "write" =>
         a = "unlock" /\ b = "finish"
  BY <1>1 DEF Unrelated, Places, LabelPlaces, Has, FirstLabels
<1>6. ASSUME NEW c \in Contexts
      PROVE  (Writing(c)' <=> Writing(c)) /\ (Unpopped(c)' <=> Unpopped(c))
  <2>1. CASE t \in Workers /\ own[t].ctx = c /\ InUse(c, "write")
    BY <1>1, <1>2, <1>5, <2>1 DEF Writing, Unpopped, InUse
  <2>2. CASE ~(t \in Workers /\ own[t].ctx = c /\ InUse(c, "write"))
    BY <1>1, <1>2, <2>2 DEF Writing, Unpopped
  <2>3. QED
    BY <2>1, <2>2
<1>7. QED
  BY <1>2, <1>3, <1>4, <1>6

-----------------------------------------------------------------------------
(* Steps that give nobody a right to read or to write.                     *)

\* The right to read stays with whom it is, or is given up.
LEMMA ReadsKept ==
    ASSUME Reads,
           \A t \in Threads : Activating(t)' => Activating(t),
           \A c \in Contexts : InUse(c, "read")' =>
               InUse(c, "read") /\ contexts'[c].ring = contexts[c].ring,
           \A c \in Contexts : Reading(c)' => Reading(c),
           \A w \in Workers : GoingDown(w)' => GoingDown(w),
           \A w \in Workers : InReceive(w)' => InReceive(w),
           log'.notified = log.notified
    PROVE  Reads'
<1>1. ReadRight'
  BY DEF Reads, ReadRight
<1>2. ReadRing'
  BY DEF Reads, ReadRing
<1>3. QED
  BY <1>1, <1>2 DEF Reads

\* The right to write stays with whom it is, or is given up.
LEMMA WritesKept ==
    ASSUME Writes, send_buffer' = send_buffer,
           \A c \in Contexts : InUse(c, "write")' => InUse(c, "write"),
           \A c \in Contexts : Writing(c)' => Writing(c),
           \A c \in Contexts : Unpopped(c)' => Unpopped(c),
           \A t \in Threads : pc'[t] \in {"activate", "assign"} =>
               pc[t] \in {"activate", "assign"},
           \A t \in Threads : pc'[t] = "push" =>
               pc[t] = "push" /\ own'[t].first = own[t].first,
           \A t \in Threads : pc'[t] = "submit" => pc[t] = "submit"
    PROVE  Writes'
<1>1. main' = main /\ sub' = sub
  BY DEF main, sub
<1>2. WriteRight'
  BY <1>1 DEF Writes, WriteRight, Filled
<1>3. WriteFirst'
  BY DEF Writes, WriteFirst
<1>4. QED
  BY <1>1, <1>2, <1>3 DEF Writes

\* The bytes stay where they are.
LEMMA BytesKept ==
    ASSUME Bytes, send_buffer' = send_buffer,
           log'.accepted = log.accepted, log'.wire = log.wire,
           log'.destroyed = log.destroyed,
           socket_handler' = Fd => socket_handler = Fd,
           \A c \in Contexts : Unpopped(c)' <=> Unpopped(c),
           \A c \in Contexts : Unpopped(c) => contexts'[c] = contexts[c],
           \A w \in Workers : pc'[w] \in {"destroySub", "notify"} =>
               pc[w] \in {"destroySub", "notify"},
           \A t \in Threads : pc[t] \in {"activate", "assign"} =>
               pc'[t] \in {"activate", "assign"}
    PROVE  Bytes'
<1>1. main' = main /\ sub' = sub /\ Gone' = Gone
  BY DEF main, sub, Gone
<1>2. SUFFICES ASSUME ~log.destroyed PROVE Held' /\ Present' /\ OnWire'
  BY DEF Bytes
<1>3. Held'
  BY <1>1, <1>2 DEF Bytes, Held
<1>4. Present'
  BY <1>1, <1>2 DEF Bytes, Present
<1>5. \A c \in Contexts : Unpopped(c)' => WriteOf(c)'
  BY <1>1, <1>2 DEF Bytes, OnWire, WriteOf, Added
<1>6. OnWire'
  BY <1>1, <1>2, <1>5 DEF Bytes, OnWire
<1>7. QED
  BY <1>3, <1>4, <1>6

-----------------------------------------------------------------------------
(* Steps that prepare a request.                                           *)

\* There is a first free context when there is a free one.
LEMMA FirstFreeIsFree ==
    ASSUME Free # {}
    PROVE  FirstFree \in Contexts /\ contexts[FirstFree].st = "free"
<1> DEFINE R == OpToRel(<, Nat)
<1>1. IsWellFoundedOn(R, Nat)
  BY NatLessThanWellFounded
<1>2. \A m, n \in Nat : <<m, n>> \in R <=> m < n
  BY DEF OpToRel
<1> HIDE DEF R
<1>3. Free \subseteq Nat
  BY TcpSocketAssumption DEF Free, Contexts
<1>4. PICK m \in Free : \A n \in Free : <<n, m>> \notin R
  BY <1>1, <1>3, WFMin, Zenon
<1>5. \A n \in Free : m <= n
  <2>1. TAKE n \in Free
  <2>2. m \in Nat /\ n \in Nat /\ ~(n < m)
    BY <1>2, <1>3, <1>4
  <2>3. QED
    BY <2>2
<1>6. FirstFree \in Free
  BY <1>5 DEF FirstFree
<1>7. QED
  BY <1>6 DEF Free

\* Context c is new: thread t has prepared it for a request of some type, and staged it.
Fresh(c, t, type) ==
    /\ c \in Contexts /\ contexts[c].st = "free"
    /\ contexts'[c].st = "prepared" /\ contexts'[c].type = type
    /\ contexts'[c].ring \in Workers
    /\ t \in Workers => contexts'[c].ring = t
    /\ contexts'[c].fd = socket_handler
    /\ \A d \in Contexts \ {c} : contexts'[d] = contexts[d]
    /\ staged'[t] = c
    /\ \A s \in Threads \ {t} : staged'[s] = staged[s]

\* What Prepare does.
LEMMA PrepareFresh ==
    ASSUME Types, NEW t \in Threads, NEW type \in {"read", "write", "shutdown"},
           NEW d \in DoubleBuffer, Prepare(t, type, d)
    PROVE  /\ contexts' \in [Contexts -> Context]
           /\ staged' \in [Threads -> Contexts \cup {NoContext}]
           /\ \E c \in Contexts : /\ Fresh(c, t, type)
                                  /\ type = "write" => /\ contexts'[c].raw = DRaw(d)
                                                       /\ contexts'[c].len = DSize(d)
<1> DEFINE c == FirstFree
<1>1. c \in Contexts /\ contexts[c].st = "free"
  BY FirstFreeIsFree DEF Prepare
<1>2. PICK r \in RingsOf(t) :
          contexts' = [contexts EXCEPT ![c] =
              [st |-> "prepared", type |-> type, ring |-> r, fd |-> socket_handler,
               raw |-> IF type = "write" THEN DRaw(d) ELSE NULL,
               len |-> IF type = "write" THEN DSize(d) ELSE 0,
               res |-> 0]]
  BY DEF Prepare
<1>3. staged' = [staged EXCEPT ![t] = c]
  BY DEF Prepare
<1> HIDE DEF c
<1>4. r \in Workers /\ (t \in Workers => r = t)
  BY DEF RingsOf
<1>5. DRaw(d) \in Nat /\ DSize(d) \in Nat
  BY DoubleFields, BufferFields DEF DRaw, DSize
<1>6. socket_handler \in {Stdin, Fd}
  BY DEF Types, TypeOK
<1> DEFINE x == [st |-> "prepared", type |-> type, ring |-> r, fd |-> socket_handler,
                 raw |-> IF type = "write" THEN DRaw(d) ELSE NULL,
                 len |-> IF type = "write" THEN DSize(d) ELSE 0,
                 res |-> 0]
<1>7. /\ x \in Context
      /\ x.st = "prepared" /\ x.type = type /\ x.ring = r /\ x.fd = socket_handler
      /\ type = "write" => x.raw = DRaw(d) /\ x.len = DSize(d)
  BY <1>4, <1>5, <1>6 DEF Context, NULL
<1>8. contexts' = [contexts EXCEPT ![c] = x]
  BY <1>2
<1> HIDE DEF x
<1>9. /\ contexts' \in [Contexts -> Context] /\ contexts'[c] = x
      /\ \A e \in Contexts \ {c} : contexts'[e] = contexts[e]
  BY <1>1, <1>7, <1>8, TypeFacts
<1>10. /\ staged' \in [Threads -> Contexts \cup {NoContext}] /\ staged'[t] = c
       /\ \A s \in Threads \ {t} : staged'[s] = staged[s]
  BY <1>1, <1>3, TypeFacts
<1>11. Fresh(c, t, type)
  BY <1>1, <1>4, <1>7, <1>9, <1>10 DEF Fresh
<1>12. QED
  BY <1>1, <1>7, <1>9, <1>10, <1>11

\* A new context is in one place.
LEMMA FreshPlaces ==
    ASSUME Types, Places, SameCtx, cq' = cq,
           NEW t \in Threads, NEW a, NEW b, NEW c,
           NEW type \in {"read", "write", "shutdown"},
           Fresh(c, t, type), Walks(t, a, b), Proper(t, a, b)
    PROVE  Places'
<1>1. /\ cq' = cq /\ \A s \in Threads : own'[s].ctx = own[s].ctx
      /\ Workers \subseteq Threads
      /\ \A s \in Threads : own[s].ctx \in Contexts \cup {NoContext}
      /\ \A s \in Threads : staged[s] \in Contexts \cup {NoContext}
      /\ NoContext \notin Contexts
  BY TypeFacts DEF SameCtx
<1>2. \A w \in Workers : \A i \in 1..Len(cq[w]) : cq[w][i] \in Contexts
  BY TypeFacts, ElementOfSeq
<1>3. \A d \in Contexts : contexts[d].st # "free" => d # c /\ contexts'[d] = contexts[d]
  BY DEF Fresh
<1>4. PoolPlaces'
  BY <1>3 DEF Places, PoolPlaces, Fresh
<1>5. StagedPlaces'
  <2>1. \A s \in Threads \ {t} : staged[s] # NoContext => staged[s] # c
    BY DEF Places, StagedPlaces, Fresh
  <2>2. QED
    BY <1>1, <1>3, <2>1 DEF Places, StagedPlaces, Fresh, Walks
<1>6. QueuePlaces'
  BY <1>1, <1>2, <1>3 DEF Places, QueuePlaces
<1>7. WorkerPlaces'
  BY <1>1, <1>3 DEF Places, WorkerPlaces
<1>8. LabelPlaces'
  <2>1. ASSUME NEW w \in Workers, NEW y
        PROVE  Has(w, y)' <=> Has(w, y)
    <3>1. own[w].ctx # NoContext => contexts'[own[w].ctx] = contexts[own[w].ctx]
      BY <1>1, <1>3 DEF Places, WorkerPlaces
    <3>2. QED
      BY <1>1, <3>1 DEF Has
  <2>2. ASSUME NEW w \in Workers
        PROVE  LET p == pc'[w]
               IN  /\ p \in ReadLabels => Has(w, "read")
                   /\ p \in WriteLabels => Has(w, "write")
                   /\ p \in ShutLabels => Has(w, "shutdown")
                   /\ p \in FirstLabels \cup {"wait"} => own[w].ctx = NoContext
                   /\ p # "idle"
    <3>1. CASE w = t
      BY <3>1 DEF Places, LabelPlaces, Walks, Proper
    <3>2. CASE w # t
      BY <1>1, <3>2 DEF Places, LabelPlaces, Walks
    <3>3. QED
      BY <3>1, <3>2
  <2>3. ASSUME NEW u \in Threads \ Workers
        PROVE  /\ own[u].ctx = NoContext
               /\ pc'[u] \in FirstLabels \cup {"idle", "send", "push", "spin", "submit",
                                               "unlock", "close"}
    BY DEF Places, LabelPlaces, Walks, Proper
  <2>4. QED
    BY <1>1, <2>1, <2>2, <2>3 DEF LabelPlaces
<1>9. SentPlaces'
  <2>1. ASSUME NEW w \in Workers, pc'[w] = "sent"
        PROVE  pc[w] = "sent" /\ contexts'[own[w].ctx] = contexts[own[w].ctx]
    <3>1. w # t /\ pc[w] = "sent"
      BY <1>1, <2>1 DEF Walks, Proper
    <3>2. own[w].ctx # NoContext
      BY <3>1 DEF Places, LabelPlaces, WriteLabels, Has
    <3>3. QED
      BY <1>1, <1>3, <3>1, <3>2 DEF Places, WorkerPlaces
  <2>2. QED
    BY <1>1, <2>1 DEF Places, SentPlaces
<1>10. QED
  BY <1>4, <1>5, <1>6, <1>7, <1>8, <1>9 DEF Places

\* The use of the contexts other than c, seen from the next state.
OthersUse(c) == \A d \in Contexts \ {c} : \A x : InUse(d, x)' <=> InUse(d, x)

\* The rights to read and write, after a step that prepares a request: as they were, save
\* those of the new one.
LEMMA FreshRights ==
    ASSUME Types, Places, SameCtx,
           NEW t \in Threads, NEW a, NEW b, NEW c,
           NEW type \in {"read", "write", "shutdown"},
           Fresh(c, t, type), Walks(t, a, b)
    PROVE  /\ ~\E x : InUse(c, x)
           /\ \A x : InUse(c, x)' <=> x = type
           /\ Reading(c)' <=> type = "read"
           /\ Writing(c)' <=> type = "write"
           /\ Unpopped(c)' <=> type = "write"
           /\ OthersUse(c)
           /\ \A w \in Workers : InReceive(w)' <=> InReceive(w)
           /\ \A w \in Workers : own'[w].ctx # c
<1>1. /\ \A s \in Threads : own'[s].ctx = own[s].ctx
      /\ Workers \subseteq Threads
      /\ \A s \in Threads : own[s].ctx \in Contexts \cup {NoContext}
      /\ NoContext \notin Contexts
  BY TypeFacts DEF SameCtx
<1>2. \A w \in Workers : own[w].ctx # c /\ own'[w].ctx # c
  BY <1>1 DEF Places, WorkerPlaces, Fresh
<1>3. ~\E x : InUse(c, x)
  BY DEF Fresh, InUse
<1>4. \A x : InUse(c, x)' <=> x = type
  BY DEF Fresh, InUse
<1>5. OthersUse(c)
  BY DEF Fresh, InUse, OthersUse
<1>6. \A w \in Workers : InReceive(w)' <=> InReceive(w)
  BY <1>1, <1>2 DEF Fresh, InReceive
<1>7. /\ Reading(c)' <=> type = "read"
      /\ Writing(c)' <=> type = "write"
      /\ Unpopped(c)' <=> type = "write"
  BY <1>2, <1>4 DEF Reading, Writing, Unpopped
<1>8. QED
  BY <1>2, <1>3, <1>4, <1>5, <1>6, <1>7

\* The others' rights, when the step is otherwise none of a handler's (see Unrelated).
LEMMA OtherRights ==
    ASSUME Types, Places, SameCtx,
           NEW t \in Threads, NEW a, NEW b, NEW c,
           NEW type \in {"read", "write", "shutdown"},
           Fresh(c, t, type), Walks(t, a, b), Unrelated(t, a, b)
    PROVE  \A d \in Contexts \ {c} : /\ Reading(d)' => Reading(d)
                                     /\ Writing(d)' <=> Writing(d)
                                     /\ Unpopped(d)' <=> Unpopped(d)
<1>1. /\ \A s \in Threads : own'[s].ctx = own[s].ctx
      /\ Workers \subseteq Threads
      /\ \A s \in Threads \ {t} : pc'[s] = pc[s]
      /\ pc[t] = a /\ pc'[t] = b
      /\ \A s \in Threads : own[s].ctx \in Contexts \cup {NoContext}
      /\ NoContext \notin Contexts
  BY TypeFacts DEF SameCtx, Walks
<1>2. OthersUse(c)
  BY DEF Fresh, InUse, OthersUse
<1>3. \A d \in Contexts \ {c} : Reading(d)' => Reading(d)
  BY <1>1, <1>2 DEF Reading, Unrelated, OthersUse
<1>4. t \in Workers /\ own[t].ctx # NoContext /\ contexts[own[t].ctx].type = "write" =>
         a = "unlock" /\ b = "finish"
  BY <1>1 DEF Unrelated, Places, LabelPlaces, Has, FirstLabels
<1>5. ASSUME NEW d \in Contexts \ {c}
      PROVE  (Writing(d)' <=> Writing(d)) /\ (Unpopped(d)' <=> Unpopped(d))
  <2>1. CASE t \in Workers /\ own[t].ctx = d /\ InUse(d, "write")
    BY <1>1, <1>2, <1>4, <2>1 DEF Writing, Unpopped, InUse, OthersUse
  <2>2. CASE ~(t \in Workers /\ own[t].ctx = d /\ InUse(d, "write"))
    BY <1>1, <1>2, <2>2 DEF Writing, Unpopped, OthersUse
  <2>3. QED
    BY <2>1, <2>2
<1>6. QED
  BY <1>3, <1>5

-----------------------------------------------------------------------------
(* Steps of the kernel.                                                    *)

\* The kernel has completed the request c, which it had (or refuses from the one
\* who submits it): the request is done with some result, and last in its ring's queue.
Answered(c, res) ==
    /\ c \in Contexts /\ contexts[c].st \in {"prepared", "pending"}
    /\ contexts'[c].st = "done" /\ contexts'[c].res = res
    /\ contexts'[c].type = contexts[c].type /\ contexts'[c].ring = contexts[c].ring
    /\ contexts'[c].fd = contexts[c].fd
    /\ \A d \in Contexts \ {c} : contexts'[d] = contexts[d]
    /\ cq'[contexts[c].ring] = Append(cq[contexts[c].ring], c)
    /\ \A w \in Workers \ {contexts[c].ring} : cq'[w] = cq[w]

\* What Completed does.
LEMMA CompletedAnswers ==
    ASSUME Types, Places, NEW c \in Contexts, contexts[c].st \in {"prepared", "pending"},
           NEW res \in Int, Completed(c, res)
    PROVE  /\ contexts' \in [Contexts -> Context]
           /\ cq' \in [Workers -> Seq(Contexts)]
           /\ Answered(c, res)
<1> DEFINE x == contexts[c]
<1> DEFINE y == [x EXCEPT !.st = "done", !.res = res]
<1>1. /\ contexts \in [Contexts -> Context] /\ cq \in [Workers -> Seq(Contexts)]
      /\ x \in Context /\ x.ring \in Workers
  BY TypeFacts DEF Places, PoolPlaces
<1>2. /\ y \in Context /\ y.st = "done" /\ y.res = res
      /\ y.type = x.type /\ y.ring = x.ring /\ y.fd = x.fd
  BY <1>1 DEF Context
<1>3. contexts' = [contexts EXCEPT ![c] = y]
  BY <1>1 DEF Completed
<1> HIDE DEF y
<1>4. /\ contexts' \in [Contexts -> Context] /\ contexts'[c] = y
      /\ \A d \in Contexts \ {c} : contexts'[d] = contexts[d]
  BY <1>1, <1>2, <1>3
<1>5. cq' = [cq EXCEPT ![x.ring] = Append(cq[x.ring], c)]
  BY DEF Completed
<1>6. Append(cq[x.ring], c) \in Seq(Contexts)
  BY <1>1, AppendProperties
<1>7. /\ cq' \in [Workers -> Seq(Contexts)] /\ cq'[x.ring] = Append(cq[x.ring], c)
      /\ \A w \in Workers \ {x.ring} : cq'[w] = cq[w]
  BY <1>1, <1>5, <1>6
<1>8. QED
  BY <1>2, <1>4, <1>7 DEF Answered

\* A completion is in one place.
LEMMA AnsweredPlaces ==
    ASSUME Types, Places, UNCHANGED <<pc, own>>, NEW c, NEW res, Answered(c, res),
           \A t \in Threads : staged'[t] # NoContext =>
               staged'[t] = staged[t] /\ staged[t] # c
    PROVE  Places'
<1>1. /\ pc' = pc /\ own' = own /\ Workers \subseteq Threads
      /\ \A s \in Threads : own[s].ctx \in Contexts \cup {NoContext}
      /\ \A s \in Threads : staged[s] \in Contexts \cup {NoContext}
      /\ NoContext \notin Contexts
      /\ cq \in [Workers -> Seq(Contexts)]
  BY TypeFacts
<1>2. c \in Contexts /\ contexts[c].ring \in Workers
  BY DEF Answered, Places, PoolPlaces
<1>3. \A d \in Contexts : /\ contexts'[d].ring = contexts[d].ring
                          /\ contexts'[d].type = contexts[d].type
                          /\ contexts'[d].st # "free" <=> contexts[d].st # "free"
                          /\ contexts[d].st = "done" => contexts'[d].st = "done" /\ d # c
  BY DEF Answered
<1>4. PoolPlaces'
  BY <1>3 DEF Places, PoolPlaces
<1>5. StagedPlaces'
  <2>1. \A t \in Threads : staged'[t] # NoContext =>
           contexts'[staged'[t]] = contexts[staged[t]] /\ staged'[t] = staged[t]
    BY <1>1 DEF Answered
  <2>2. QED
    BY <2>1 DEF Places, StagedPlaces
<1>6. QueuePlaces'
  <2>1. ASSUME NEW w \in Workers, NEW i \in 1..Len(cq[w])
        PROVE  /\ cq[w][i] \in Contexts
               /\ contexts'[cq[w][i]].st = "done" /\ contexts'[cq[w][i]].ring = w
               /\ own'[w].ctx # cq[w][i] /\ cq[w][i] # c
               /\ \A j \in 1..Len(cq[w]) : cq[w][i] = cq[w][j] => i = j
    <3>1. cq[w][i] \in Contexts
      BY <1>1, ElementOfSeq
    <3>2. QED
      BY <1>1, <1>3, <3>1 DEF Places, QueuePlaces
  <2>2. ASSUME NEW w \in Workers, w # contexts[c].ring
        PROVE  cq'[w] = cq[w]
    BY <2>2 DEF Answered
  <2> DEFINE w == contexts[c].ring
  <2> DEFINE q == cq[w]
  <2>3. q \in Seq(Contexts) /\ Len(q) \in Nat
    BY <1>1, <1>2, LenProperties
  <2>4. cq'[w] = Append(q, c)
    BY DEF Answered
  <2>5. /\ Len(Append(q, c)) = Len(q) + 1
        /\ \A i \in 1..Len(q) : Append(q, c)[i] = q[i]
        /\ Append(q, c)[Len(q) + 1] = c
    BY <1>2, <2>3, AppendProperties
  <2>6. contexts'[c].st = "done" /\ contexts'[c].ring = w /\ own'[w].ctx # c
    BY <1>1, <1>2 DEF Answered, Places, WorkerPlaces
  <2> HIDE DEF q
  <2>7. ASSUME NEW i \in 1 .. Len(q) + 1
        PROVE  LET p == Append(q, c)
               IN  /\ contexts'[p[i]].st = "done" /\ contexts'[p[i]].ring = w
                   /\ own'[w].ctx # p[i]
                   /\ \A j \in 1 .. Len(q) + 1 : p[i] = p[j] => i = j
    <3>1. \A k \in 1..Len(q) : q[k] # c
      BY <1>2, <2>1 DEF q
    <3>2. CASE i = Len(q) + 1
      BY <2>3, <2>5, <2>6, <3>1, <3>2
    <3>3. CASE i \in 1..Len(q)
      <4>1. /\ contexts'[q[i]].st = "done" /\ contexts'[q[i]].ring = w
            /\ own'[w].ctx # q[i] /\ q[i] # c
            /\ \A j \in 1..Len(q) : q[i] = q[j] => i = j
        BY <1>2, <2>1, <3>3 DEF q
      <4>2. QED
        BY <2>3, <2>5, <3>3, <4>1
    <3>4. QED
      BY <2>3, <3>2, <3>3
  <2>8. Len(cq'[w]) = Len(q) + 1
    BY <2>4, <2>5
  <2>9. ASSUME NEW v \in Workers, NEW i \in 1..Len(cq'[v])
        PROVE  /\ contexts'[cq'[v][i]].st = "done" /\ contexts'[cq'[v][i]].ring = v
               /\ own'[v].ctx # cq'[v][i]
               /\ \A j \in 1..Len(cq'[v]) : cq'[v][i] = cq'[v][j] => i = j
    <3>1. CASE v = w
      BY <2>4, <2>7, <2>8, <3>1
    <3>2. CASE v # w
      BY <2>1, <2>2, <3>2
    <3>3. QED
      BY <3>1, <3>2
  <2>10. QED
    BY <2>9 DEF QueuePlaces
<1>7. WorkerPlaces'
  BY <1>1, <1>3 DEF Places, WorkerPlaces
<1>8. LabelPlaces'
  <2>1. \A w \in Workers : \A y : Has(w, y)' <=> Has(w, y)
    BY <1>1, <1>3 DEF Has
  <2>2. QED
    BY <1>1, <2>1 DEF Places, LabelPlaces
<1>9. SentPlaces'
  <2>1. ASSUME NEW w \in Workers, pc[w] = "sent"
        PROVE  contexts'[own[w].ctx] = contexts[own[w].ctx]
    <3>1. own[w].ctx # NoContext
      BY <2>1 DEF Places, LabelPlaces, WriteLabels, Has
    <3>2. contexts[own[w].ctx].st = "done" /\ own[w].ctx \in Contexts
      BY <1>1, <3>1 DEF Places, WorkerPlaces
    <3>3. QED
      BY <1>3, <3>2 DEF Answered
  <2>2. QED
    BY <1>1, <2>1 DEF Places, SentPlaces
<1>10. QED
  BY <1>4, <1>5, <1>6, <1>7, <1>8, <1>9 DEF Places

\* The rights to read and write do not change while no thread moves.
LEMMA StillRights ==
    ASSUME SameUse, UNCHANGED <<pc, own>>, Types
    PROVE  /\ \A c \in Contexts : \A type : InUse(c, type)' <=> InUse(c, type)
           /\ \A w \in Workers : InReceive(w)' <=> InReceive(w)
           /\ \A c \in Contexts : Reading(c)' <=> Reading(c)
           /\ \A c \in Contexts : Writing(c)' <=> Writing(c)
           /\ \A c \in Contexts : Unpopped(c)' <=> Unpopped(c)
<1>1. /\ pc' = pc /\ own' = own /\ Workers \subseteq Threads
      /\ \A s \in Threads : own[s].ctx \in Contexts \cup {NoContext}
  BY TypeFacts
<1>2. \A c \in Contexts : \A type : InUse(c, type)' <=> InUse(c, type)
  BY DEF SameUse, InUse
<1>3. \A w \in Workers : InReceive(w)' <=> InReceive(w)
  BY <1>1 DEF SameUse, InReceive
<1>4. /\ \A c \in Contexts : Reading(c)' <=> Reading(c)
      /\ \A c \in Contexts : Writing(c)' <=> Writing(c)
  BY <1>1, <1>2 DEF Reading, Writing
<1>5. \A c \in Contexts : Unpopped(c)' <=> Unpopped(c)
  BY <1>1, <1>4 DEF Unpopped
<1>6. QED
  BY <1>2, <1>3, <1>4, <1>5

-----------------------------------------------------------------------------
(* The other layers.                                                       *)

LockLabels == {"push", "spin", "submit", "unlock", "elevate"}

\* The lock is kept, taken while nobody has it, or given back.
LEMMA LocksKept ==
    ASSUME Locks, NEW t \in Threads, NEW a, NEW b, Walks(t, a, b),
           \/ lock' = lock /\ (b \in LockLabels => a \in LockLabels)
           \/ lock = NoThread /\ lock' = t
           \/ a \in LockLabels /\ b \notin LockLabels
    PROVE  Locks'
BY TcpSocketAssumption DEF Locks, Walks, LockLabels

\* The promise of a graceful close holds on while nobody asks for a shutdown.
LEMMA PromisesKept ==
    ASSUME Promises, Types, Types',
           socket_handler' = Fd => socket_handler = Fd,
           \A c \in Contexts : contexts'[c].st # "free" =>
               IF contexts[c].st = "free" THEN contexts'[c].fd = socket_handler
                                          ELSE contexts'[c].fd = contexts[c].fd,
           log'.promised = log.promised, log'.forced = log.forced,
           log'.accepted >= log.accepted, Len(log'.wire) >= Len(log.wire),
           log'.closing \/ (\E c \in Contexts : InUse(c, "shutdown")') =>
               log.closing \/ \E c \in Contexts : InUse(c, "shutdown"),
           shutdown_gracefully' = shutdown_gracefully,
           log.failed => log'.failed, log.destroyed => log'.destroyed,
           peer.done => peer'.done
    PROVE  Promises'
<1>1. /\ log.promised \in Seq(Nat) /\ log.accepted \in Nat /\ log'.accepted \in Nat
      /\ Len(log.wire) \in Nat /\ Len(log'.wire) \in Nat
      /\ \A i \in DOMAIN log.promised : log.promised[i] \in Nat
  <2>1. /\ log.promised \in Seq(Nat) /\ log.accepted \in Nat /\ log'.accepted \in Nat
        /\ log.wire \in Seq(Nat) /\ log'.wire \in Seq(Nat)
    BY DEF Types, Log
  <2>2. QED
    BY <2>1, LenProperties, ElementOfSeq
<1>2. socket_handler' = Fd => \A c \in Contexts :
          contexts'[c].st # "free" => contexts'[c].fd = Fd
  BY DEF Promises
<1>3. \A i \in DOMAIN log'.promised : log'.promised[i] <= log'.accepted
  BY <1>1 DEF Promises
<1>4. ~log'.forced /\ (log'.closing \/ shutdown_gracefully'
                                    \/ \E c \in Contexts : InUse(c, "shutdown")') =>
          log'.promised # <<>>
  BY DEF Promises
<1>5. Undisturbed' => Undisturbed
  BY DEF Undisturbed
<1>6. Undisturbed' /\ (log'.closing \/ \E c \in Contexts : InUse(c, "shutdown")') =>
          \A i \in DOMAIN log'.promised : log'.promised[i] <= Len(log'.wire)
  BY <1>1, <1>5 DEF Promises
<1>7. QED
  BY <1>2, <1>3, <1>4, <1>6 DEF Promises

\* Nobody gets to closing the descriptor.
LEMMA ClosesKept ==
    ASSUME Closes, socket_handler' = socket_handler, log'.closed = log.closed /\ log'.overlap = log.overlap,
           \A w \in Workers : pc'[w] \in {"copy", "zero", "closeFd"} =>
               pc[w] = pc'[w] /\ own'[w].fd = own[w].fd,
           \A w \in Workers : pc[w] = "closeFd" => pc'[w] = "closeFd"
    PROVE  Closes'
<1>1. \A w \in Workers : /\ Closing(w)' => Closing(w)
                         /\ pc'[w] \in {"copy", "zero"} => pc[w] = pc'[w]
  BY DEF Closing
<1>2. \A w \in Workers : HasFd(w) => HasFd(w)'
  BY DEF HasFd
<1>3. Closers'
  BY <1>1 DEF Closes, Closers
<1>4. Owed'
  BY <1>2 DEF Closes, Owed
<1>5. Alone => Alone'
  BY <1>1 DEF Alone
<1>6. QED
  BY <1>3, <1>4, <1>5 DEF Closes

\* What the layers need to know of a step that does nothing to the requests and gives
\* nobody a right to read or to write.
LEMMA CalmFacts ==
    ASSUME Types, Places, Calm, NEW t \in Threads, NEW a, NEW b,
           Walks(t, a, b), Proper(t, a, b), Unrelated(t, a, b)
    PROVE  /\ Places'
           /\ pc[t] = a /\ pc'[t] = b /\ \A s \in Threads \ {t} : pc'[s] = pc[s]
           /\ Workers \subseteq Threads
           /\ \A c \in Contexts : contexts'[c] = contexts[c]
           /\ \A c \in Contexts : \A type : InUse(c, type)' <=> InUse(c, type)
           /\ \A w \in Workers : InReceive(w)' <=> InReceive(w)
           /\ \A c \in Contexts : Reading(c)' => Reading(c)
           /\ \A c \in Contexts : Writing(c)' <=> Writing(c)
           /\ \A c \in Contexts : Unpopped(c)' <=> Unpopped(c)
<1>1. Places'
  BY CalmPlaces
<1>2. SameUse /\ SameCtx /\ \A c \in Contexts : contexts'[c] = contexts[c]
  BY DEF Calm, SameUse
<1>3. pc[t] = a /\ pc'[t] = b /\ \A s \in Threads \ {t} : pc'[s] = pc[s]
  BY DEF Walks
<1>4. /\ \A c \in Contexts : \A type : InUse(c, type)' <=> InUse(c, type)
      /\ \A w \in Workers : InReceive(w)' <=> InReceive(w)
      /\ \A c \in Contexts : Reading(c)' => Reading(c)
      /\ \A c \in Contexts : Writing(c)' <=> Writing(c)
      /\ \A c \in Contexts : Unpopped(c)' <=> Unpopped(c)
  BY <1>2, CalmRights
<1>5. Workers \subseteq Threads
  BY DEF Threads
<1>6. QED
  BY <1>1, <1>2, <1>3, <1>4, <1>5

\* Such a step keeps the right to read, when it is no step of io_shutdown.
LEMMA CalmReads ==
    ASSUME Types, Places, Reads, Calm, NEW t \in Threads, NEW a, NEW b,
           Walks(t, a, b), Proper(t, a, b), Unrelated(t, a, b),
           b \in FirstLabels => a \in FirstLabels,
           b \in {"destroyMain", "destroySub", "notify"} =>
               a \in {"destroyMain", "destroySub", "notify"},
           log'.notified = log.notified
    PROVE  Reads'
<1>1. /\ pc[t] = a /\ pc'[t] = b /\ \A s \in Threads \ {t} : pc'[s] = pc[s]
      /\ Workers \subseteq Threads
      /\ \A c \in Contexts : contexts'[c] = contexts[c]
      /\ \A c \in Contexts : \A type : InUse(c, type)' <=> InUse(c, type)
      /\ \A w \in Workers : InReceive(w)' <=> InReceive(w)
      /\ \A c \in Contexts : Reading(c)' => Reading(c)
  BY CalmFacts
<1>2. \A s \in Threads : Activating(s)' => Activating(s)
  BY <1>1 DEF Activating
<1>3. \A w \in Workers : GoingDown(w)' => GoingDown(w)
  BY <1>1 DEF GoingDown
<1>4. \A c \in Contexts : InUse(c, "read")' =>
          InUse(c, "read") /\ contexts'[c].ring = contexts[c].ring
  BY <1>1
<1>5. QED
  BY <1>1, <1>2, <1>3, <1>4, ReadsKept

\* A step that does nothing to requests, buffer and bytes, and that is none of those by
\* which a completion or a new request gets a right to read or to write.
Quiet(t, a, b) ==
    /\ Calm /\ send_buffer' = send_buffer
    /\ LogStep({"sends", "calls", "promised", "overlap", "closed"})
    /\ socket_handler' = Fd => socket_handler = Fd
    /\ \A s \in Threads \ {t} : own'[s].first = own[s].first
    /\ Walks(t, a, b) /\ Proper(t, a, b) /\ Unrelated(t, a, b)
    /\ b \in FirstLabels => a \in FirstLabels
    /\ a \in {"activate", "assign"} <=> b \in {"activate", "assign"}

\* What the layers need to know of a quiet step.
LEMMA QuietFacts ==
    ASSUME IInv, NEW t \in Threads, NEW a, NEW b, Quiet(t, a, b)
    PROVE  /\ Places'
           /\ pc[t] = a /\ pc'[t] = b /\ \A s \in Threads \ {t} : pc'[s] = pc[s]
           /\ Workers \subseteq Threads
           /\ \A c \in Contexts : contexts'[c] = contexts[c]
           /\ \A c \in Contexts : \A type : InUse(c, type)' <=> InUse(c, type)
           /\ \A w \in Workers : InReceive(w)' <=> InReceive(w)
           /\ \A c \in Contexts : Reading(c)' => Reading(c)
           /\ \A c \in Contexts : Writing(c)' <=> Writing(c)
           /\ \A c \in Contexts : Unpopped(c)' <=> Unpopped(c)
<1>1. /\ Types /\ Places /\ Calm
      /\ Walks(t, a, b) /\ Proper(t, a, b) /\ Unrelated(t, a, b)
  BY DEF IInv, Quiet
<1>2. QED
  BY <1>1, CalmFacts

\* A quiet step keeps the layers up to Bytes.
LEMMA QuietKeeps ==
    ASSUME IInv, NEW t \in Threads, NEW a, NEW b, Quiet(t, a, b)
    PROVE  /\ Places'
           /\ b \notin {"destroyMain", "destroySub", "notify"} => Reads'
           /\ b \notin {"push", "submit"} => Writes'
           /\ b \notin {"destroySub", "notify"} => Bytes'
<1>1. /\ Places'
      /\ pc[t] = a /\ pc'[t] = b /\ \A s \in Threads \ {t} : pc'[s] = pc[s]
      /\ Workers \subseteq Threads
      /\ \A c \in Contexts : contexts'[c] = contexts[c]
      /\ \A c \in Contexts : \A type : InUse(c, type)' <=> InUse(c, type)
      /\ \A c \in Contexts : Writing(c)' <=> Writing(c)
      /\ \A c \in Contexts : Unpopped(c)' <=> Unpopped(c)
  BY QuietFacts
<1>2. /\ log'.notified = log.notified /\ log'.accepted = log.accepted
      /\ log'.wire = log.wire /\ log'.destroyed = log.destroyed
      /\ send_buffer' = send_buffer
      /\ socket_handler' = Fd => socket_handler = Fd
  BY DEF Quiet, LogStep, LogFields
<1>3. ASSUME b \notin {"destroyMain", "destroySub", "notify"} PROVE Reads'
  <2>1. /\ Types /\ Places /\ Reads /\ Calm
        /\ Walks(t, a, b) /\ Proper(t, a, b) /\ Unrelated(t, a, b)
        /\ b \in FirstLabels => a \in FirstLabels
    BY DEF IInv, Quiet
  <2>2. QED
    BY <1>2, <1>3, <2>1, CalmReads
<1>4. ASSUME b \notin {"push", "submit"} PROVE Writes'
  <2>1. /\ \A s \in Threads : pc'[s] \in {"activate", "assign"} =>
               pc[s] \in {"activate", "assign"}
        /\ \A s \in Threads : pc'[s] = "push" =>
               pc[s] = "push" /\ own'[s].first = own[s].first
        /\ \A s \in Threads : pc'[s] = "submit" => pc[s] = "submit"
        /\ Writes
    BY <1>1, <1>4 DEF Quiet, IInv
  <2>2. QED
    BY <1>1, <1>2, <2>1, WritesKept
<1>5. ASSUME b \notin {"destroySub", "notify"} PROVE Bytes'
  <2>1. /\ \A w \in Workers : pc'[w] \in {"destroySub", "notify"} =>
               pc[w] \in {"destroySub", "notify"}
        /\ \A s \in Threads : pc[s] \in {"activate", "assign"} =>
               pc'[s] \in {"activate", "assign"}
        /\ Bytes
    BY <1>1, <1>5 DEF Quiet, IInv
  <2>2. QED
    BY <1>1, <1>2, <2>1, BytesKept
<1>6. QED
  BY <1>1, <1>3, <1>4, <1>5

\* A quiet step that is no graceful close keeps what those have promised.
LEMMA QuietPromises ==
    ASSUME IInv, Types', NEW t \in Threads, NEW a, NEW b, Quiet(t, a, b),
           log'.promised = log.promised,
           shutdown_gracefully' = shutdown_gracefully, peer' = peer
    PROVE  Promises'
<1>1. /\ \A c \in Contexts : contexts'[c] = contexts[c]
      /\ \A c \in Contexts : \A type : InUse(c, type)' <=> InUse(c, type)
  BY QuietFacts
<1>2. /\ log'.accepted = log.accepted /\ log'.wire = log.wire
      /\ log'.forced = log.forced /\ log'.closing = log.closing
      /\ log'.failed = log.failed /\ log'.destroyed = log.destroyed
      /\ socket_handler' = Fd => socket_handler = Fd
  BY DEF Quiet, LogStep, LogFields
<1>3. log.accepted \in Nat /\ Len(log.wire) \in Nat
  <2>1. log.accepted \in Nat /\ log.wire \in Seq(Nat)
    BY DEF IInv, Types, Log
  <2>2. QED
    BY <2>1, LenProperties
<1>4. /\ log'.accepted >= log.accepted /\ Len(log'.wire) >= Len(log.wire)
      /\ \A c \in Contexts : contexts'[c].st # "free" =>
             IF contexts[c].st = "free" THEN contexts'[c].fd = socket_handler
                                        ELSE contexts'[c].fd = contexts[c].fd
      /\ log'.closing \/ (\E c \in Contexts : InUse(c, "shutdown")') =>
             log.closing \/ \E c \in Contexts : InUse(c, "shutdown")
      /\ Promises /\ Types
  BY <1>1, <1>2, <1>3 DEF IInv
<1>5. QED
  BY <1>2, <1>4, PromisesKept

\* A quiet step that is none of the shutdown completion keeps the descriptor's state.
LEMMA QuietCloses ==
    ASSUME IInv, NEW t \in Threads, NEW a, NEW b, Quiet(t, a, b),
           socket_handler' = socket_handler, log'.closed = log.closed /\ log'.overlap = log.overlap,
           b \notin ShutLabels, a # "closeFd",
           \A s \in Threads \ {t} : own'[s] = own[s]
    PROVE  Closes'
<1>1. /\ pc[t] = a /\ pc'[t] = b /\ \A s \in Threads \ {t} : pc'[s] = pc[s]
      /\ Workers \subseteq Threads
  BY QuietFacts
<1>2. /\ \A w \in Workers : pc'[w] \in {"copy", "zero", "closeFd"} =>
             pc[w] = pc'[w] /\ own'[w].fd = own[w].fd
      /\ \A w \in Workers : pc[w] = "closeFd" => pc'[w] = "closeFd"
      /\ Closes
  BY <1>1 DEF IInv, ShutLabels
<1>3. QED
  BY <1>2, ClosesKept

-----------------------------------------------------------------------------
(* Each action keeps the inductive invariant.  First those that are quiet. *)

\* on_active sets the flag (tcp_socket.cpp:260-261).
LEMMA ActivateFlagKeeps ==
    ASSUME IInv, NEW t \in Threads, ActivateFlag(t)
    PROVE  IInv'
<1>1. Types'
  BY DEF IInv, Types, TypeOK, ActivateFlag, Goto, Labels
<1>2. Walks(t, "activate", "assign")
  BY GotoWalks DEF IInv, ActivateFlag
<1>3. Quiet(t, "activate", "assign")
  BY <1>1, <1>2 DEF ActivateFlag, Types, Quiet, Calm, SameCtx, LogStep, Proper, Unrelated,
                    ReadLabels, WriteLabels, ShutLabels, FirstLabels
<1>4. Locks'
  BY <1>2, LocksKept DEF IInv, ActivateFlag, LockLabels
<1>5. Promises'
  BY <1>1, <1>3, QuietPromises DEF ActivateFlag
<1>6. Closes'
  BY <1>3, QuietCloses DEF ActivateFlag, ShutLabels
<1>7. QED
  BY <1>1, <1>3, <1>4, <1>5, <1>6, QuietKeeps DEF IInv

\* send() counts its call and goes on (tcp_socket.cpp:245-247).
LEMMA SendChecksKeeps ==
    ASSUME IInv, NEW t \in Threads, SendChecks(t)
    PROVE  IInv'
<1>1. log \in Log /\ log.sends + 1 \in Nat /\ log' = [log EXCEPT !.sends = log.sends + 1]
  BY DEF IInv, Types, Log, SendChecks
<1>2. LogStep({"sends"})
  BY <1>1 DEF LogStep, LogFields, Log
<1>3. Types'
  BY <1>2 DEF IInv, Types, TypeOK, SendChecks, Goto, Labels, LogStep, sockvars
<1>4. PICK a \in {"idle", "callback"} : Walks(t, a, "send")
  BY GotoWalks DEF IInv, SendChecks, InUserCode
<1>5. a = "callback" \/ t \notin Workers
  BY <1>4 DEF IInv, Places, LabelPlaces, Walks
<1>6. Quiet(t, a, "send")
  BY <1>2, <1>4, <1>5 DEF SendChecks, sockvars, Quiet, Calm, SameCtx, LogStep, Proper,
                          Unrelated, ReadLabels, WriteLabels, ShutLabels, FirstLabels
<1>7. Locks'
  BY <1>4, LocksKept DEF IInv, SendChecks, LockLabels
<1>8. log'.promised = log.promised /\ log'.closed = log.closed /\ log'.overlap = log.overlap
  BY <1>2 DEF LogStep, LogFields
<1>9. Promises'
  BY <1>3, <1>6, <1>8, QuietPromises DEF SendChecks, sockvars
<1>10. Closes'
  BY <1>6, <1>8, QuietCloses DEF SendChecks, sockvars, ShutLabels
<1>11. QED
  BY <1>3, <1>6, <1>7, <1>9, <1>10, QuietKeeps DEF IInv

\* The loop of io_buffer::push never ends (io_buffer.cpp:78-85).
LEMMA SendSpinsKeeps ==
    ASSUME IInv, NEW t \in Threads, SendSpins(t)
    PROVE  IInv'
<1>1. Types'
  BY DEF IInv, Types, TypeOK, SendSpins, Goto, Labels, sockvars
<1>2. Walks(t, "push", "spin")
  BY GotoWalks DEF IInv, SendSpins
<1>3. Quiet(t, "push", "spin")
  BY <1>1, <1>2 DEF SendSpins, sockvars, Types, Quiet, Calm, SameCtx, LogStep, Proper,
                    Unrelated, ReadLabels, WriteLabels, ShutLabels, FirstLabels
<1>4. Locks'
  BY <1>2, LocksKept DEF IInv, SendSpins, LockLabels
<1>5. Promises'
  BY <1>1, <1>3, QuietPromises DEF SendSpins, sockvars
<1>6. Closes'
  BY <1>3, QuietCloses DEF SendSpins, sockvars, ShutLabels
<1>7. QED
  BY <1>1, <1>3, <1>4, <1>5, <1>6, QuietKeeps DEF IInv

\* The end of the critical section (thread_lock.cpp:33-35).
LEMMA UnlocksKeeps ==
    ASSUME IInv, NEW t \in Threads, Unlocks(t)
    PROVE  IInv'
<1>1. Types'
  BY DEF IInv, Types, TypeOK, Unlocks, Goto, Home, Labels, sockvars
<1> DEFINE b == Home(t)
<1>2. Walks(t, "unlock", b)
  BY GotoWalks DEF IInv, Unlocks
<1>3. IF t \in Workers THEN b = "finish" ELSE b = "idle"
  BY DEF Home
<1> HIDE DEF b
<1>4. Quiet(t, "unlock", b)
  BY <1>1, <1>2, <1>3 DEF Unlocks, sockvars, Types, Quiet, Calm, SameCtx, LogStep, Proper,
                    Unrelated, ReadLabels, WriteLabels, ShutLabels, FirstLabels
<1>5. Locks'
  BY <1>2, <1>3, LocksKept DEF IInv, LockLabels
<1>6. Promises'
  BY <1>1, <1>4, QuietPromises DEF Unlocks, sockvars
<1>7. Closes'
  BY <1>3, <1>4, QuietCloses DEF Unlocks, sockvars, ShutLabels
<1>8. QED
  BY <1>1, <1>3, <1>4, <1>5, <1>6, <1>7, QuietKeeps DEF IInv

\* close( graceful ) is called (socket_object.cpp:73-74).
LEMMA CloseGracefulKeeps ==
    ASSUME IInv, NEW t \in Threads, CloseGraceful(t)
    PROVE  IInv'
<1>1. log \in Log /\ log.calls + 1 \in Nat /\ log' = [log EXCEPT !.calls = log.calls + 1]
  BY DEF IInv, Types, Log, CloseGraceful
<1>2. LogStep({"calls"})
  BY <1>1 DEF LogStep, LogFields, Log
<1>3. Types'
  BY <1>2 DEF IInv, Types, TypeOK, CloseGraceful, Goto, Labels, LogStep, sockvars
<1>4. PICK a \in {"idle", "callback"} : Walks(t, a, "close")
  BY GotoWalks DEF IInv, CloseGraceful, InUserCode
<1>5. a = "callback" \/ t \notin Workers
  BY <1>4 DEF IInv, Places, LabelPlaces, Walks
<1>6. Quiet(t, a, "close")
  BY <1>2, <1>4, <1>5 DEF CloseGraceful, sockvars, Quiet, Calm, SameCtx, LogStep, Proper,
                          Unrelated, ReadLabels, WriteLabels, ShutLabels, FirstLabels
<1>7. Locks'
  BY <1>4, LocksKept DEF IInv, CloseGraceful, LockLabels
<1>8. log'.promised = log.promised /\ log'.closed = log.closed /\ log'.overlap = log.overlap
  BY <1>2 DEF LogStep, LogFields
<1>9. Promises'
  BY <1>3, <1>6, <1>8, QuietPromises DEF CloseGraceful, sockvars
<1>10. Closes'
  BY <1>6, <1>8, QuietCloses DEF CloseGraceful, sockvars, ShutLabels
<1>11. QED
  BY <1>3, <1>6, <1>7, <1>9, <1>10, QuietKeeps DEF IInv

\* recv_event returns (socket_object.cpp:92-94).
LEMMA CallbackReturnsKeeps ==
    ASSUME IInv, NEW w \in Workers, CallbackReturns(w)
    PROVE  IInv'
<1>0. w \in Threads
  BY DEF Threads
<1>1. Types'
  BY <1>0 DEF IInv, Types, TypeOK, CallbackReturns, Goto, Labels, sockvars
<1>2. Walks(w, "callback", "finish")
  BY <1>0, GotoWalks DEF IInv, CallbackReturns
<1>3. Quiet(w, "callback", "finish")
  BY <1>1, <1>2 DEF CallbackReturns, sockvars, Types, Quiet, Calm, SameCtx, LogStep, Proper,
                    Unrelated, ReadLabels, WriteLabels, ShutLabels, FirstLabels
<1>4. Locks'
  BY <1>0, <1>2, LocksKept DEF IInv, CallbackReturns, LockLabels
<1>5. Promises'
  BY <1>0, <1>1, <1>3, QuietPromises DEF CallbackReturns, sockvars
<1>6. Closes'
  BY <1>0, <1>3, QuietCloses DEF CallbackReturns, sockvars, ShutLabels
<1>7. QED
  BY <1>0, <1>1, <1>3, <1>4, <1>5, <1>6, QuietKeeps DEF IInv

\* close( graceful ) that has to wait leaves the flag for on_send_complete
\* (socket_object.cpp:77-79).
LEMMA CloseLaterKeeps ==
    ASSUME IInv, NEW t \in Threads, CloseLater(t)
    PROVE  IInv'
<1>1. /\ log \in Log /\ Promise \in Seq(Nat)
      /\ log' = [log EXCEPT !.promised = Promise]
      /\ log.accepted \in Nat /\ log.promised \in Seq(Nat)
  BY DEF IInv, Types, Log, CloseLater, Promise
<1>2. LogStep({"promised"}) /\ log'.promised = Promise
  BY <1>1 DEF LogStep, LogFields, Log
<1>3. Types'
  BY <1>2 DEF IInv, Types, TypeOK, CloseLater, Goto, Labels, LogStep
<1>4. Walks(t, "close", "unlock")
  BY GotoWalks DEF IInv, CloseLater
<1>5. Quiet(t, "close", "unlock")
  BY <1>2, <1>4 DEF CloseLater, Quiet, Calm, SameCtx, LogStep, Proper, Unrelated,
                    ReadLabels, WriteLabels, ShutLabels, FirstLabels
<1>6. Locks'
  BY <1>4, LocksKept DEF IInv, CloseLater, LockLabels
<1>7. /\ log'.closed = log.closed /\ log'.overlap = log.overlap /\ log'.accepted = log.accepted /\ log'.wire = log.wire
      /\ log'.forced = log.forced /\ log'.closing = log.closing
      /\ log'.failed = log.failed /\ log'.destroyed = log.destroyed
  BY <1>2 DEF LogStep, LogFields
<1>8. Promises'
  <2>1. Promise # <<>> /\ \A i \in DOMAIN Promise : Promise[i] <= log.accepted
    BY <1>1 DEF IInv, Promises, Promise
  <2>2. log.promised # <<>> => Promise = log.promised
    BY DEF Promise
  <2>3. /\ ~log.forced /\ (log.closing \/ \E c \in Contexts : InUse(c, "shutdown")) =>
               log.promised # <<>>
        /\ Undisturbed /\ (log.closing \/ \E c \in Contexts : InUse(c, "shutdown")) =>
               \A i \in DOMAIN log.promised : log.promised[i] <= Len(log.wire)
        /\ socket_handler = Fd => \A c \in Contexts :
               contexts[c].st # "free" => contexts[c].fd = Fd
    BY DEF IInv, Promises
  <2>4. Undisturbed' <=> Undisturbed
    BY <1>7 DEF Undisturbed, CloseLater
  <2>5. /\ contexts' = contexts /\ socket_handler' = socket_handler
        /\ \A c \in Contexts : InUse(c, "shutdown")' <=> InUse(c, "shutdown")
    BY <1>5, QuietFacts DEF CloseLater
  <2>6. Undisturbed => ~log.forced
    BY DEF Undisturbed
  <2>7. QED
    BY <1>2, <1>7, <2>1, <2>2, <2>3, <2>4, <2>5, <2>6 DEF Promises
<1>9. Closes'
  BY <1>5, <1>7, QuietCloses DEF CloseLater, ShutLabels
<1>10. QED
  BY <1>3, <1>5, <1>6, <1>8, <1>9, QuietKeeps DEF IInv

\* The shutdown completion looks at the descriptor (io_service.cpp:437-439).
LEMMA ShutChecksKeeps ==
    ASSUME IInv, NEW w \in Workers, ShutChecks(w)
    PROVE  IInv'
<1> DEFINE b == IF socket_handler # 0 THEN "copy" ELSE "finish"
           meets == log.overlap \/ \E v \in Workers : pc[v] \in {"copy", "zero"}
<1>0. w \in Threads /\ Workers \subseteq Threads
  BY DEF Threads
<1>1. /\ At(w, "check") /\ Goto(w, b)
      /\ IF socket_handler # 0 THEN log' = [log EXCEPT !.overlap = meets] ELSE log' = log
      /\ UNCHANGED <<sockvars, lock, own, staged, contexts, cq, file, peer>>
      /\ socket_handler \in {Stdin, Fd} /\ log \in Log
  BY DEF IInv, Types, TypeOK, ShutChecks, Stdin
<1>2. meets \in BOOLEAN
  BY <1>1 DEF Log
<1> HIDE DEF meets
<1>3. /\ LogStep({"overlap"})
      /\ socket_handler # 0 => log'.overlap = meets
      /\ socket_handler = 0 => log'.overlap = log.overlap
  BY <1>1, <1>2 DEF LogStep, LogFields, Log
<1>4. Types'
  BY <1>0, <1>1, <1>3 DEF IInv, Types, TypeOK, Goto, Labels, sockvars, LogStep
<1>5. Walks(w, "check", b)
  BY <1>0, <1>1, GotoWalks DEF IInv
<1>6. Quiet(w, "check", b)
  BY <1>1, <1>3, <1>5 DEF sockvars, Quiet, Calm, SameCtx, LogStep, Proper,
                    Unrelated, ReadLabels, WriteLabels, ShutLabels, FirstLabels
<1>7. Locks'
  BY <1>0, <1>1, <1>5, LocksKept DEF IInv, LockLabels
<1>8. log'.promised = log.promised /\ log'.closed = log.closed
  BY <1>3 DEF LogStep, LogFields
<1>9. Promises'
  BY <1>0, <1>1, <1>4, <1>6, <1>8, QuietPromises DEF sockvars
<1>10. Closes'
  <2>1. /\ pc[w] = "check" /\ pc'[w] = b /\ \A v \in Workers \ {w} : pc'[v] = pc[v]
        /\ own' = own /\ socket_handler' = socket_handler
    BY <1>0, <1>1, <1>5 DEF Walks, sockvars
  <2>2. CASE socket_handler = 0
    <3>1. /\ \A v \in Workers : pc'[v] \in {"copy", "zero", "closeFd"} =>
                 pc[v] = pc'[v] /\ own'[v].fd = own[v].fd
          /\ \A v \in Workers : pc[v] = "closeFd" => pc'[v] = "closeFd"
          /\ log'.overlap = log.overlap /\ Closes
      BY <1>3, <2>1, <2>2 DEF IInv
    <3>2. QED
      BY <1>8, <2>1, <3>1, ClosesKept
  <2>3. CASE socket_handler # 0
    <3>1. /\ socket_handler = Fd /\ log.closed = <<>> /\ Len(log.closed) = 0
          /\ Closers /\ Owed /\ (~log.overlap => Alone)
      BY <1>1, <2>3 DEF IInv, Closes, Owed, Stdin
    <3>2. pc'[w] = "copy"
      BY <2>1, <2>3
    <3>3. Closers'
      BY <1>8, <3>1 DEF Closers
    <3>4. Owed'
      BY <1>8, <2>1, <3>1, <3>2 DEF Owed
    <3>5. ASSUME ~log'.overlap PROVE Alone'
      <4>1. ~log.overlap /\ \A v \in Workers : pc[v] \notin {"copy", "zero"}
        BY <1>3, <2>3, <3>5 DEF meets
      <4>2. \A v \in Workers \ {w} : ~Closing(v)'
        BY <2>1, <3>1, <4>1 DEF Closing, Owed
      <4>3. \A u, v \in Workers : Closing(u)' /\ Closing(v)' => u = v
        BY <4>2
      <4>4. \A v \in Workers : pc'[v] # "closeFd"
        BY <2>1, <3>1, <3>2 DEF Owed
      <4>5. log'.closed = <<>> /\ Len(log'.closed) = 0 /\ socket_handler' = Fd
        BY <1>8, <2>1, <3>1
      <4>6. QED
        BY <4>3, <4>4, <4>5 DEF Alone
    <3>6. QED
      BY <3>3, <3>4, <3>5 DEF Closes
  <2>4. QED
    BY <2>2, <2>3
<1>11. QED
  BY <1>0, <1>4, <1>6, <1>7, <1>9, <1>10, QuietKeeps DEF IInv

\* It copies the descriptor (io_service.cpp:440).
LEMMA ShutCopiesKeeps ==
    ASSUME IInv, NEW w \in Workers, ShutCopies(w)
    PROVE  IInv'
<1>0. w \in Threads
  BY DEF Threads
<1>1. /\ own' \in [Threads -> Own] /\ own'[w].fd = socket_handler
      /\ \A s \in Threads : own'[s].ctx = own[s].ctx /\ own'[s].first = own[s].first
      /\ \A s \in Threads \ {w} : own'[s] = own[s]
  <2>1. socket_handler \in {Stdin, Fd} /\ own' = [own EXCEPT ![w].fd = socket_handler]
    BY DEF IInv, Types, TypeOK, ShutCopies
  <2>2. QED
    BY <1>0, <2>1, OwnFd DEF IInv
<1>2. Types'
  BY <1>0, <1>1 DEF IInv, Types, TypeOK, Own, ShutCopies, Goto, Labels, sockvars
<1>3. Walks(w, "copy", "zero")
  BY <1>0, GotoWalks DEF IInv, ShutCopies
<1>4. Quiet(w, "copy", "zero")
  BY <1>1, <1>2, <1>3 DEF ShutCopies, sockvars, Types, Quiet, Calm, SameCtx, LogStep, Proper,
                    Unrelated, ReadLabels, WriteLabels, ShutLabels, FirstLabels
<1>5. Locks'
  BY <1>0, <1>3, LocksKept DEF IInv, ShutCopies, LockLabels
<1>6. Promises'
  BY <1>0, <1>2, <1>4, QuietPromises DEF ShutCopies, sockvars
<1>7. Closes'
  <2>1. /\ pc[w] = "copy" /\ pc'[w] = "zero" /\ own'[w].fd = socket_handler
        /\ \A v \in Workers \ {w} : pc'[v] = pc[v] /\ own'[v] = own[v]
        /\ socket_handler' = socket_handler /\ log' = log
        /\ Closers /\ Owed /\ (~log.overlap => Alone)
    BY <1>0, <1>1, <1>3 DEF IInv, Closes, ShutCopies, sockvars, Walks, Threads
  <2>2. \A v \in Workers : (Closing(v)' <=> Closing(v)) /\ (HasFd(v)' <=> HasFd(v))
    BY <2>1 DEF Closing, HasFd
  <2>3. Closers'
    BY <2>1, <2>2 DEF Closers
  <2>4. Owed'
    BY <2>1, <2>2 DEF Owed
  <2>5. Alone => Alone'
    BY <2>1, <2>2 DEF Alone
  <2>6. QED
    BY <2>1, <2>3, <2>4, <2>5 DEF Closes
<1>8. QED
  BY <1>0, <1>2, <1>4, <1>5, <1>6, <1>7, QuietKeeps DEF IInv

\* It zeroes the member (io_service.cpp:441).
LEMMA ShutZeroesKeeps ==
    ASSUME IInv, NEW w \in Workers, ShutZeroes(w)
    PROVE  IInv'
<1>0. w \in Threads
  BY DEF Threads
<1>1. Types'
  BY <1>0 DEF IInv, Types, TypeOK, ShutZeroes, Goto, Labels, Stdin
<1>2. Walks(w, "zero", "closeFd")
  BY <1>0, GotoWalks DEF IInv, ShutZeroes
<1>3. Quiet(w, "zero", "closeFd")
  BY <1>1, <1>2 DEF ShutZeroes, Types, Quiet, Calm, SameCtx, LogStep, Proper, Fd,
                    Unrelated, ReadLabels, WriteLabels, ShutLabels, FirstLabels
<1>4. Locks'
  BY <1>0, <1>2, LocksKept DEF IInv, ShutZeroes, LockLabels
<1>5. Promises'
  BY <1>0, <1>1, <1>3, QuietPromises DEF ShutZeroes
<1>6. Closes'
  <2>1. /\ pc[w] = "zero" /\ pc'[w] = "closeFd"
        /\ \A v \in Workers \ {w} : pc'[v] = pc[v]
        /\ socket_handler' = Stdin /\ own' = own /\ log' = log
        /\ Closers /\ Owed /\ (~log.overlap => Alone)
    BY <1>0, <1>2 DEF IInv, Closes, ShutZeroes, Walks, Threads, Stdin
  <2>2. \A v \in Workers : (Closing(v)' <=> Closing(v)) /\ (HasFd(v) => HasFd(v)')
    BY <2>1 DEF Closing, HasFd
  <2>3. Closers'
    BY <2>1, <2>2 DEF Closers
  <2>4. Owed'
    <3>1. CASE socket_handler = Fd
      BY <2>1, <3>1 DEF Owed, HasFd, Fd, Stdin
    <3>2. CASE socket_handler # Fd
      BY <2>1, <2>2, <3>2 DEF Owed, Fd, Stdin
    <3>3. QED
      BY <3>1, <3>2
  <2>5. Alone => Alone'
    <3>1. Alone => \A v \in Workers : pc'[v] \in {"copy", "zero"} => Closing(v) /\ v # w
      BY <2>1 DEF Closing
    <3>2. Alone => \A v \in Workers : pc'[v] \notin {"copy", "zero"}
      BY <2>1, <3>1 DEF Alone, Closing
    <3>3. Alone /\ socket_handler = Fd => own[w].fd = Fd
      BY <2>1 DEF Owed
    <3>4. Alone => \A v \in Workers : pc'[v] = "closeFd" => own'[v].fd = Fd
      BY <2>1, <3>3 DEF Alone
    <3>5. QED
      BY <2>1, <2>2, <3>2, <3>4 DEF Alone
  <2>6. QED
    BY <2>1, <2>3, <2>4, <2>5 DEF Closes
<1>7. QED
  BY <1>0, <1>1, <1>3, <1>4, <1>5, <1>6, QuietKeeps DEF IInv

\* It closes the copy (io_service.cpp:443-445).
LEMMA ShutClosesKeeps ==
    ASSUME IInv, NEW w \in Workers, ShutCloses(w)
    PROVE  IInv'
<1> DEFINE x == [by |-> w, fd |-> own[w].fd]
<1>0. w \in Threads
  BY DEF Threads
<1>1. /\ log \in Log /\ own[w].fd \in {Stdin, Fd}
      /\ log.closed \in Seq([by : Workers, fd : {Stdin, Fd}])
      /\ log' = [log EXCEPT !.closed = Append(log.closed, x)]
  BY <1>0 DEF IInv, Types, TypeOK, Log, ShutCloses
<1>2. LogStep({"closed"}) /\ log'.closed = Append(log.closed, x)
  <2>1. Append(log.closed, x) \in Seq([by : Workers, fd : {Stdin, Fd}])
    BY <1>1, AppendProperties
  <2>2. QED
    BY <1>1, <2>1 DEF LogStep, LogFields, Log
<1>3. Types'
  <2>1. file' \in File
    BY DEF IInv, Types, File, ShutCloses
  <2>2. QED
    BY <1>0, <1>2, <2>1 DEF IInv, Types, TypeOK, ShutCloses, Goto, Labels, LogStep, sockvars
<1>4. Walks(w, "closeFd", "finish")
  BY <1>0, GotoWalks DEF IInv, ShutCloses
<1>5. Quiet(w, "closeFd", "finish")
  BY <1>2, <1>4 DEF ShutCloses, sockvars, Types, Quiet, Calm, SameCtx, LogStep, Proper,
                    Unrelated, ReadLabels, WriteLabels, ShutLabels, FirstLabels
<1>6. Locks'
  BY <1>0, <1>4, LocksKept DEF IInv, ShutCloses, LockLabels
<1>7. Promises'
  <2>1. log'.promised = log.promised
    BY <1>2 DEF LogStep, LogFields
  <2>2. QED
    BY <1>0, <1>3, <1>5, <2>1, QuietPromises DEF ShutCloses, sockvars
<1>8. Closes'
  <2> DEFINE n == Len(log.closed)
  <2>1. /\ pc[w] = "closeFd" /\ pc'[w] = "finish"
        /\ \A v \in Workers \ {w} : pc'[v] = pc[v]
        /\ socket_handler' = socket_handler /\ own' = own
        /\ Closers /\ Owed /\ (~log.overlap => Alone)
    BY <1>0, <1>4 DEF IInv, Closes, ShutCloses, sockvars, Walks, Threads
  <2>2. /\ n \in Nat /\ Len(log'.closed) = n + 1 /\ log'.closed[n + 1] = x
        /\ \A i \in 1..n : log'.closed[i] = log.closed[i]
        /\ log'.overlap = log.overlap
        /\ log.closed = <<>> => n = 0
    <3>1. n \in Nat
      BY <1>1, LenProperties
    <3>2. log'.overlap = log.overlap
      BY <1>2 DEF LogStep, LogFields
    <3>3. QED
      BY <1>1, <1>2, <3>1, <3>2, AppendProperties
  <2>3. x.by = w /\ x.fd = own[w].fd
    OBVIOUS
  <2> HIDE DEF x, n
  <2>4. \A i \in 1..(n + 1) : i \in 1..n \/ i = n + 1
    BY <2>2
  <2>5. \A v \in Workers : /\ Closing(v)' <=> Closing(v) /\ v # w
                           /\ HasFd(v) /\ v # w => HasFd(v)'
    BY <2>1 DEF Closing, HasFd
  <2>6. Closers'
    <3>1. \A i \in 1..n : log.closed[i].by # w
      BY <2>1 DEF Closers, Closing, n
    <3>2. \A i, j \in 1..(n + 1) : log'.closed[i].by = log'.closed[j].by => i = j
      <4>1. ASSUME NEW i \in 1..(n + 1), NEW j \in 1..(n + 1),
                   log'.closed[i].by = log'.closed[j].by
            PROVE  i = j
        <5>1. CASE i \in 1..n /\ j \in 1..n
          BY <2>1, <2>2, <4>1, <5>1 DEF Closers, n
        <5>2. CASE i = n + 1 /\ j \in 1..n
          BY <2>2, <2>3, <3>1, <4>1, <5>2
        <5>3. CASE i \in 1..n /\ j = n + 1
          BY <2>2, <2>3, <3>1, <4>1, <5>3
        <5>4. QED
          BY <2>4, <5>1, <5>2, <5>3
      <4>2. QED
        BY <4>1
    <3>3. \A v \in Workers : Closing(v)' => \A i \in 1..(n + 1) : log'.closed[i].by # v
      BY <2>1, <2>2, <2>3, <2>4, <2>5 DEF Closers, n
    <3>4. QED
      BY <2>2, <3>2, <3>3 DEF Closers
  <2>7. Owed'
    <3>1. socket_handler # Fd
      BY <2>1 DEF Owed
    <3>2. n + 1 \in 1..(n + 1) /\ \A i \in 1..n : i \in 1..(n + 1)
      BY <2>2
    <3>3. CASE own[w].fd = Fd
      BY <2>1, <2>2, <2>3, <3>1, <3>2, <3>3 DEF Owed
    <3>4. CASE own[w].fd # Fd
      <4>1. ~HasFd(w)
        BY <3>4 DEF HasFd
      <4>2. \/ \E v \in Workers : HasFd(v) /\ v # w
            \/ \E i \in 1..n : log.closed[i].fd = Fd
        BY <2>1, <3>1, <4>1 DEF Owed, n
      <4>3. \/ \E v \in Workers : HasFd(v)'
            \/ \E i \in 1..(n + 1) : log'.closed[i].fd = Fd
        BY <2>2, <2>5, <3>2, <4>2
      <4>4. QED
        BY <2>1, <2>2, <3>1, <4>3 DEF Owed
    <3>5. QED
      BY <3>3, <3>4
  <2>8. Alone => Alone'
    <3>1. SUFFICES ASSUME Alone PROVE Alone'
      OBVIOUS
    <3>2. n = 0 /\ own[w].fd = Fd
      BY <2>1, <2>2, <3>1 DEF Alone, Closing
    <3>3. \A v \in Workers : ~Closing(v)'
      BY <2>1, <2>5, <3>1 DEF Alone, Closing
    <3>4. \A v \in Workers : pc'[v] \notin {"copy", "zero", "closeFd"}
      BY <3>3 DEF Closing
    <3>5. Len(log'.closed) = 1 /\ log'.closed[1].fd = Fd
      BY <2>2, <2>3, <3>2
    <3>6. QED
      BY <3>3, <3>4, <3>5 DEF Alone
  <2>9. QED
    BY <2>1, <2>2, <2>6, <2>7, <2>8 DEF Closes
<1>9. QED
  BY <1>0, <1>3, <1>5, <1>6, <1>7, <1>8, QuietKeeps DEF IInv

-----------------------------------------------------------------------------
(* The steps that touch the buffer, and those around them.                 *)

\* While nobody has the lock, the write under way has not been popped, and no thread is
\* between two steps of send() or io_sent.
LEMMA LockFree ==
    ASSUME IInv, lock = NoThread
    PROVE  /\ \A t \in Threads : pc[t] \notin LockLabels
           /\ \A c \in Contexts : Writing(c) => Unpopped(c)
<1>1. \A t \in Threads : pc[t] \notin LockLabels
  BY TcpSocketAssumption DEF IInv, Locks, LockLabels
<1>2. \A w \in Workers : pc[w] # "elevate"
  BY <1>1 DEF LockLabels, Threads
<1>3. QED
  BY <1>1, <1>2 DEF Unpopped

\* Only the thread that has the lock is between two steps of send() or io_sent.
LEMMA LockHeld ==
    ASSUME IInv, NEW t \in Threads, pc[t] \in LockLabels
    PROVE  \A s \in Threads \ {t} : pc[s] \notin LockLabels
BY DEF IInv, Locks, LockLabels

\* send() takes the lock and looks whether the buffer is empty (tcp_socket.cpp:249-250).
LEMMA SendLocksKeeps ==
    ASSUME IInv, NEW t \in Threads, SendLocks(t)
    PROVE  IInv'
<1>1. /\ own' \in [Threads -> Own] /\ own'[t].first = DEmpty(send_buffer)
      /\ \A s \in Threads : own'[s].ctx = own[s].ctx /\ own'[s].fd = own[s].fd
      /\ \A s \in Threads \ {t} : own'[s] = own[s]
  <2>1. /\ DEmpty(send_buffer) \in BOOLEAN
        /\ own' = [own EXCEPT ![t].first = DEmpty(send_buffer)]
    BY DEF SendLocks, DEmpty
  <2>2. QED
    BY <2>1, OwnFirst DEF IInv
<1>2. Types'
  BY <1>1 DEF IInv, Types, TypeOK, Own, SendLocks, Goto, Labels, sockvars
<1>3. Walks(t, "send", "push")
  BY GotoWalks DEF IInv, SendLocks
<1>4. Quiet(t, "send", "push")
  BY <1>1, <1>2, <1>3 DEF SendLocks, sockvars, Types, Quiet, Calm, SameCtx, LogStep, Proper,
                    Unrelated, ReadLabels, WriteLabels, ShutLabels, FirstLabels
<1>5. Locks'
  BY <1>3, LocksKept DEF IInv, SendLocks, LockLabels
<1>6. Promises'
  BY <1>2, <1>4, QuietPromises DEF SendLocks, sockvars
<1>7. Closes'
  BY <1>1, <1>4, QuietCloses DEF SendLocks, sockvars, ShutLabels
<1>8. Writes'
  <2>1. /\ pc[t] = "send" /\ pc'[t] = "push" /\ \A s \in Threads \ {t} : pc'[s] = pc[s]
        /\ \A c \in Contexts : \A type : InUse(c, type)' <=> InUse(c, type)
        /\ \A c \in Contexts : Writing(c)' <=> Writing(c)
        /\ \A c \in Contexts : Unpopped(c)' <=> Unpopped(c)
    BY <1>4, QuietFacts
  <2>2. /\ \A s \in Threads : pc[s] \notin LockLabels
        /\ \A c \in Contexts : Writing(c) => Unpopped(c)
        /\ send_buffer' = send_buffer /\ main' = main /\ sub' = sub
    BY LockFree DEF SendLocks, sockvars, main, sub
  <2>3. \A s \in Threads \ {t} : pc'[s] \notin {"push", "submit"}
    BY <2>1, <2>2 DEF LockLabels
  <2>4. WriteRight'
    <3>1. DEmpty(send_buffer) => main = NoBuffer \/ \A c \in Contexts : ~Writing(c)
      BY <2>2 DEF IInv, Writes, WriteRight, Filled, DEmpty, main
    <3>2. QED
      BY <1>1, <2>1, <2>2, <2>3, <3>1 DEF IInv, Writes, WriteRight, Filled
  <2>5. WriteFirst'
    BY <2>1, <2>2, <2>3 DEF IInv, Writes, WriteFirst
  <2>6. QED
    BY <2>2, <2>4, <2>5 DEF IInv, Writes
<1>9. QED
  BY <1>2, <1>4, <1>5, <1>6, <1>7, <1>8, QuietKeeps DEF IInv

\* on_shutdown clears the flag: the end of the reads (tcp_socket.cpp:281-282).
LEMMA DownFlagKeeps ==
    ASSUME IInv, NEW w \in Workers, DownFlag(w)
    PROVE  IInv'
<1>0. w \in Threads
  BY DEF Threads
<1>1. Types'
  BY <1>0 DEF IInv, Types, TypeOK, DownFlag, Goto, Labels
<1>2. Walks(w, "flag", "destroyMain")
  BY <1>0, GotoWalks DEF IInv, DownFlag
<1>3. Quiet(w, "flag", "destroyMain")
  BY <1>1, <1>2 DEF DownFlag, Types, Quiet, Calm, SameCtx, LogStep, Proper,
                    Unrelated, ReadLabels, WriteLabels, ShutLabels, FirstLabels
<1>4. Locks'
  BY <1>0, <1>2, LocksKept DEF IInv, DownFlag, LockLabels
<1>5. Promises'
  BY <1>0, <1>1, <1>3, QuietPromises DEF DownFlag
<1>6. Closes'
  BY <1>0, <1>3, QuietCloses DEF DownFlag, ShutLabels
<1>7. Reads'
  <2>1. /\ pc[w] = "flag" /\ pc'[w] = "destroyMain"
        /\ \A s \in Threads \ {w} : pc'[s] = pc[s]
        /\ Workers \subseteq Threads
        /\ \A c \in Contexts : contexts'[c] = contexts[c]
        /\ \A c \in Contexts : \A type : InUse(c, type)' <=> InUse(c, type)
        /\ \A v \in Workers : InReceive(v)' <=> InReceive(v)
        /\ \A c \in Contexts : Reading(c)' => Reading(c)
    BY <1>0, <1>3, QuietFacts
  <2>2. PICK r \in Contexts : r = own[w].ctx
    BY <1>0, <2>1, TypeFacts DEF IInv, Places, LabelPlaces, ReadLabels, Has
  <2>2a. Reading(r) /\ own'[w].ctx = r
    <3>1. r # NoContext
      BY TypeFacts DEF IInv
    <3>2. contexts[r].st = "done" /\ contexts[r].ring = w /\ contexts[r].type = "read"
      BY <2>1, <2>2, <3>1 DEF IInv, Places, LabelPlaces, ReadLabels, Has, WorkerPlaces
    <3>3. \A v \in Workers : own[v].ctx = r => v = w
      BY <3>1, <3>2 DEF IInv, Places, WorkerPlaces
    <3>4. QED
      BY <2>1, <2>2, <3>2, <3>3 DEF Reading, InUse, DownFlag
  <2>3. \A c \in Contexts : ~Reading(c)'
    <3>1. ~Reading(r)'
      BY <2>1, <2>2a DEF Reading
    <3>2. \A c \in Contexts : Reading(c) => c = r
      BY <2>2a DEF IInv, Reads, ReadRight
    <3>3. QED
      BY <2>1, <3>1, <3>2
  <2>4. /\ \A v \in Workers : ~GoingDown(v)
        /\ log.notified = 0 /\ log'.notified = 0
        /\ \A s \in Threads : ~Activating(s)
    BY <2>2a DEF IInv, Reads, ReadRight, DownFlag, Reading
  <2>5. /\ \A v \in Workers : GoingDown(v)' => v = w
        /\ \A s \in Threads : ~Activating(s)'
    BY <2>1, <2>4 DEF GoingDown, Activating, FirstLabels
  <2>6. ReadRight'
    BY <2>3, <2>4, <2>5 DEF ReadRight
  <2>7. ReadRing'
    BY <2>1 DEF IInv, Reads, ReadRing
  <2>8. QED
    BY <2>6, <2>7 DEF Reads
<1>8. QED
  BY <1>0, <1>1, <1>3, <1>4, <1>5, <1>6, <1>7, QuietKeeps DEF IInv

\* The close event (socket_object.cpp:113-129).
LEMMA DownNotifyKeeps ==
    ASSUME IInv, NEW w \in Workers, DownNotify(w)
    PROVE  IInv'
<1>0. w \in Threads
  BY DEF Threads
<1>1. /\ log \in Log /\ log.notified + 1 \in Nat
      /\ log' = [log EXCEPT !.notified = log.notified + 1]
  BY DEF IInv, Types, Log, DownNotify
<1>2. LogStep({"notified"}) /\ log'.notified = log.notified + 1
  BY <1>1 DEF LogStep, LogFields, Log
<1>3. Types'
  BY <1>0, <1>2 DEF IInv, Types, TypeOK, DownNotify, Goto, Labels, LogStep, sockvars
<1>4. Walks(w, "notify", "finish")
  BY <1>0, GotoWalks DEF IInv, DownNotify
<1>5. /\ Types /\ Places /\ Calm /\ SameCtx
      /\ Proper(w, "notify", "finish") /\ Unrelated(w, "notify", "finish")
  BY DEF IInv, DownNotify, Calm, SameCtx, Proper, Unrelated, ReadLabels, WriteLabels,
         ShutLabels, FirstLabels
<1>6. /\ Places'
      /\ pc[w] = "notify" /\ pc'[w] = "finish" /\ \A s \in Threads \ {w} : pc'[s] = pc[s]
      /\ Workers \subseteq Threads
      /\ \A c \in Contexts : contexts'[c] = contexts[c]
      /\ \A c \in Contexts : \A type : InUse(c, type)' <=> InUse(c, type)
      /\ \A v \in Workers : InReceive(v)' <=> InReceive(v)
      /\ \A c \in Contexts : Reading(c)' => Reading(c)
      /\ \A c \in Contexts : Writing(c)' <=> Writing(c)
      /\ \A c \in Contexts : Unpopped(c)' <=> Unpopped(c)
  BY <1>0, <1>4, <1>5, CalmFacts
<1>7. Reads'
  <2>1. GoingDown(w) /\ InReceive(w)
    BY <1>6 DEF GoingDown, InReceive, IInv, Places, LabelPlaces, ReadLabels, Has
  <2>2. /\ log.notified = 0 /\ log'.notified = 1
        /\ \A c \in Contexts : ~Reading(c)
        /\ \A v \in Workers : GoingDown(v) => v = w
    BY <1>2, <2>1 DEF IInv, Reads, ReadRight
  <2>3. \A t \in Threads : ~Activating(t)
    <3>1. own[w].ctx \in Contexts /\ InUse(own[w].ctx, "read")
      BY <1>0, <2>1, TypeFacts DEF InReceive, InUse, IInv, Places, WorkerPlaces
    <3>2. QED
      BY <3>1 DEF IInv, Reads, ReadRight
  <2>4. /\ \A v \in Workers : ~GoingDown(v)' /\ \A t \in Threads : ~Activating(t)'
        /\ \A c \in Contexts : ~Reading(c)'
    BY <1>6, <2>2, <2>3 DEF GoingDown, Activating, FirstLabels
  <2>5. ReadRight'
    BY <2>2, <2>4 DEF ReadRight
  <2>6. ReadRing'
    BY <1>6 DEF IInv, Reads, ReadRing
  <2>7. QED
    BY <2>5, <2>6 DEF Reads
<1>8. Locks'
  BY <1>0, <1>4, LocksKept DEF IInv, DownNotify, LockLabels
<1>9. Writes'
  <2>1. /\ \A s \in Threads : pc'[s] \in {"activate", "assign"} =>
               pc[s] \in {"activate", "assign"}
        /\ \A s \in Threads : pc'[s] = "push" =>
               pc[s] = "push" /\ own'[s].first = own[s].first
        /\ \A s \in Threads : pc'[s] = "submit" => pc[s] = "submit"
        /\ send_buffer' = send_buffer /\ Writes
    BY <1>6 DEF IInv, DownNotify, sockvars
  <2>2. QED
    BY <1>6, <2>1, WritesKept
<1>10. log.destroyed /\ log'.destroyed
  BY <1>0, <1>2, <1>6 DEF IInv, Bytes, Present, LogStep, LogFields
<1>11. Bytes'
  BY <1>10 DEF Bytes
<1>12. Promises'
  <2>1. /\ log'.promised = log.promised /\ log'.forced = log.forced
        /\ log'.closing = log.closing /\ log'.accepted = log.accepted
    BY <1>2 DEF LogStep, LogFields
  <2>2. ~Undisturbed'
    BY <1>10 DEF Undisturbed
  <2>3. /\ contexts' = contexts /\ socket_handler' = socket_handler
        /\ shutdown_gracefully' = shutdown_gracefully /\ Promises
    BY DEF DownNotify, sockvars, IInv
  <2>4. QED
    BY <1>6, <2>1, <2>2, <2>3 DEF Promises
<1>13. Closes'
  <2>1. /\ socket_handler' = socket_handler /\ log'.closed = log.closed /\ log'.overlap = log.overlap
        /\ \A v \in Workers : pc'[v] \in {"copy", "zero", "closeFd"} =>
               pc[v] = pc'[v] /\ own'[v].fd = own[v].fd
        /\ \A v \in Workers : pc[v] = "closeFd" => pc'[v] = "closeFd"
        /\ Closes
    BY <1>2, <1>6 DEF IInv, DownNotify, sockvars, LogStep, LogFields
  <2>2. QED
    BY <2>1, ClosesKept
<1>14. QED
  BY <1>3, <1>6, <1>7, <1>8, <1>9, <1>11, <1>12, <1>13 DEF IInv

\* destroy() leaves nothing, or what was nothing already (io_buffer.cpp).
LEMMA DestroyedIsNone ==
    ASSUME NEW b, Solid(b)
    PROVE  Destroyed(b) = NoBuffer
BY DEF Solid, Destroyed, NoBuffer, NULL

\* NoBuffer is a buffer.
LEMMA NoBufferIs == NoBuffer \in Buffer /\ Empty(NoBuffer) /\ Len(NoBuffer.data) = 0
BY DEF NoBuffer, Buffer, NULL, Empty

\* on_shutdown destroys the main buffer, with no lock (tcp_socket.cpp:285,
\* io_double_buffer.cpp:22-23).
LEMMA DownMainKeeps ==
    ASSUME IInv, NEW w \in Workers, DownMain(w)
    PROVE  IInv'
<1>0. w \in Threads
  BY DEF Threads
<1>1. log \in Log /\ log' = [log EXCEPT !.destroyed = TRUE]
  BY DEF IInv, Types, Log, DownMain
<1>2. LogStep({"destroyed"}) /\ log'.destroyed
  BY <1>1 DEF LogStep, LogFields, Log
<1>3. send_buffer' \in DoubleBuffer /\ main' = NoBuffer /\ sub' = sub
  <2>1. send_buffer' = [send_buffer EXCEPT !.main = NoBuffer]
    BY DestroyedIsNone DEF IInv, Writes, main, DownMain
  <2>2. send_buffer \in DoubleBuffer
    BY TypeFacts DEF IInv
  <2>3. QED
    BY <2>1, <2>2, DoubleFields, NoBufferIs DEF main, sub
<1>4. Types'
  BY <1>0, <1>2, <1>3 DEF IInv, Types, TypeOK, DownMain, Goto, Labels, LogStep,
                          DoubleBuffer, Buffer
<1>5. Walks(w, "destroyMain", "destroySub")
  BY <1>0, GotoWalks DEF IInv, DownMain
<1>6. /\ Types /\ Places /\ Calm /\ SameCtx /\ Reads
      /\ Proper(w, "destroyMain", "destroySub") /\ Unrelated(w, "destroyMain", "destroySub")
  BY DEF IInv, DownMain, Calm, SameCtx, Proper, Unrelated, ReadLabels, WriteLabels,
         ShutLabels, FirstLabels
<1>7. /\ Places'
      /\ pc[w] = "destroyMain" /\ pc'[w] = "destroySub"
      /\ \A s \in Threads \ {w} : pc'[s] = pc[s]
      /\ Workers \subseteq Threads
      /\ \A c \in Contexts : contexts'[c] = contexts[c]
      /\ \A c \in Contexts : \A type : InUse(c, type)' <=> InUse(c, type)
      /\ \A c \in Contexts : Writing(c)' <=> Writing(c)
      /\ \A c \in Contexts : Unpopped(c)' <=> Unpopped(c)
  BY <1>0, <1>5, <1>6, CalmFacts
<1>8. Reads'
  <2>1. /\ log'.notified = log.notified
        /\ "destroySub" \in FirstLabels => "destroyMain" \in FirstLabels
    BY <1>2 DEF LogStep, LogFields, FirstLabels
  <2>2. QED
    BY <1>0, <1>5, <1>6, <2>1, CalmReads
<1>9. Locks'
  BY <1>0, <1>5, LocksKept DEF IInv, DownMain, LockLabels
<1>10. Writes'
  <2>1. Filled' /\ Solid(main') /\ Solid(sub')
    BY <1>3 DEF IInv, Writes, Filled, Solid
  <2>2. own' = own
    BY DEF DownMain
  <2>3. WriteRight'
    <3>1. DEmpty(send_buffer) => DEmpty(send_buffer')
      BY <1>3, NoBufferIs DEF DEmpty, main, sub
    <3>2. QED
      BY <1>3, <1>7, <2>1, <2>2, <3>1 DEF IInv, Writes, WriteRight
  <2>4. WriteFirst'
    <3>1. send_buffer = NoDoubleBuffer => send_buffer' = NoDoubleBuffer
      BY <1>3 DEF NoDoubleBuffer, main, sub, DoubleBuffer
    <3>2. QED
      BY <1>7, <3>1 DEF IInv, Writes, WriteFirst
  <2>5. QED
    BY <2>1, <2>3, <2>4 DEF Writes
<1>11. Bytes'
  BY <1>2 DEF Bytes
<1>12. Promises'
  <2>1. /\ log'.promised = log.promised /\ log'.forced = log.forced
        /\ log'.closing = log.closing /\ log'.accepted = log.accepted
    BY <1>2 DEF LogStep, LogFields
  <2>2. ~Undisturbed'
    BY <1>2 DEF Undisturbed
  <2>3. /\ contexts' = contexts /\ socket_handler' = socket_handler
        /\ shutdown_gracefully' = shutdown_gracefully /\ Promises
    BY DEF DownMain, IInv
  <2>4. QED
    BY <1>7, <2>1, <2>2, <2>3 DEF Promises
<1>13. Closes'
  <2>1. /\ socket_handler' = socket_handler /\ log'.closed = log.closed /\ log'.overlap = log.overlap
        /\ \A v \in Workers : pc'[v] \in {"copy", "zero", "closeFd"} =>
               pc[v] = pc'[v] /\ own'[v].fd = own[v].fd
        /\ \A v \in Workers : pc[v] = "closeFd" => pc'[v] = "closeFd"
        /\ Closes
    BY <1>2, <1>7 DEF IInv, DownMain, LogStep, LogFields
  <2>2. QED
    BY <2>1, ClosesKept
<1>14. QED
  BY <1>4, <1>7, <1>8, <1>9, <1>10, <1>11, <1>12, <1>13 DEF IInv

\* Then the sub buffer (io_double_buffer.cpp:24).
LEMMA DownSubKeeps ==
    ASSUME IInv, NEW w \in Workers, DownSub(w)
    PROVE  IInv'
<1>0. w \in Threads
  BY DEF Threads
<1>1. log' = log
  BY DEF DownSub
<1>3. send_buffer' \in DoubleBuffer /\ sub' = NoBuffer /\ main' = main
  <2>1. send_buffer' = [send_buffer EXCEPT !.sub = NoBuffer]
    BY DestroyedIsNone DEF IInv, Writes, sub, DownSub
  <2>2. send_buffer \in DoubleBuffer
    BY TypeFacts DEF IInv
  <2>3. QED
    BY <2>1, <2>2, DoubleFields, NoBufferIs DEF main, sub
<1>4. Types'
  BY <1>0, <1>3 DEF IInv, Types, TypeOK, DownSub, Goto, Labels, DoubleBuffer, Buffer
<1>5. Walks(w, "destroySub", "notify")
  BY <1>0, GotoWalks DEF IInv, DownSub
<1>6. /\ Types /\ Places /\ Calm /\ SameCtx /\ Reads
      /\ Proper(w, "destroySub", "notify") /\ Unrelated(w, "destroySub", "notify")
  BY DEF IInv, DownSub, Calm, SameCtx, Proper, Unrelated, ReadLabels, WriteLabels,
         ShutLabels, FirstLabels
<1>7. /\ Places'
      /\ pc[w] = "destroySub" /\ pc'[w] = "notify"
      /\ \A s \in Threads \ {w} : pc'[s] = pc[s]
      /\ Workers \subseteq Threads
      /\ \A c \in Contexts : contexts'[c] = contexts[c]
      /\ \A c \in Contexts : \A type : InUse(c, type)' <=> InUse(c, type)
      /\ \A c \in Contexts : Writing(c)' <=> Writing(c)
      /\ \A c \in Contexts : Unpopped(c)' <=> Unpopped(c)
  BY <1>0, <1>5, <1>6, CalmFacts
<1>8. Reads'
  <2>1. "notify" \in FirstLabels => "destroySub" \in FirstLabels
    BY DEF FirstLabels
  <2>2. QED
    BY <1>0, <1>1, <1>5, <1>6, <2>1, CalmReads
<1>9. Locks'
  BY <1>0, <1>5, LocksKept DEF IInv, DownSub, LockLabels
<1>10. Writes'
  <2>1. Solid(main') /\ Solid(sub') /\ (Filled => Filled')
    BY <1>3 DEF IInv, Writes, Filled, Solid
  <2>2. own' = own
    BY DEF DownSub
  <2>3. WriteRight'
    <3>1. DEmpty(send_buffer) => DEmpty(send_buffer')
      BY <1>3, NoBufferIs DEF DEmpty, main, sub
    <3>2. QED
      BY <1>3, <1>7, <2>1, <2>2, <3>1 DEF IInv, Writes, WriteRight
  <2>4. WriteFirst'
    <3>1. send_buffer = NoDoubleBuffer => send_buffer' = NoDoubleBuffer
      BY <1>3 DEF NoDoubleBuffer, main, sub, DoubleBuffer
    <3>2. QED
      BY <1>7, <3>1 DEF IInv, Writes, WriteFirst
  <2>5. QED
    BY <2>1, <2>3, <2>4 DEF Writes
<1>10a. log.destroyed
  BY <1>7 DEF IInv, Bytes, Present
<1>11. Bytes'
  BY <1>1, <1>10a DEF Bytes
<1>12. Promises'
  <2>1. ~Undisturbed'
    BY <1>1, <1>10a DEF Undisturbed
  <2>2. /\ contexts' = contexts /\ socket_handler' = socket_handler
        /\ shutdown_gracefully' = shutdown_gracefully /\ Promises
    BY DEF DownSub, IInv
  <2>3. QED
    BY <1>1, <1>7, <2>1, <2>2 DEF Promises
<1>13. Closes'
  <2>1. /\ socket_handler' = socket_handler
        /\ \A v \in Workers : pc'[v] \in {"copy", "zero", "closeFd"} =>
               pc[v] = pc'[v] /\ own'[v].fd = own[v].fd
        /\ \A v \in Workers : pc[v] = "closeFd" => pc'[v] = "closeFd"
        /\ Closes
    BY <1>7 DEF IInv, DownSub
  <2>2. QED
    BY <1>1, <2>1, ClosesKept
<1>14. QED
  BY <1>4, <1>7, <1>8, <1>9, <1>10, <1>11, <1>12, <1>13 DEF IInv

\* on_active assigns the main buffer (tcp_socket.cpp:268).
LEMMA ActivateAssignKeeps ==
    ASSUME IInv, NEW t \in Threads, ActivateAssign(t)
    PROVE  IInv'
<1>1. /\ log \in Log /\ log.fresh + 1 \in Nat \ {0} /\ log.fresh \in Nat \ {0}
      /\ log' = [log EXCEPT !.fresh = log.fresh + 1]
  BY DEF IInv, Types, Log, ActivateAssign
<1>2. LogStep({"fresh"})
  BY <1>1 DEF LogStep, LogFields, Log
<1>3. Walks(t, "assign", "receive")
  BY GotoWalks DEF IInv, ActivateAssign
<1>4. /\ Types /\ Places /\ Calm /\ SameCtx /\ Reads
      /\ Proper(t, "assign", "receive") /\ Unrelated(t, "assign", "receive")
      /\ send_buffer \in DoubleBuffer
  BY TypeFacts DEF IInv, ActivateAssign, Calm, SameCtx, Proper, Unrelated, ReadLabels,
                   WriteLabels, ShutLabels, FirstLabels
<1>5. /\ Places'
      /\ pc[t] = "assign" /\ pc'[t] = "receive"
      /\ \A s \in Threads \ {t} : pc'[s] = pc[s]
      /\ Workers \subseteq Threads
      /\ \A c \in Contexts : contexts'[c] = contexts[c]
      /\ \A c \in Contexts : \A type : InUse(c, type)' <=> InUse(c, type)
      /\ \A c \in Contexts : Writing(c)' <=> Writing(c)
      /\ \A c \in Contexts : Unpopped(c)' <=> Unpopped(c)
  BY <1>3, <1>4, CalmFacts
<1>6. /\ send_buffer = NoDoubleBuffer /\ main = NoBuffer /\ sub = NoBuffer
      /\ \A c \in Contexts : ~InUse(c, "write") /\ ~Writing(c) /\ ~Unpopped(c)
      /\ \A s \in Threads : pc[s] # "submit"
  BY <1>5 DEF IInv, Writes, WriteFirst, NoDoubleBuffer, main, sub, Writing, Unpopped
<1>7. /\ send_buffer' \in DoubleBuffer /\ sub' = NoBuffer
      /\ main' \in Buffer /\ main'.data = <<>> /\ main'.raw # NULL /\ main'.block > 0
  <2> DEFINE b == Assigned(log.fresh, BufferSize)
  <2>1. b \in Buffer /\ b.data = <<>> /\ b.raw # NULL /\ b.block > 0
    BY <1>1, TcpSocketAssumption DEF Assigned, Buffer, NULL
  <2>2. send_buffer' = [send_buffer EXCEPT !.main = b]
    BY DEF ActivateAssign, DAssigned
  <2> HIDE DEF b
  <2>3. send_buffer' \in DoubleBuffer /\ main' = b /\ sub' = sub
    BY <1>4, <2>1, <2>2, DoubleFields DEF main, sub
  <2>4. QED
    BY <1>6, <2>1, <2>3
<1>8. main' # NoBuffer /\ Empty(main') /\ Empty(sub') /\ DEmpty(send_buffer')
  BY <1>7, NoBufferIs DEF NoBuffer, Empty, DEmpty, main, sub
<1>9. Types'
  BY <1>2, <1>7 DEF IInv, Types, TypeOK, ActivateAssign, Goto, Labels, LogStep,
                    DoubleBuffer, Buffer
<1>10. Reads'
  <2>1. log'.notified = log.notified
    BY <1>2 DEF LogStep, LogFields
  <2>2. "receive" \in FirstLabels => "assign" \in FirstLabels
    BY DEF FirstLabels
  <2>3. QED
    BY <1>3, <1>4, <2>1, <2>2, CalmReads
<1>11. Locks'
  BY <1>3, LocksKept DEF IInv, ActivateAssign, LockLabels
<1>12. \A s \in Threads : pc'[s] \notin {"activate", "assign", "submit"}
  BY <1>5, <1>6 DEF IInv, Reads, ReadRight, Activating, FirstLabels
<1>13. Writes'
  <2>1. WriteRight'
    BY <1>5, <1>6, <1>8, <1>12 DEF WriteRight
  <2>2. WriteFirst'
    BY <1>12 DEF WriteFirst
  <2>3. Solid(main') /\ Solid(sub')
    BY <1>7 DEF Solid
  <2>4. QED
    BY <2>1, <2>2, <2>3 DEF Writes
<1>14. /\ log'.accepted = log.accepted /\ log'.wire = log.wire
       /\ log'.destroyed = log.destroyed /\ log'.promised = log.promised
       /\ log'.forced = log.forced /\ log'.closing = log.closing
       /\ log'.failed = log.failed /\ log'.closed = log.closed /\ log'.overlap = log.overlap
       /\ socket_handler' = socket_handler
  BY <1>2 DEF LogStep, LogFields, ActivateAssign
<1>15. Bytes'
  <2>1. SUFFICES ASSUME ~log.destroyed PROVE Held' /\ Present' /\ OnWire'
    BY <1>14 DEF Bytes
  <2>2. main'.data = main.data /\ sub'.data = sub.data
    BY <1>6, <1>7 DEF NoBuffer
  <2>3. Held /\ Present /\ OnWire
    BY <2>1 DEF IInv, Bytes
  <2>4. Gone' = Gone
    BY <1>14, <2>2 DEF Gone
  <2>5. Held'
    BY <1>14, <2>2, <2>3, <2>4 DEF Held
  <2>6. Present'
    BY <1>5, <1>8, <2>3 DEF Present
  <2>7. OnWire'
    BY <1>5, <1>6, <1>14, <2>3, <2>4 DEF OnWire
  <2>8. QED
    BY <2>5, <2>6, <2>7
<1>16. Promises'
  <2>1. Undisturbed' <=> Undisturbed
    BY <1>14 DEF Undisturbed, ActivateAssign
  <2>2. contexts' = contexts /\ shutdown_gracefully' = shutdown_gracefully /\ Promises
    BY DEF ActivateAssign, IInv
  <2>3. QED
    BY <1>5, <1>14, <2>1, <2>2 DEF Promises
<1>17. Closes'
  <2>1. /\ \A v \in Workers : pc'[v] \in {"copy", "zero", "closeFd"} =>
               pc[v] = pc'[v] /\ own'[v].fd = own[v].fd
        /\ \A v \in Workers : pc[v] = "closeFd" => pc'[v] = "closeFd"
        /\ Closes
    BY <1>5 DEF IInv, ActivateAssign
  <2>2. QED
    BY <1>14, <2>1, ClosesKept
<1>18. QED
  BY <1>5, <1>9, <1>10, <1>11, <1>13, <1>15, <1>16, <1>17 DEF IInv

\* send() pushes its byte (tcp_socket.cpp:251-254): it is behind all that was accepted, and
\* it does not move the bytes of a write under way.
LEMMA SendPushesKeeps ==
    ASSUME IInv, NEW t \in Threads, SendPushes(t)
    PROVE  IInv'
<1> DEFINE byte == <<log.accepted + 1>>
<1> DEFINE b == IF own[t].first THEN "submit" ELSE "unlock"
<1>1. /\ log \in Log /\ log.fresh \in Nat \ {0} /\ log.fresh # NULL /\ log.fresh \in Nat
      /\ log.accepted \in Nat /\ log.accepted + 1 \in Nat /\ log.fresh + 1 \in Nat \ {0}
      /\ log' = [log EXCEPT !.accepted = log.accepted + 1, !.fresh = log.fresh + 1]
  BY DEF IInv, Types, Log, SendPushes, NULL
<1>2. LogStep({"accepted", "fresh"}) /\ log'.accepted = log.accepted + 1
  BY <1>1 DEF LogStep, LogFields, Log
<1>3. /\ log'.wire = log.wire /\ log'.destroyed = log.destroyed
      /\ log'.notified = log.notified /\ log'.promised = log.promised
      /\ log'.forced = log.forced /\ log'.closing = log.closing
      /\ log'.failed = log.failed /\ log'.closed = log.closed /\ log'.overlap = log.overlap
      /\ socket_handler' = socket_handler
  BY <1>2 DEF LogStep, LogFields, SendPushes
<1>4. Walks(t, "push", b)
  BY GotoWalks DEF IInv, SendPushes
<1>5. b \in {"submit", "unlock"} /\ (b = "submit" <=> own[t].first)
  OBVIOUS
<1> HIDE DEF b
<1>6. /\ Types /\ Places /\ Calm /\ SameCtx /\ Reads
      /\ Proper(t, "push", b) /\ Unrelated(t, "push", b)
  BY <1>5 DEF IInv, SendPushes, Calm, SameCtx, Proper, Unrelated, ReadLabels, WriteLabels,
              ShutLabels, FirstLabels
<1>7. /\ Places'
      /\ pc[t] = "push" /\ pc'[t] = b
      /\ \A s \in Threads \ {t} : pc'[s] = pc[s]
      /\ Workers \subseteq Threads
      /\ \A c \in Contexts : contexts'[c] = contexts[c]
      /\ \A c \in Contexts : \A type : InUse(c, type)' <=> InUse(c, type)
      /\ \A c \in Contexts : Writing(c)' <=> Writing(c)
      /\ \A c \in Contexts : Unpopped(c)' <=> Unpopped(c)
  BY <1>4, <1>6, CalmFacts
<1>8. byte \in Seq(Nat) /\ Len(byte) = 1 /\ byte[1] = log.accepted + 1
  BY <1>1
<1>8a. send_buffer' \in DPushes(send_buffer, byte, log.fresh)
  BY DEF SendPushes
<1> HIDE DEF byte
<1>9. /\ send_buffer' \in DoubleBuffer /\ Solid(main') /\ Solid(sub')
      /\ \/ /\ Empty(sub) /\ sub' = sub /\ main # NoBuffer
            /\ main'.data = main.data \o byte
            /\ ~Empty(main) => main'.raw = main.raw
         \/ /\ ~DEmpty(send_buffer) /\ main' = main
            /\ sub'.data = sub.data \o byte
  <2> DEFINE d == send_buffer
  <2> DEFINE new == log.fresh
  <2>1. /\ d \in DoubleBuffer /\ Solid(d.main) /\ Solid(d.sub)
        /\ byte \in Seq(Nat) /\ Len(byte) > 0 /\ new \in Nat /\ new # NULL
        /\ ~DPushSpins(d, Len(byte)) /\ d' \in DPushes(d, byte, new)
    BY <1>1, <1>8, <1>8a, TypeFacts DEF IInv, Writes, main, sub, SendPushes
  <2> HIDE DEF new
  <2>2. \A x \in DPushes(d, byte, new) :
           /\ x \in DoubleBuffer /\ Solid(x.main) /\ Solid(x.sub)
           /\ \/ /\ Empty(d.sub) /\ x.sub = d.sub
                 /\ x.main.data = d.main.data \o byte
                 /\ d.main # NoBuffer
                 /\ ~Empty(d.main) => x.main.raw = d.main.raw
              \/ /\ ~DEmpty(d) /\ x.main = d.main
                 /\ x.sub.data = d.sub.data \o byte
    BY <2>1, DPushesAppends
  <2>3. QED
    BY <2>1, <2>2 DEF main, sub
<1>10. /\ main \in Buffer /\ sub \in Buffer
       /\ main.data \in Seq(Nat) /\ sub.data \in Seq(Nat)
       /\ Len(main.data) \in Nat /\ Len(sub.data) \in Nat
       /\ Empty(main) <=> Len(main.data) = 0
       /\ Empty(sub) <=> Len(sub.data) = 0
  <2>1. main \in Buffer /\ sub \in Buffer
    BY TypeFacts DEF IInv
  <2>2. QED
    BY <2>1, BufferFields
<1>11. /\ Len(main.data \o byte) = Len(main.data) + 1
       /\ Len(sub.data \o byte) = Len(sub.data) + 1
  <2>1. /\ Len(main.data \o byte) = Len(main.data) + Len(byte)
        /\ Len(sub.data \o byte) = Len(sub.data) + Len(byte)
    BY <1>8, <1>10, ConcatProperties
  <2>2. QED
    BY <1>8, <2>1
<1>12. main' \in Buffer /\ sub' \in Buffer
  BY <1>9, DoubleFields DEF main, sub
<1>13. Filled => Filled'
  BY <1>9, <1>10, <1>11, <1>12, BufferFields DEF Filled
<1>14. Types'
  BY <1>2, <1>5, <1>9 DEF IInv, Types, TypeOK, SendPushes, Goto, Labels, LogStep,
                    DoubleBuffer, Buffer, b
<1>15. Reads'
  <2>1. b \in FirstLabels => "push" \in FirstLabels
    BY <1>5 DEF FirstLabels
  <2>2. QED
    BY <1>3, <1>4, <1>5, <1>6, <2>1, CalmReads
<1>16. Locks'
  BY <1>4, LocksKept DEF IInv, SendPushes, LockLabels
<1>17. \A s \in Threads \ {t} : pc[s] \notin LockLabels
  BY <1>7, LockHeld DEF LockLabels
<1>18. \A s \in Threads : pc'[s] \notin {"activate", "assign"}
  <2>1. send_buffer # NoDoubleBuffer
    BY <1>9, NoBufferIs DEF NoDoubleBuffer, main, sub, DEmpty
  <2>2. QED
    BY <1>5, <1>7, <2>1 DEF IInv, Writes, WriteFirst
<1>19. Writes'
  <2>1. own[t].first => Filled' /\ \A c \in Contexts : ~Writing(c)
    <3>1. SUFFICES ASSUME own[t].first PROVE Filled' /\ \A c \in Contexts : ~Writing(c)
      OBVIOUS
    <3>2. DEmpty(send_buffer) /\ (main = NoBuffer \/ \A c \in Contexts : ~Writing(c))
      BY <1>7, <3>1 DEF IInv, Writes, WriteRight
    <3>3. main # NoBuffer /\ main'.data = main.data \o byte
      BY <1>9, <3>2
    <3>4. ~Empty(main')
      BY <1>10, <1>11, <1>12, <3>3, BufferFields
    <3>5. QED
      BY <3>2, <3>3, <3>4 DEF Filled
  <2>2. WriteRight'
    BY <1>5, <1>7, <1>13, <1>17, <2>1 DEF IInv, Writes, WriteRight, LockLabels
  <2>3. WriteFirst'
    BY <1>18 DEF WriteFirst
  <2>4. QED
    BY <1>9, <2>2, <2>3 DEF Writes
<1>20. Bytes'
  <2>1. SUFFICES ASSUME ~log.destroyed PROVE Held' /\ Present' /\ OnWire'
    BY <1>3 DEF Bytes
  <2>2. Held /\ Present /\ OnWire
    BY <2>1 DEF IInv, Bytes
  <2>3. /\ Gone' = Gone /\ Gone \in Nat
        /\ log.accepted = Gone + Len(main.data) + Len(sub.data)
    <3>1. \/ Len(main'.data) = Len(main.data) + 1 /\ Len(sub'.data) = Len(sub.data)
          \/ Len(main'.data) = Len(main.data) /\ Len(sub'.data) = Len(sub.data) + 1
      BY <1>9, <1>11
    <3>2. ASSUME NEW a \in Nat
          PROVE  (a + 1) - Len(main'.data) - Len(sub'.data)
                    = a - Len(main.data) - Len(sub.data)
      <4>1. CASE Len(main'.data) = Len(main.data) + 1 /\ Len(sub'.data) = Len(sub.data)
        BY <1>10, <4>1
      <4>2. CASE Len(main'.data) = Len(main.data) /\ Len(sub'.data) = Len(sub.data) + 1
        BY <1>10, <4>2
      <4>3. QED
        BY <3>1, <4>1, <4>2
    <3>3. Gone' = Gone
      BY <1>1, <1>2, <3>2 DEF Gone
    <3>4. Gone \in Nat
      BY <2>2 DEF Held
    <3>5. log.accepted = Gone + Len(main.data) + Len(sub.data)
      BY <1>1, <1>10 DEF Gone
    <3>6. QED
      BY <3>3, <3>4, <3>5
  <2>4. Held'
    <3>1. Follows(byte, log.accepted)
      BY <1>8 DEF Follows
    <3>2. CASE /\ Empty(sub) /\ sub' = sub
               /\ main'.data = main.data \o byte
      <4>0. Len(sub.data) = 0
        BY <1>10, <3>2
      <4>1. log.accepted = Gone + Len(main.data)
        BY <1>10, <2>3, <4>0
      <4>2. Follows(main'.data, Gone)
        <5>1. /\ main.data \in Seq(Nat) /\ byte \in Seq(Nat) /\ Gone \in Nat
              /\ Follows(main.data, Gone) /\ Follows(byte, Gone + Len(main.data))
          BY <1>8, <1>10, <2>2, <2>3, <3>1, <4>1 DEF Held
        <5>2. QED
          BY <3>2, <5>1, ConcatFollows
      <4>3. Follows(sub'.data, Gone + Len(main'.data))
        BY <1>10, <3>2 DEF Follows
      <4>4. QED
        BY <1>3, <2>2, <2>3, <4>2, <4>3 DEF Held
    <3>3. CASE main' = main /\ sub'.data = sub.data \o byte
      <4>1. /\ Gone + Len(main.data) \in Nat
            /\ log.accepted = (Gone + Len(main.data)) + Len(sub.data)
        BY <1>10, <2>3
      <4>2. Follows(sub'.data, Gone + Len(main.data))
        <5> DEFINE n == Gone + Len(main.data)
        <5>1. /\ sub.data \in Seq(Nat) /\ byte \in Seq(Nat) /\ n \in Nat
              /\ Follows(sub.data, n) /\ Follows(byte, n + Len(sub.data))
          BY <1>8, <1>10, <2>2, <3>1, <4>1 DEF Held
        <5> HIDE DEF n
        <5>2. Follows(sub'.data, n)
          BY <3>3, <5>1, ConcatFollows
        <5>3. QED
          BY <5>2 DEF n
      <4>3. QED
        BY <1>3, <2>2, <2>3, <3>3, <4>2 DEF Held
    <3>4. QED
      BY <1>9, <3>2, <3>3
  <2>5. Present'
    <3>1. main # NoBuffer
      BY <1>7, <1>5, <1>18, <2>2 DEF Present
    <3>2. main' # NoBuffer
      BY <1>9, <1>10, <1>11, <3>1, NoBufferIs
    <3>3. QED
      BY <1>5, <1>7, <2>2, <3>2 DEF Present
  <2>6. ASSUME NEW c \in Contexts, Unpopped(c)
        PROVE  WriteOf(c)'
    <3>1. WriteOf(c) /\ contexts'[c] = contexts[c] /\ (~Empty(main) \/ main = NoBuffer)
      BY <1>7, <2>2, <2>6 DEF OnWire, IInv, Writes, WriteRight, Filled
    <3>2. main # NoBuffer
      BY <1>7, <1>5, <1>18, <2>2 DEF Present
    <3>3. main'.raw = main.raw /\ Len(main'.data) >= Len(main.data)
      BY <1>9, <1>10, <1>11, <3>1, <3>2
    <3>4. Len(main'.data) \in Nat /\ contexts[c].len \in Nat /\ contexts[c].res \in Int
      BY <1>12, BufferFields, TypeFacts, ContextFields DEF IInv
    <3>5. QED
      BY <1>3, <1>10, <2>3, <3>1, <3>3, <3>4 DEF WriteOf, Added
  <2>7. OnWire'
    BY <1>3, <1>7, <2>2, <2>3, <2>6 DEF OnWire
  <2>8. QED
    BY <2>4, <2>5, <2>7
<1>21. Promises'
  <2>1. Undisturbed' <=> Undisturbed
    BY <1>3 DEF Undisturbed, SendPushes
  <2>2. contexts' = contexts /\ shutdown_gracefully' = shutdown_gracefully /\ Promises
    BY DEF SendPushes, IInv
  <2>3. \A i \in DOMAIN log.promised : log.promised[i] <= log.accepted + 1
    <3>1. log.promised \in Seq(Nat)
      BY <1>1 DEF Log
    <3>2. QED
      BY <1>1, <2>2, <3>1 DEF Promises
  <2>4. QED
    BY <1>2, <1>3, <1>7, <2>1, <2>2, <2>3 DEF Promises
<1>22. Closes'
  <2>1. /\ \A v \in Workers : pc'[v] \in {"copy", "zero", "closeFd"} =>
               pc[v] = pc'[v] /\ own'[v].fd = own[v].fd
        /\ \A v \in Workers : pc[v] = "closeFd" => pc'[v] = "closeFd"
        /\ Closes
    BY <1>5, <1>7 DEF IInv, SendPushes
  <2>2. QED
    BY <1>3, <2>1, ClosesKept
<1>23. QED
  BY <1>7, <1>14, <1>15, <1>16, <1>19, <1>20, <1>21, <1>22 DEF IInv

\* io_sent pops what the write has transferred (socket_object.cpp:96-98).
LEMMA SentPopsKeeps ==
    ASSUME IInv, NEW w \in Workers, SentPops(w)
    PROVE  IInv'
<1>0. w \in Threads /\ Workers \subseteq Threads
  BY DEF Threads
<1>1. log' = log /\ contexts' = contexts /\ socket_handler' = socket_handler /\ own' = own
  BY DEF SentPops
<1>2. Walks(w, "sent", "elevate")
  BY <1>0, GotoWalks DEF IInv, SentPops
<1>3. /\ Types /\ Places /\ Calm
      /\ Proper(w, "sent", "elevate")
  BY DEF IInv, SentPops, Calm, SameCtx, Proper, ReadLabels, WriteLabels,
         ShutLabels, FirstLabels
<1>4. Places'
  BY <1>0, <1>2, <1>3, CalmPlaces
<1>5. pc[w] = "sent" /\ pc'[w] = "elevate" /\ \A s \in Threads \ {w} : pc'[s] = pc[s]
  BY <1>2 DEF Walks
<1>6. PICK c \in Contexts : c = own[w].ctx
  BY <1>0, <1>5, TypeFacts DEF IInv, Places, LabelPlaces, WriteLabels, Has
<1>7. /\ contexts[c].st = "done" /\ contexts[c].ring = w /\ contexts[c].type = "write"
      /\ contexts[c].res > 0 /\ contexts[c].res \in Nat
  <2>1. c # NoContext /\ contexts[c].res \in Int
    BY TypeFacts, ContextFields DEF IInv
  <2>2. contexts[c].st = "done" /\ contexts[c].ring = w /\ contexts[c].type = "write"
    BY <1>5, <1>6, <2>1 DEF IInv, Places, LabelPlaces, WriteLabels, Has, WorkerPlaces
  <2>3. contexts[c].res > 0
    BY <1>5, <1>6 DEF IInv, Places, SentPlaces
  <2>4. QED
    BY <2>1, <2>2, <2>3
<1>8. \A v \in Workers : own[v].ctx = c => v = w
  BY <1>7, TypeFacts DEF IInv, Places, WorkerPlaces
<1>9. InUse(c, "write") /\ Unpopped(c)
  BY <1>5, <1>7, <1>8 DEF Unpopped, Writing, InUse
<1>10. \A d \in Contexts : Writing(d) => d = c
  BY <1>9 DEF IInv, Writes, WriteRight, Unpopped
<1>11. /\ \A d \in Contexts : \A type : InUse(d, type)' <=> InUse(d, type)
       /\ \A v \in Workers : InReceive(v)' <=> InReceive(v)
       /\ \A d \in Contexts : Reading(d)' => Reading(d)
       /\ \A d \in Contexts : Writing(d)' => Writing(d)
       /\ \A d \in Contexts : ~Unpopped(d)'
  <2>1. \A d \in Contexts : \A type : InUse(d, type)' <=> InUse(d, type)
    BY <1>1 DEF InUse
  <2>2. \A v \in Workers : InReceive(v)' <=> InReceive(v)
    BY <1>1 DEF InReceive
  <2>3. \A d \in Contexts : Reading(d)' => Reading(d)
    BY <1>0, <1>1, <1>5, <2>1 DEF Reading
  <2>4. \A d \in Contexts : Writing(d)' => Writing(d)
    BY <1>0, <1>1, <1>5, <2>1 DEF Writing
  <2>5. ~Unpopped(c)'
    BY <1>1, <1>5, <1>6 DEF Unpopped
  <2>6. ASSUME NEW d \in Contexts PROVE ~Unpopped(d)'
    BY <1>10, <2>4, <2>5 DEF Unpopped
  <2>7. QED
    BY <2>1, <2>2, <2>3, <2>4, <2>6
<1> DEFINE n == contexts[c].res
<1>12. /\ send_buffer' \in DoubleBuffer /\ main' = Popped(main, n) /\ sub' = sub
       /\ main' \in Buffer /\ main'.raw = main.raw /\ main'.block = main.block
       /\ Len(main.data) < n => main' = main
  <2>1. send_buffer' = [send_buffer EXCEPT !.main = Popped(main, n)]
    BY <1>6 DEF SentPops, DPopped, main
  <2>2. send_buffer \in DoubleBuffer /\ main \in Buffer /\ Len(main.data) \in Nat
    BY TypeFacts, BufferFields DEF IInv
  <2>3. /\ Popped(main, n) \in Buffer
        /\ Popped(main, n).raw = main.raw /\ Popped(main, n).block = main.block
    <3>1. CASE n <= Len(main.data)
      <4>1. n \in 0 .. Len(main.data)
        BY <1>7, <2>2, <3>1
      <4>2. QED
        BY <2>2, <4>1, PoppedDrops
    <3>2. CASE ~(n <= Len(main.data))
      BY <1>7, <2>2, <3>2 DEF Popped
    <3>3. QED
      BY <3>1, <3>2
  <2>4. send_buffer' \in DoubleBuffer /\ main' = Popped(main, n) /\ sub' = sub
    BY <2>1, <2>2, <2>3, DoubleFields DEF main, sub
  <2>5. Len(main.data) < n => Popped(main, n) = main
    BY <1>7, <2>2 DEF Popped
  <2>6. QED
    BY <2>3, <2>4, <2>5
<1> HIDE DEF n
<1>13. Types'
  BY <1>0, <1>12 DEF IInv, Types, TypeOK, SentPops, Goto, Labels, DoubleBuffer, Buffer
<1>14. Reads'
  <2>1. \A s \in Threads : Activating(s)' => Activating(s)
    BY <1>5 DEF Activating, FirstLabels
  <2>2. \A v \in Workers : GoingDown(v)' => GoingDown(v)
    BY <1>0, <1>5 DEF GoingDown
  <2>3. /\ \A d \in Contexts : InUse(d, "read")' =>
               InUse(d, "read") /\ contexts'[d].ring = contexts[d].ring
        /\ log'.notified = log.notified /\ Reads
    BY <1>1, <1>11 DEF IInv
  <2>4. QED
    BY <1>11, <2>1, <2>2, <2>3, ReadsKept
<1>15. Locks'
  BY <1>0, <1>2, LocksKept DEF IInv, SentPops, LockLabels
<1>16. /\ \A s \in Threads : pc[s] \notin LockLabels
       /\ \A s \in Threads : pc'[s] \notin {"push", "submit"}
  <2>1. \A s \in Threads : pc[s] \notin LockLabels
    BY LockFree DEF SentPops
  <2>2. QED
    BY <1>5, <2>1 DEF LockLabels
<1>17. Solid(main') /\ Solid(sub') /\ (main' = NoBuffer => main = NoBuffer)
  <2>1. Solid(main) /\ Solid(sub) /\ Len(NoBuffer.data) = 0
    BY NoBufferIs DEF IInv, Writes
  <2>2. main = NoBuffer => main' = NoBuffer
    BY <1>7, <1>12, <2>1 DEF n
  <2>3. main' = NoBuffer => main.raw = NULL
    BY <1>12 DEF NoBuffer
  <2>4. QED
    BY <1>12, <2>1, <2>2, <2>3 DEF Solid
<1>18. Writes'
  <2>1. WriteRight'
    BY <1>10, <1>11, <1>16 DEF WriteRight
  <2>2. WriteFirst'
    <3>1. \A s \in Threads : pc[s] \notin {"activate", "assign"}
      BY <1>9 DEF IInv, Writes, WriteFirst
    <3>2. QED
      BY <1>5, <3>1 DEF WriteFirst
  <2>3. QED
    BY <1>17, <2>1, <2>2 DEF Writes
<1>19. Bytes'
  <2>1. SUFFICES ASSUME ~log.destroyed PROVE Held' /\ Present' /\ OnWire'
    BY <1>1 DEF Bytes
  <2>2. Held /\ Present /\ OnWire
    BY <2>1 DEF IInv, Bytes
  <2>3. /\ main \in Buffer /\ Len(main.data) \in Nat /\ Len(sub.data) \in Nat
        /\ n \in 0 .. Len(main.data) /\ Gone \in Nat
        /\ log.accepted \in Nat
    <3>1. main \in Buffer /\ Len(main.data) \in Nat /\ Len(sub.data) \in Nat
      BY TypeFacts, BufferFields DEF IInv
    <3>2. WriteOf(c)
      BY <1>9, <2>2 DEF OnWire
    <3>3. log.accepted \in Nat
      BY DEF IInv, Types, Log
    <3>4. QED
      BY <1>7, <2>2, <3>1, <3>2, <3>3 DEF WriteOf, Held, n
  <2>4. Len(main'.data) = Len(main.data) - n
    BY <1>12, <2>3, PoppedDrops
  <2>5. /\ Gone' = Gone + n
        /\ Gone' + Len(main'.data) = Gone + Len(main.data)
    <3>1. ASSUME NEW a \in Nat
          PROVE  /\ a - (Len(main.data) - n) - Len(sub.data)
                       = (a - Len(main.data) - Len(sub.data)) + n
      BY <2>3
    <3>2. Gone' = Gone + n
      BY <1>1, <1>12, <2>3, <2>4, <3>1 DEF Gone
    <3>3. ASSUME NEW g \in Nat, NEW l \in Nat, NEW k \in 0 .. l
          PROVE  (g + k) + (l - k) = g + l
      OBVIOUS
    <3>4. (Gone + n) + (Len(main.data) - n) = Gone + Len(main.data)
      BY <2>3, <3>3
    <3>5. QED
      BY <2>4, <3>2, <3>4
  <2>6. Held'
    <3>1. Follows(main'.data, Gone + n)
      BY <1>12, <2>2, <2>3, PoppedFollows DEF Held
    <3>2. Follows(sub'.data, Gone + Len(main.data))
      BY <1>12, <2>2 DEF Held
    <3>3. Gone + n \in Nat
      BY <2>3
    <3>4. QED
      BY <1>1, <2>2, <2>5, <3>1, <3>2, <3>3 DEF Held
  <2>7. Present'
    BY <1>0, <1>5, <1>17, <2>2 DEF Present
  <2>8. socket_handler = Fd => Len(log.wire) = Gone + n
    <3>1. WriteOf(c) /\ (socket_handler = Fd => contexts[c].fd = Fd)
      BY <1>7, <1>9, <2>2 DEF OnWire, IInv, Promises
    <3>2. QED
      BY <1>7, <3>1 DEF WriteOf, Added, n
  <2>9. OnWire'
    BY <1>1, <1>11, <2>5, <2>8 DEF OnWire
  <2>10. QED
    BY <2>6, <2>7, <2>9
<1>20. Promises'
  <2>1. Undisturbed' <=> Undisturbed
    BY <1>1 DEF Undisturbed, SentPops
  <2>2. shutdown_gracefully' = shutdown_gracefully /\ Promises
    BY DEF SentPops, IInv
  <2>3. QED
    BY <1>1, <1>11, <2>1, <2>2 DEF Promises
<1>21. Closes'
  <2>1. /\ \A v \in Workers : pc'[v] \in {"copy", "zero", "closeFd"} =>
               pc[v] = pc'[v] /\ own'[v].fd = own[v].fd
        /\ \A v \in Workers : pc[v] = "closeFd" => pc'[v] = "closeFd"
        /\ Closes
    BY <1>0, <1>1, <1>5 DEF IInv
  <2>2. QED
    BY <1>1, <2>1, ClosesKept
<1>22. QED
  BY <1>4, <1>13, <1>14, <1>15, <1>18, <1>19, <1>20, <1>21 DEF IInv

-----------------------------------------------------------------------------
(* Actions that prepare a request.                                         *)

\* What the layers need to know of a step that prepares a request and is otherwise none
\* of a handler's that gives a right to read or to write.
LEMMA FreshFacts ==
    ASSUME Types, Places, SameCtx, cq' = cq,
           NEW t \in Threads, NEW a, NEW b, NEW c,
           NEW type \in {"read", "write", "shutdown"},
           Fresh(c, t, type), Walks(t, a, b), Proper(t, a, b), Unrelated(t, a, b)
    PROVE  /\ Places' /\ c \in Contexts
           /\ pc[t] = a /\ pc'[t] = b /\ \A s \in Threads \ {t} : pc'[s] = pc[s]
           /\ Workers \subseteq Threads
           /\ \A d \in Contexts \ {c} : contexts'[d] = contexts[d]
           /\ \A x : ~InUse(c, x)
           /\ ~Reading(c) /\ ~Writing(c) /\ ~Unpopped(c)
           /\ \A x : InUse(c, x)' <=> x = type
           /\ Reading(c)' <=> type = "read"
           /\ Writing(c)' <=> type = "write"
           /\ Unpopped(c)' <=> type = "write"
           /\ OthersUse(c)
           /\ \A w \in Workers : InReceive(w)' <=> InReceive(w)
           /\ \A d \in Contexts \ {c} : /\ Reading(d)' => Reading(d)
                                        /\ Writing(d)' <=> Writing(d)
                                        /\ Unpopped(d)' <=> Unpopped(d)
<1>1. Places'
  BY FreshPlaces
<1>2. /\ c \in Contexts /\ \A d \in Contexts \ {c} : contexts'[d] = contexts[d]
      /\ pc[t] = a /\ pc'[t] = b /\ \A s \in Threads \ {t} : pc'[s] = pc[s]
      /\ Workers \subseteq Threads
  BY DEF Fresh, Walks, Threads
<1>3. /\ ~\E x : InUse(c, x)
      /\ \A x : InUse(c, x)' <=> x = type
      /\ Reading(c)' <=> type = "read"
      /\ Writing(c)' <=> type = "write"
      /\ Unpopped(c)' <=> type = "write"
      /\ OthersUse(c)
      /\ \A w \in Workers : InReceive(w)' <=> InReceive(w)
  BY FreshRights
<1>4. \A d \in Contexts \ {c} : /\ Reading(d)' => Reading(d)
                                /\ Writing(d)' <=> Writing(d)
                                /\ Unpopped(d)' <=> Unpopped(d)
  BY OtherRights
<1>5. /\ \A x : ~InUse(c, x)
      /\ ~Reading(c) /\ ~Writing(c) /\ ~Unpopped(c)
  BY <1>3 DEF Reading, Writing, Unpopped
<1>6. QED
  BY <1>1, <1>2, <1>3, <1>4, <1>5

\* A step that prepares a request and changes neither the socket nor the bytes.
Asks(t, a, b, c, type) ==
    /\ Fresh(c, t, type)
    /\ Walks(t, a, b) /\ Proper(t, a, b) /\ Unrelated(t, a, b)
    /\ LogStep({"calls", "forced", "promised", "received"})
    /\ UNCHANGED <<sockvars, own, cq, peer>>
    /\ a \notin {"activate", "assign", "closeFd"}
    /\ b \in {"idle", "finish", "unlock", "callback"}

\* Such a step keeps the layers that are not about requests of its type.
LEMMA AsksKeeps ==
    ASSUME IInv, NEW t \in Threads, NEW a, NEW b, NEW c,
           NEW type \in {"read", "write", "shutdown"}, Asks(t, a, b, c, type)
    PROVE  /\ Places' /\ Closes'
           /\ type # "read" => Reads'
           /\ type # "write" => Writes' /\ Bytes'
<1>0. /\ send_buffer' = send_buffer /\ socket_handler' = socket_handler /\ own' = own
      /\ log'.notified = log.notified /\ log'.closed = log.closed /\ log'.overlap = log.overlap
      /\ log'.accepted = log.accepted /\ log'.wire = log.wire
      /\ log'.destroyed = log.destroyed
  BY DEF Asks, LogStep, LogFields, sockvars
<1>1. /\ Types /\ Places /\ SameCtx /\ cq' = cq
      /\ Fresh(c, t, type) /\ Walks(t, a, b) /\ Proper(t, a, b) /\ Unrelated(t, a, b)
      /\ a \notin {"activate", "assign", "closeFd"}
      /\ b \in {"idle", "finish", "unlock", "callback"}
      /\ Reads /\ Writes /\ Bytes /\ Closes
  BY <1>0 DEF IInv, Asks, SameCtx
<1>2. /\ Places' /\ c \in Contexts
      /\ pc[t] = a /\ pc'[t] = b /\ \A s \in Threads \ {t} : pc'[s] = pc[s]
      /\ Workers \subseteq Threads
      /\ \A d \in Contexts \ {c} : contexts'[d] = contexts[d]
      /\ ~Reading(c) /\ ~Writing(c) /\ ~Unpopped(c)
      /\ \A x : InUse(c, x)' <=> x = type
      /\ Reading(c)' <=> type = "read"
      /\ Writing(c)' <=> type = "write"
      /\ Unpopped(c)' <=> type = "write"
      /\ OthersUse(c)
      /\ \A w \in Workers : InReceive(w)' <=> InReceive(w)
      /\ \A d \in Contexts \ {c} : /\ Reading(d)' => Reading(d)
                                   /\ Writing(d)' <=> Writing(d)
                                   /\ Unpopped(d)' <=> Unpopped(d)
  BY <1>1, FreshFacts
<1>3. Closes'
  <2>1. /\ \A w \in Workers : pc'[w] \in {"copy", "zero", "closeFd"} =>
               pc[w] = pc'[w] /\ own'[w].fd = own[w].fd
        /\ \A w \in Workers : pc[w] = "closeFd" => pc'[w] = "closeFd"
    BY <1>0, <1>1, <1>2
  <2>2. QED
    BY <1>0, <1>1, <2>1, ClosesKept
<1>4. ASSUME type # "read" PROVE Reads'
  <2>1. /\ \A s \in Threads : Activating(s)' => Activating(s)
        /\ \A w \in Workers : GoingDown(w)' => GoingDown(w)
    BY <1>1, <1>2 DEF Activating, GoingDown, FirstLabels
  <2>2. /\ \A d \in Contexts : InUse(d, "read")' =>
               InUse(d, "read") /\ contexts'[d].ring = contexts[d].ring
        /\ \A d \in Contexts : Reading(d)' => Reading(d)
    BY <1>2, <1>4 DEF OthersUse
  <2>3. QED
    BY <1>0, <1>1, <1>2, <2>1, <2>2, ReadsKept
<1>5. ASSUME type # "write" PROVE Writes'
  <2>1. /\ \A d \in Contexts : InUse(d, "write")' => InUse(d, "write")
        /\ \A d \in Contexts : Writing(d)' => Writing(d)
        /\ \A d \in Contexts : Unpopped(d)' => Unpopped(d)
    BY <1>2, <1>5 DEF OthersUse
  <2>2. /\ \A s \in Threads : pc'[s] \in {"activate", "assign"} =>
               pc[s] \in {"activate", "assign"}
        /\ \A s \in Threads : pc'[s] = "push" =>
               pc[s] = "push" /\ own'[s].first = own[s].first
        /\ \A s \in Threads : pc'[s] = "submit" => pc[s] = "submit"
    BY <1>0, <1>1, <1>2
  <2>3. QED
    BY <1>0, <1>1, <2>1, <2>2, WritesKept
<1>6. ASSUME type # "write" PROVE Bytes'
  <2>1. /\ \A d \in Contexts : Unpopped(d)' <=> Unpopped(d)
        /\ \A d \in Contexts : Unpopped(d) => contexts'[d] = contexts[d]
    BY <1>2, <1>6
  <2>2. /\ \A w \in Workers : pc'[w] \in {"destroySub", "notify"} =>
               pc[w] \in {"destroySub", "notify"}
        /\ \A s \in Threads : pc[s] \in {"activate", "assign"} =>
               pc'[s] \in {"activate", "assign"}
    BY <1>1, <1>2
  <2>3. QED
    BY <1>0, <1>1, <2>1, <2>2, BytesKept
<1>7. QED
  BY <1>2, <1>3, <1>4, <1>5, <1>6

\* A request other than a shutdown, and no graceful close: the promise holds on.
LEMMA AsksPromises ==
    ASSUME IInv, Types', NEW t \in Threads, NEW a, NEW b, NEW c,
           NEW type \in {"read", "write", "shutdown"}, type # "shutdown",
           Asks(t, a, b, c, type), log'.promised = log.promised, log'.forced = log.forced
    PROVE  Promises'
<1>0. /\ socket_handler' = socket_handler /\ own' = own
      /\ shutdown_gracefully' = shutdown_gracefully /\ peer' = peer
      /\ log'.closing = log.closing /\ log'.failed = log.failed
      /\ log'.accepted = log.accepted /\ log'.wire = log.wire
      /\ log'.destroyed = log.destroyed
  BY DEF Asks, LogStep, LogFields, sockvars
<1>1. /\ Types /\ Places /\ SameCtx /\ cq' = cq
      /\ Fresh(c, t, type) /\ Walks(t, a, b) /\ Proper(t, a, b) /\ Unrelated(t, a, b)
      /\ Promises
  BY <1>0 DEF IInv, Asks, SameCtx
<1>2. /\ c \in Contexts
      /\ \A d \in Contexts \ {c} : contexts'[d] = contexts[d]
      /\ ~InUse(c, "shutdown")' /\ OthersUse(c)
  <2>1. c \in Contexts /\ \A d \in Contexts \ {c} : contexts'[d] = contexts[d]
    BY <1>1 DEF Fresh
  <2>2. ~InUse(c, "shutdown")' /\ OthersUse(c)
    BY <1>1 DEF Fresh, InUse, OthersUse
  <2>3. QED
    BY <2>1, <2>2
<1>3. log.accepted \in Nat /\ Len(log.wire) \in Nat
  <2>1. log.accepted \in Nat /\ log.wire \in Seq(Nat)
    BY <1>1 DEF Types, Log
  <2>2. QED
    BY <2>1, LenProperties
<1>4. \A d \in Contexts : contexts'[d].st # "free" =>
          IF contexts[d].st = "free" THEN contexts'[d].fd = socket_handler
                                     ELSE contexts'[d].fd = contexts[d].fd
  BY <1>1, <1>2 DEF Fresh
<1>5. \A d \in Contexts : InUse(d, "shutdown")' => InUse(d, "shutdown")
  BY <1>1, <1>2 DEF OthersUse
<1>6. /\ log'.accepted >= log.accepted /\ Len(log'.wire) >= Len(log.wire)
      /\ log'.closing \/ (\E d \in Contexts : InUse(d, "shutdown")') =>
             log.closing \/ \E d \in Contexts : InUse(d, "shutdown")
  BY <1>0, <1>3, <1>5
<1>7. QED
  BY <1>0, <1>1, <1>4, <1>6, PromisesKept

\* on_active submits the first read (tcp_socket.cpp:278).
LEMMA ActivateReceiveKeeps ==
    ASSUME IInv, NEW t \in Threads, ActivateReceive(t)
    PROVE  IInv'
<1>1. log' = log /\ log \in Log
  BY DEF ActivateReceive, IInv, Types
<1>2. /\ contexts' \in [Contexts -> Context]
      /\ staged' \in [Threads -> Contexts \cup {NoContext}]
      /\ \E c \in Contexts : Fresh(c, t, "read")
  <2>1. Types /\ send_buffer \in DoubleBuffer /\ Prepare(t, "read", send_buffer)
    BY TypeFacts DEF IInv, ActivateReceive
  <2>2. QED
    BY <2>1, PrepareFresh
<1>3. PICK c \in Contexts : Fresh(c, t, "read")
  BY <1>2
<1>4. Types'
  BY <1>2 DEF IInv, Types, TypeOK, ActivateReceive, Goto, Labels, Home, sockvars
<1>5. Walks(t, "receive", Home(t))
  BY GotoWalks DEF IInv, ActivateReceive
<1>6. Asks(t, "receive", Home(t), c, "read")
  BY <1>1, <1>3, <1>5 DEF ActivateReceive, sockvars, Asks, LogStep, Home, Proper, Unrelated,
         ReadLabels, WriteLabels, ShutLabels, FirstLabels
<1>7. Places' /\ Writes' /\ Bytes' /\ Closes'
  BY <1>6, AsksKeeps
<1>8. Promises'
  BY <1>1, <1>4, <1>6, AsksPromises
<1>9. Locks'
  BY <1>5, LocksKept DEF IInv, ActivateReceive, LockLabels, Home
<1>10. /\ Types /\ Places /\ SameCtx /\ cq' = cq /\ Proper(t, "receive", Home(t))
       /\ Unrelated(t, "receive", Home(t)) /\ Fresh(c, t, "read")
  BY <1>6 DEF IInv, Asks, SameCtx
<1>11. /\ pc[t] = "receive" /\ pc'[t] = Home(t) /\ \A s \in Threads \ {t} : pc'[s] = pc[s]
       /\ OthersUse(c)
       /\ \A w \in Workers : InReceive(w)' <=> InReceive(w)
       /\ \A d \in Contexts \ {c} : Reading(d)' => Reading(d)
       /\ Workers \subseteq Threads
  BY <1>5, <1>10, FreshFacts
<1>12. /\ \A d \in Contexts : ~InUse(d, "read")
       /\ log.notified = 0
       /\ \A s \in Threads : Activating(s) => s = t
  BY <1>11 DEF IInv, Reads, ReadRight, Activating, FirstLabels
<1>13. \A w \in Workers : own[w].ctx # NoContext => contexts[own[w].ctx].type # "read"
  BY <1>10, <1>12, TypeFacts DEF Places, WorkerPlaces, InUse
<1>14. Reads'
  <2>1. \A s \in Threads : ~Activating(s)'
    BY <1>11, <1>12 DEF Activating, FirstLabels, Home
  <2>2. \A d \in Contexts : Reading(d)' => d = c
    BY <1>11, <1>12 DEF Reading, OthersUse
  <2>3. \A w \in Workers : ~GoingDown(w)'
    <3>1. \A w \in Workers : ~GoingDown(w)
      BY <1>10, <1>13 DEF GoingDown, Places, LabelPlaces, ReadLabels, Has
    <3>2. QED
      BY <1>11, <3>1 DEF GoingDown, Home
  <2>4. \A w \in Workers : ~InReceive(w)'
    BY <1>11, <1>13 DEF InReceive
  <2>5. log'.notified = 0
    BY <1>1, <1>12
  <2>6. ReadRight'
    BY <2>1, <2>2, <2>3, <2>5 DEF ReadRight
  <2>7. ReadRing'
    BY <2>4 DEF ReadRing
  <2>8. QED
    BY <2>6, <2>7 DEF Reads
<1>15. QED
  BY <1>4, <1>7, <1>8, <1>9, <1>14 DEF IInv

\* close( force ) submits the shutdown request (socket_object.cpp:80-82).
LEMMA CloseForceKeeps ==
    ASSUME IInv, NEW t \in Threads, CloseForce(t)
    PROVE  IInv'
<1>1. /\ log \in Log /\ log.calls + 1 \in Nat
      /\ log' = [log EXCEPT !.calls = log.calls + 1, !.forced = TRUE]
  BY DEF CloseForce, IInv, Types, Log
<1>2. LogStep({"calls", "forced"}) /\ log'.forced
  BY <1>1 DEF LogStep, LogFields, Log
<1>3. /\ contexts' \in [Contexts -> Context]
      /\ staged' \in [Threads -> Contexts \cup {NoContext}]
      /\ \E c \in Contexts : Fresh(c, t, "shutdown")
  <2>1. Types /\ send_buffer \in DoubleBuffer /\ Prepare(t, "shutdown", send_buffer)
    BY TypeFacts DEF IInv, CloseForce
  <2>2. QED
    BY <2>1, PrepareFresh
<1>4. PICK c \in Contexts : Fresh(c, t, "shutdown")
  BY <1>3
<1>5. Types'
  BY <1>2, <1>3 DEF IInv, Types, TypeOK, CloseForce, Goto, Labels, Home, sockvars, LogStep
<1>6. PICK a \in {"idle", "callback"} : Walks(t, a, Home(t))
  BY GotoWalks DEF IInv, CloseForce, InUserCode
<1>7. a = "callback" \/ t \notin Workers
  BY <1>6 DEF IInv, Places, LabelPlaces, Walks
<1>8. Asks(t, a, Home(t), c, "shutdown")
  BY <1>2, <1>4, <1>6, <1>7 DEF CloseForce, sockvars, Asks, LogStep, Home, Proper,
         Unrelated, ReadLabels, WriteLabels, ShutLabels, FirstLabels
<1>9. Places' /\ Reads' /\ Writes' /\ Bytes' /\ Closes'
  BY <1>8, AsksKeeps
<1>10. Locks'
  BY <1>6, LocksKept DEF IInv, CloseForce, LockLabels, Home
<1>11. Promises'
  <2>1. /\ log'.promised = log.promised /\ log'.accepted = log.accepted
        /\ socket_handler' = socket_handler
    BY <1>2 DEF LogStep, LogFields, CloseForce, sockvars
  <2>2. socket_handler' = Fd => \A d \in Contexts :
            contexts'[d].st # "free" => contexts'[d].fd = Fd
    BY <1>4, <2>1 DEF IInv, Promises, Fresh
  <2>3. ~Undisturbed'
    BY <1>2 DEF Undisturbed
  <2>4. QED
    BY <1>2, <2>1, <2>2, <2>3 DEF IInv, Promises
<1>12. QED
  BY <1>5, <1>9, <1>10, <1>11 DEF IInv

\* An empty send buffer, and what has been accepted is on the wire, as long as the
\* socket is not being shut down.
LEMMA EmptyDrained ==
    ASSUME IInv, DEmpty(send_buffer), ~log.destroyed, socket_handler = Fd
    PROVE  Len(log.wire) = log.accepted
<1>1. Held /\ Present /\ OnWire
  BY DEF IInv, Bytes
<1>2. /\ main \in Buffer /\ sub \in Buffer /\ Len(main.data) = 0 /\ Len(sub.data) = 0
      /\ Empty(main) /\ log.accepted \in Nat
  <2>1. main \in Buffer /\ sub \in Buffer /\ log.accepted \in Nat
    BY TypeFacts DEF IInv, Types, Log
  <2>2. Empty(main) /\ Empty(sub)
    BY DEF DEmpty, main, sub
  <2>3. QED
    BY <2>1, <2>2, BufferFields
<1>3. \A c \in Contexts : ~Unpopped(c)
  <2>1. SUFFICES ASSUME NEW c \in Contexts, Unpopped(c) PROVE FALSE
    OBVIOUS
  <2>2. main = NoBuffer /\ InUse(c, "write")
    BY <1>2, <2>1 DEF IInv, Writes, WriteRight, Filled, Unpopped, Writing
  <2>3. QED
    BY <1>1, <2>2 DEF Present, IInv, Writes, WriteFirst
<1>4. Gone = log.accepted
  BY <1>2 DEF Gone
<1>5. QED
  BY <1>1, <1>3, <1>4 DEF OnWire

\* close( graceful ) finds the send buffer empty (socket_object.cpp:73-76).
LEMMA CloseNowKeeps ==
    ASSUME IInv, NEW t \in Threads, CloseNow(t)
    PROVE  IInv'
<1>1. /\ log \in Log /\ log.accepted \in Nat /\ log.promised \in Seq(Nat)
      /\ Promise \in Seq(Nat) /\ Promise # <<>>
      /\ Promise = <<log.accepted>> \/ Promise = log.promised
      /\ log' = [log EXCEPT !.promised = Promise]
  BY DEF CloseNow, IInv, Types, Log, Promise
<1>2. LogStep({"promised"}) /\ log'.promised = Promise
  BY <1>1 DEF LogStep, LogFields, Log
<1>3. /\ contexts' \in [Contexts -> Context]
      /\ staged' \in [Threads -> Contexts \cup {NoContext}]
      /\ \E c \in Contexts : Fresh(c, t, "shutdown")
  <2>1. Types /\ send_buffer \in DoubleBuffer /\ Prepare(t, "shutdown", send_buffer)
    BY TypeFacts DEF IInv, CloseNow
  <2>2. QED
    BY <2>1, PrepareFresh
<1>4. PICK c \in Contexts : Fresh(c, t, "shutdown")
  BY <1>3
<1>5. Types'
  BY <1>2, <1>3 DEF IInv, Types, TypeOK, CloseNow, Goto, Labels, sockvars, LogStep
<1>6. Walks(t, "close", "unlock")
  BY GotoWalks DEF IInv, CloseNow
<1>7. Asks(t, "close", "unlock", c, "shutdown")
  BY <1>2, <1>4, <1>6 DEF CloseNow, sockvars, Asks, LogStep, Proper,
         Unrelated, ReadLabels, WriteLabels, ShutLabels, FirstLabels
<1>8. Places' /\ Reads' /\ Writes' /\ Bytes' /\ Closes'
  BY <1>7, AsksKeeps
<1>9. Locks'
  BY <1>6, LocksKept DEF IInv, CloseNow, LockLabels
<1>10. Promises'
  <2>1. /\ log'.accepted = log.accepted /\ log'.wire = log.wire
        /\ log'.forced = log.forced /\ log'.closing = log.closing
        /\ log'.failed = log.failed /\ log'.destroyed = log.destroyed
        /\ socket_handler' = socket_handler /\ peer' = peer
    BY <1>2 DEF LogStep, LogFields, CloseNow, sockvars
  <2>2. socket_handler' = Fd => \A d \in Contexts :
            contexts'[d].st # "free" => contexts'[d].fd = Fd
    BY <1>4, <2>1 DEF IInv, Promises, Fresh
  <2>3. \A i \in DOMAIN Promise : Promise[i] <= log.accepted
    <3>1. CASE Promise = <<log.accepted>>
      BY <1>1, <3>1
    <3>2. CASE Promise = log.promised
      BY <3>2 DEF IInv, Promises
    <3>3. QED
      BY <1>1, <3>1, <3>2
  <2>4. Undisturbed' => Len(log.wire) = log.accepted
    BY <2>1, EmptyDrained DEF Undisturbed, CloseNow
  <2>5. QED
    BY <1>1, <1>2, <2>1, <2>2, <2>3, <2>4 DEF Promises
<1>11. QED
  BY <1>5, <1>8, <1>9, <1>10 DEF IInv

\* send() found the buffer empty and submits the write (tcp_socket.cpp:250-252).
LEMMA SendSubmitsKeeps ==
    ASSUME IInv, NEW t \in Threads, SendSubmits(t)
    PROVE  IInv'
<1>1. log' = log /\ log \in Log /\ send_buffer' = send_buffer /\ own' = own
      /\ socket_handler' = socket_handler
  BY DEF SendSubmits, IInv, Types, sockvars
<1>2. /\ contexts' \in [Contexts -> Context]
      /\ staged' \in [Threads -> Contexts \cup {NoContext}]
      /\ \E c \in Contexts : /\ Fresh(c, t, "write")
                             /\ contexts'[c].raw = DRaw(send_buffer)
                             /\ contexts'[c].len = DSize(send_buffer)
  <2>1. Types /\ send_buffer \in DoubleBuffer /\ Prepare(t, "write", send_buffer)
    BY TypeFacts DEF IInv, SendSubmits
  <2>2. QED
    BY <2>1, PrepareFresh
<1>3. PICK c \in Contexts : /\ Fresh(c, t, "write")
                            /\ contexts'[c].raw = DRaw(send_buffer)
                            /\ contexts'[c].len = DSize(send_buffer)
  BY <1>2
<1>4. Types'
  BY <1>2 DEF IInv, Types, TypeOK, SendSubmits, Goto, Labels, sockvars
<1>5. Walks(t, "submit", "unlock")
  BY GotoWalks DEF IInv, SendSubmits
<1>6. Asks(t, "submit", "unlock", c, "write")
  BY <1>1, <1>3, <1>5 DEF SendSubmits, sockvars, Asks, LogStep, Proper,
         Unrelated, ReadLabels, WriteLabels, ShutLabels, FirstLabels
<1>7. Places' /\ Reads' /\ Closes'
  BY <1>6, AsksKeeps
<1>8. Locks'
  BY <1>5, LocksKept DEF IInv, SendSubmits, LockLabels
<1>9. Promises'
  BY <1>1, <1>4, <1>6, AsksPromises
<1>10. /\ Types /\ Places /\ SameCtx /\ cq' = cq /\ Proper(t, "submit", "unlock")
       /\ Unrelated(t, "submit", "unlock") /\ Fresh(c, t, "write")
  BY <1>6 DEF IInv, Asks, SameCtx
<1>11. /\ pc[t] = "submit" /\ pc'[t] = "unlock" /\ \A s \in Threads \ {t} : pc'[s] = pc[s]
       /\ \A d \in Contexts \ {c} : /\ Writing(d)' <=> Writing(d)
                                    /\ Unpopped(d)' <=> Unpopped(d)
       /\ Workers \subseteq Threads
  BY <1>5, <1>10, FreshFacts
<1>12. Filled /\ (\A d \in Contexts : ~Writing(d)) /\ \A d \in Contexts : ~Unpopped(d)
  BY <1>11 DEF IInv, Writes, WriteRight, Unpopped
<1>13. \A s \in Threads \ {t} : pc[s] \notin {"push", "submit"}
  BY <1>11, LockHeld DEF LockLabels
<1>14. \A s \in Threads : pc[s] \notin {"activate", "assign"}
  BY <1>11 DEF IInv, Writes, WriteFirst
<1>15. Filled' /\ main' = main /\ sub' = sub /\ Gone' = Gone
  BY <1>1, <1>12 DEF main, sub, Filled, Gone
<1>16. Writes'
  <2>1. WriteRight'
    BY <1>11, <1>12, <1>13, <1>15 DEF WriteRight
  <2>2. WriteFirst'
    BY <1>11, <1>14 DEF WriteFirst
  <2>3. QED
    BY <1>15, <2>1, <2>2 DEF IInv, Writes
<1>17. Bytes'
  <2>1. SUFFICES ASSUME ~log.destroyed PROVE Held' /\ Present' /\ OnWire'
    BY <1>1 DEF Bytes
  <2>2. Held /\ Present /\ OnWire
    BY <2>1 DEF IInv, Bytes
  <2>3. Held'
    BY <1>1, <1>15, <2>2 DEF Held
  <2>4. Present'
    BY <1>11, <1>14, <1>15, <2>2 DEF Present
  <2>5. WriteOf(c)'
    <3>1. /\ contexts'[c].st = "prepared" /\ contexts'[c].fd = socket_handler
          /\ contexts'[c].raw = main.raw /\ contexts'[c].len = Len(main.data)
      BY <1>3 DEF Fresh, DRaw, DSize, main
    <3>2. socket_handler = Fd => Len(log.wire) = Gone
      BY <1>12, <2>2 DEF OnWire
    <3>3. Gone \in Nat /\ Len(main.data) \in Nat
      BY <2>2, TypeFacts, BufferFields DEF Held, IInv
    <3>4. Added(c)' = 0
      BY <3>1 DEF Added
    <3>5. QED
      BY <1>1, <1>15, <3>1, <3>2, <3>3, <3>4 DEF WriteOf
  <2>6. \A d \in Contexts : Unpopped(d)' => d = c
    BY <1>11, <1>12
  <2>7. socket_handler = Fd => Len(log.wire) = Gone
    BY <1>12, <2>2 DEF OnWire
  <2>8. QED
    BY <1>1, <1>15, <2>3, <2>4, <2>5, <2>6, <2>7 DEF OnWire
<1>18. QED
  BY <1>4, <1>7, <1>8, <1>9, <1>16, <1>17 DEF IInv

\* io_received submits the next read before it calls recv_event
\* (socket_object.cpp:86-93).
LEMMA IoReceivedKeeps ==
    ASSUME IInv, NEW w \in Workers, IoReceived(w)
    PROVE  IInv'
<1>0. w \in Threads /\ Workers \subseteq Threads
  BY DEF Threads
<1>1. /\ log \in Log /\ log.received + 1 \in Nat
      /\ log' = [log EXCEPT !.received = log.received + 1]
  BY DEF IoReceived, IInv, Types, Log
<1>2. LogStep({"received"})
  BY <1>1 DEF LogStep, LogFields, Log
<1>3. /\ contexts' \in [Contexts -> Context]
      /\ staged' \in [Threads -> Contexts \cup {NoContext}]
      /\ \E c \in Contexts : Fresh(c, w, "read")
  <2>1. Types /\ send_buffer \in DoubleBuffer /\ Prepare(w, "read", send_buffer)
    BY TypeFacts DEF IInv, IoReceived
  <2>2. QED
    BY <1>0, <2>1, PrepareFresh
<1>4. PICK c \in Contexts : Fresh(c, w, "read")
  BY <1>3
<1>5. Types'
  BY <1>0, <1>2, <1>3 DEF IInv, Types, TypeOK, IoReceived, Goto, Labels, sockvars, LogStep
<1>6. Walks(w, "received", "callback")
  BY <1>0, GotoWalks DEF IInv, IoReceived
<1>7. Asks(w, "received", "callback", c, "read")
  BY <1>2, <1>4, <1>6 DEF IoReceived, sockvars, Asks, LogStep, Proper,
         Unrelated, ReadLabels, WriteLabels, ShutLabels, FirstLabels
<1>8. Places' /\ Writes' /\ Bytes' /\ Closes'
  BY <1>0, <1>7, AsksKeeps
<1>9. /\ log'.promised = log.promised /\ log'.forced = log.forced
      /\ log'.notified = log.notified
  BY <1>2 DEF LogStep, LogFields
<1>10. Promises'
  BY <1>0, <1>5, <1>7, <1>9, AsksPromises
<1>11. Locks'
  BY <1>0, <1>6, LocksKept DEF IInv, IoReceived, LockLabels
<1>12. /\ Types /\ Places /\ SameCtx /\ cq' = cq /\ Proper(w, "received", "callback")
       /\ Unrelated(w, "received", "callback") /\ Fresh(c, w, "read")
  BY <1>7 DEF IInv, Asks, SameCtx
<1>13. /\ pc[w] = "received" /\ pc'[w] = "callback"
       /\ \A s \in Threads \ {w} : pc'[s] = pc[s]
       /\ OthersUse(c)
       /\ \A v \in Workers : InReceive(v)' <=> InReceive(v)
       /\ \A d \in Contexts \ {c} : Reading(d)' => Reading(d)
       /\ \A d \in Contexts \ {c} : contexts'[d] = contexts[d]
  BY <1>0, <1>6, <1>12, FreshFacts
<1>14. PICK e \in Contexts : e = own[w].ctx
  BY <1>0, <1>13, TypeFacts DEF IInv, Places, LabelPlaces, ReadLabels, Has
<1>15. e # NoContext /\ InUse(e, "read") /\ contexts[e].ring = w
  BY <1>13, <1>14 DEF IInv, Places, LabelPlaces, ReadLabels, Has, WorkerPlaces, InUse
<1>16. Reading(e)
  BY <1>13, <1>14, <1>15 DEF IInv, Places, WorkerPlaces, Reading
<1>17. \A d \in Contexts : Reading(d)' => d = c
  <2>1. ~Reading(e)'
    BY <1>0, <1>12, <1>13, <1>14 DEF Reading, SameCtx
  <2>2. \A d \in Contexts : Reading(d) => d = e
    BY <1>16 DEF IInv, Reads, ReadRight
  <2>3. QED
    BY <1>13, <2>1, <2>2
<1>18. Reads'
  <2>1. \A s \in Threads : ~Activating(s)'
    <3>1. \A s \in Threads : ~Activating(s)
      BY <1>15 DEF IInv, Reads, ReadRight
    <3>2. QED
      BY <1>13, <3>1 DEF Activating, FirstLabels
  <2>2. \A v \in Workers : ~GoingDown(v)'
    <3>1. \A v \in Workers : ~GoingDown(v)
      BY <1>16 DEF IInv, Reads, ReadRight
    <3>2. QED
      BY <1>0, <1>13, <3>1 DEF GoingDown
  <2>3. log'.notified = 0
    BY <1>9, <1>16 DEF IInv, Reads, ReadRight
  <2>4. ReadRight'
    BY <1>17, <2>1, <2>2, <2>3 DEF ReadRight
  <2>5. InReceive(w)
    BY <1>14, <1>15 DEF InReceive, InUse
  <2>6. \A v \in Workers : InReceive(v) => v = w
    BY <2>5 DEF IInv, Reads, ReadRing
  <2>7. \A d \in Contexts : InUse(d, "read")' => contexts'[d].ring = w
    <3>1. \A d \in Contexts : InUse(d, "read") => contexts[d].ring = w
      BY <2>5 DEF IInv, Reads, ReadRing
    <3>2. contexts'[c].ring = w
      BY <1>4 DEF Fresh
    <3>3. QED
      BY <1>13, <3>1, <3>2 DEF OthersUse
  <2>8. ReadRing'
    BY <1>13, <2>6, <2>7 DEF ReadRing
  <2>9. QED
    BY <2>4, <2>8 DEF Reads
<1>19. QED
  BY <1>5, <1>8, <1>10, <1>11, <1>18 DEF IInv

-----------------------------------------------------------------------------
(* The end of io_sent.                                                     *)

\* What io_sent does to the requests when it is through with its own: a write of what is
\* left, the shutdown that a graceful close asked for, or nothing.
Follower(w, d) == \/ ~DEmpty(d) /\ Prepare(w, "write", d)
                  \/ DEmpty(d) /\ shutdown_gracefully /\ Prepare(w, "shutdown", d)
                  \/ DEmpty(d) /\ UNCHANGED <<contexts, staged>>

\* Nobody writes but the follower.
LEMMA FollowerFacts ==
    ASSUME IInv, NEW w \in Workers, NEW d \in DoubleBuffer, Follower(w, d),
           UNCHANGED <<own, cq>>, Walks(w, "elevate", "unlock")
    PROVE  /\ contexts' \in [Contexts -> Context]
           /\ staged' \in [Threads -> Contexts \cup {NoContext}]
           /\ Places'
           /\ \A e \in Contexts : InUse(e, "read")' =>
                  InUse(e, "read") /\ contexts'[e].ring = contexts[e].ring
           /\ \A e \in Contexts : Reading(e)' => Reading(e)
           /\ \A v \in Workers : InReceive(v)' <=> InReceive(v)
           /\ \A e, f \in Contexts : Writing(e)' /\ Writing(f)' => e = f
           /\ \A e \in Contexts : Writing(e)' =>
                  /\ ~DEmpty(d) /\ contexts'[e].st = "prepared"
                  /\ contexts'[e].fd = socket_handler
                  /\ contexts'[e].raw = DRaw(d) /\ contexts'[e].len = DSize(d)
           /\ \A e \in Contexts : InUse(e, "shutdown")' =>
                  InUse(e, "shutdown") \/ (shutdown_gracefully /\ DEmpty(d))
           /\ \A e \in Contexts : contexts'[e].st # "free" =>
                  IF contexts[e].st = "free" THEN contexts'[e].fd = socket_handler
                                             ELSE contexts'[e].fd = contexts[e].fd
           /\ \A e \in Contexts : Writing(e) => own[w].ctx = e
<1>0. /\ Types /\ Places /\ Reads /\ Writes /\ SameCtx /\ cq' = cq /\ own' = own
      /\ w \in Threads /\ Workers \subseteq Threads
      /\ Proper(w, "elevate", "unlock")
      /\ pc[w] = "elevate" /\ pc'[w] = "unlock"
      /\ \A s \in Threads \ {w} : pc'[s] = pc[s]
  BY DEF IInv, SameCtx, Threads, Proper, Walks, ReadLabels, WriteLabels, ShutLabels,
         FirstLabels
<1>1. PICK o \in Contexts : o = own[w].ctx
  BY <1>0, TypeFacts DEF Places, LabelPlaces, WriteLabels, Has
<1>2. /\ InUse(o, "write") /\ o # NoContext
      /\ \A v \in Workers : own[v].ctx = o => v = w
  BY <1>0, <1>1, TypeFacts DEF Places, LabelPlaces, WriteLabels, Has, WorkerPlaces, InUse
<1>3. \A e \in Contexts : Writing(e) => e = o
  <2>1. Writing(o)
    BY <1>0, <1>1, <1>2 DEF Writing
  <2>2. QED
    BY <1>0, <2>1 DEF Writes, WriteRight
<1>4. ASSUME NEW type \in {"read", "write", "shutdown"}, type # "read", NEW c,
             Fresh(c, w, type)
      PROVE  /\ Places'
             /\ \A e \in Contexts : InUse(e, "read")' =>
                    InUse(e, "read") /\ contexts'[e].ring = contexts[e].ring
             /\ \A e \in Contexts : Reading(e)' => Reading(e)
             /\ \A v \in Workers : InReceive(v)' <=> InReceive(v)
             /\ \A e \in Contexts : Writing(e)' => e = c /\ type = "write"
             /\ \A e \in Contexts : InUse(e, "shutdown")' =>
                    InUse(e, "shutdown") \/ type = "shutdown"
             /\ \A e \in Contexts : contexts'[e].st # "free" =>
                    IF contexts[e].st = "free" THEN contexts'[e].fd = socket_handler
                                               ELSE contexts'[e].fd = contexts[e].fd
  <2>1. Places'
    BY <1>0, <1>4, FreshPlaces
  <2>2. /\ \A v \in Workers : InReceive(v)' <=> InReceive(v)
        /\ Reading(c)' <=> type = "read"
        /\ Writing(c)' <=> type = "write"
    BY <1>0, <1>4, FreshRights
  <2>3. OthersUse(c) /\ (\A x : InUse(c, x)' <=> x = type)
    BY <1>4 DEF Fresh, InUse, OthersUse
  <2>4. \A e \in Contexts : e # c => contexts'[e] = contexts[e]
    BY <1>4 DEF Fresh
  <2>5. \A e \in Contexts : InUse(e, "read")' =>
            InUse(e, "read") /\ contexts'[e].ring = contexts[e].ring
    BY <1>4, <2>3, <2>4 DEF OthersUse
  <2>6. \A e \in Contexts : Reading(e)' => Reading(e)
    BY <1>0, <1>4, <2>2, <2>5 DEF Reading
  <2>7. \A e \in Contexts : Writing(e)' => e = c /\ type = "write"
    <3>1. ASSUME NEW e \in Contexts, e # c, Writing(e)'
          PROVE  Writing(e)
      BY <1>0, <2>3, <3>1 DEF Writing, OthersUse
    <3>2. o # c => ~Writing(o)'
      BY <1>0, <1>1 DEF Writing
    <3>3. QED
      BY <1>3, <2>2, <3>1, <3>2
  <2>8. \A e \in Contexts : InUse(e, "shutdown")' =>
            InUse(e, "shutdown") \/ type = "shutdown"
    BY <2>3 DEF OthersUse
  <2>9. \A e \in Contexts : contexts'[e].st # "free" =>
            IF contexts[e].st = "free" THEN contexts'[e].fd = socket_handler
                                       ELSE contexts'[e].fd = contexts[e].fd
    BY <1>4, <2>4 DEF Fresh
  <2>10. QED
    BY <2>1, <2>2, <2>5, <2>6, <2>7, <2>8, <2>9
<1>5. \A e \in Contexts : Writing(e) => own[w].ctx = e
  BY <1>1, <1>3
<1>6. CASE ~DEmpty(d) /\ Prepare(w, "write", d)
  <2>1. /\ contexts' \in [Contexts -> Context]
        /\ staged' \in [Threads -> Contexts \cup {NoContext}]
        /\ \E c \in Contexts : /\ Fresh(c, w, "write")
                               /\ contexts'[c].raw = DRaw(d) /\ contexts'[c].len = DSize(d)
    BY <1>0, <1>6, PrepareFresh
  <2>2. PICK c \in Contexts : /\ Fresh(c, w, "write")
                              /\ contexts'[c].raw = DRaw(d) /\ contexts'[c].len = DSize(d)
    BY <2>1
  <2>3. contexts'[c].st = "prepared" /\ contexts'[c].fd = socket_handler
    BY <2>2 DEF Fresh
  <2>4. /\ Places'
        /\ \A e \in Contexts : InUse(e, "read")' =>
               InUse(e, "read") /\ contexts'[e].ring = contexts[e].ring
        /\ \A e \in Contexts : Reading(e)' => Reading(e)
        /\ \A v \in Workers : InReceive(v)' <=> InReceive(v)
        /\ \A e \in Contexts : Writing(e)' => e = c
        /\ \A e \in Contexts : InUse(e, "shutdown")' => InUse(e, "shutdown")
        /\ \A e \in Contexts : contexts'[e].st # "free" =>
               IF contexts[e].st = "free" THEN contexts'[e].fd = socket_handler
                                          ELSE contexts'[e].fd = contexts[e].fd
    BY <1>4, <2>2
  <2>5. QED
    BY <1>5, <1>6, <2>1, <2>2, <2>3, <2>4
<1>7. CASE DEmpty(d) /\ shutdown_gracefully /\ Prepare(w, "shutdown", d)
  <2>1. /\ contexts' \in [Contexts -> Context]
        /\ staged' \in [Threads -> Contexts \cup {NoContext}]
        /\ \E c \in Contexts : Fresh(c, w, "shutdown")
    BY <1>0, <1>7, PrepareFresh
  <2>2. PICK c \in Contexts : Fresh(c, w, "shutdown")
    BY <2>1
  <2>3. /\ Places'
        /\ \A e \in Contexts : InUse(e, "read")' =>
               InUse(e, "read") /\ contexts'[e].ring = contexts[e].ring
        /\ \A e \in Contexts : Reading(e)' => Reading(e)
        /\ \A v \in Workers : InReceive(v)' <=> InReceive(v)
        /\ \A e \in Contexts : ~Writing(e)'
        /\ \A e \in Contexts : contexts'[e].st # "free" =>
               IF contexts[e].st = "free" THEN contexts'[e].fd = socket_handler
                                          ELSE contexts'[e].fd = contexts[e].fd
    BY <1>4, <2>2
  <2>4. QED
    BY <1>5, <1>7, <2>1, <2>3
<1>8. CASE DEmpty(d) /\ UNCHANGED <<contexts, staged>>
  <2>1. Calm /\ contexts' = contexts /\ staged' = staged
    BY <1>0, <1>8 DEF Calm
  <2>2. Places'
    BY <1>0, <2>1, CalmPlaces
  <2>3. \A e \in Contexts : \A x : InUse(e, x)' <=> InUse(e, x)
    BY <2>1 DEF InUse
  <2>4. \A v \in Workers : InReceive(v)' <=> InReceive(v)
    BY <1>0, <2>1 DEF InReceive
  <2>5. \A e \in Contexts : Reading(e)' => Reading(e)
    BY <1>0, <2>3 DEF Reading
  <2>6. \A e \in Contexts : ~Writing(e)'
    <3>1. ~Writing(o)'
      BY <1>0, <1>1 DEF Writing
    <3>2. \A e \in Contexts : Writing(e)' => Writing(e)
      BY <1>0, <2>3 DEF Writing
    <3>3. QED
      BY <1>3, <3>1, <3>2
  <2>7. /\ contexts' \in [Contexts -> Context]
        /\ staged' \in [Threads -> Contexts \cup {NoContext}]
    BY <1>0, <2>1, TypeFacts
  <2>8. QED
    BY <1>5, <2>1, <2>2, <2>3, <2>4, <2>5, <2>6, <2>7
<1>9. QED
  BY <1>6, <1>7, <1>8 DEF Follower

\* io_sent elevates and goes on with what is left, or reports that all has left
\* (socket_object.cpp:99-110).
LEMMA SentElevatesKeeps ==
    ASSUME IInv, NEW w \in Workers, SentElevates(w)
    PROVE  IInv'
<1> DEFINE d == Elevated(send_buffer)
<1>0. w \in Threads /\ Workers \subseteq Threads
  BY DEF Threads
<1>1. /\ send_buffer' = d /\ main' = d.main /\ sub' = d.sub
      /\ socket_handler' = socket_handler /\ shutdown_gracefully' = shutdown_gracefully
      /\ own' = own /\ cq' = cq /\ lock' = lock /\ peer' = peer
  BY DEF SentElevates, main, sub
<1>2. LogStep({"completed"})
  <2>1. /\ log \in Log /\ log.completed + 1 \in Nat
        /\ log' = log \/ log' = [log EXCEPT !.completed = log.completed + 1]
    BY DEF SentElevates, IInv, Types, Log
  <2>2. QED
    BY <2>1 DEF LogStep, LogFields, Log
<1>3. /\ log'.accepted = log.accepted /\ log'.wire = log.wire
      /\ log'.promised = log.promised /\ log'.notified = log.notified
      /\ log'.forced = log.forced /\ log'.closing = log.closing
      /\ log'.failed = log.failed /\ log'.destroyed = log.destroyed
      /\ log'.closed = log.closed /\ log'.overlap = log.overlap /\ log' \in Log
  BY <1>2 DEF LogStep, LogFields
<1>4. send_buffer \in DoubleBuffer /\ Solid(send_buffer.main) /\ Solid(send_buffer.sub)
  BY TypeFacts DEF IInv, Writes, main, sub
<1>5. /\ d \in DoubleBuffer /\ Solid(d.main) /\ Solid(d.sub)
      /\ DEmpty(d) <=> DEmpty(send_buffer)
      /\ Empty(d.main) => DEmpty(d)
      /\ d.main = NoBuffer => main = NoBuffer
      /\ Len(d.main.data) + Len(d.sub.data) = Len(main.data) + Len(sub.data)
      /\ \A n \in Nat : Follows(main.data, n) /\ Follows(sub.data, n + Len(main.data)) =>
                        Follows(d.main.data, n) /\ Follows(d.sub.data, n + Len(d.main.data))
  BY <1>4, ElevatedKeeps DEF main, sub
<1>6. Follower(w, d)
  BY DEF SentElevates, Follower, OnSendComplete, Prepare
<1> HIDE DEF d
<1>7. Walks(w, "elevate", "unlock")
  BY <1>0, GotoWalks DEF IInv, SentElevates
<1>8. pc[w] = "elevate" /\ pc'[w] = "unlock" /\ \A s \in Threads \ {w} : pc'[s] = pc[s]
  BY <1>7 DEF Walks
<1>9. /\ contexts' \in [Contexts -> Context]
      /\ staged' \in [Threads -> Contexts \cup {NoContext}]
      /\ Places'
      /\ \A e \in Contexts : InUse(e, "read")' =>
             InUse(e, "read") /\ contexts'[e].ring = contexts[e].ring
      /\ \A e \in Contexts : Reading(e)' => Reading(e)
      /\ \A v \in Workers : InReceive(v)' <=> InReceive(v)
      /\ \A e, f \in Contexts : Writing(e)' /\ Writing(f)' => e = f
      /\ \A e \in Contexts : Writing(e)' =>
             /\ ~DEmpty(d) /\ contexts'[e].st = "prepared"
             /\ contexts'[e].fd = socket_handler
             /\ contexts'[e].raw = DRaw(d) /\ contexts'[e].len = DSize(d)
      /\ \A e \in Contexts : InUse(e, "shutdown")' =>
             InUse(e, "shutdown") \/ (shutdown_gracefully /\ DEmpty(d))
      /\ \A e \in Contexts : contexts'[e].st # "free" =>
             IF contexts[e].st = "free" THEN contexts'[e].fd = socket_handler
                                        ELSE contexts'[e].fd = contexts[e].fd
      /\ \A e \in Contexts : Writing(e) => own[w].ctx = e
  BY <1>1, <1>5, <1>6, <1>7, FollowerFacts
<1>10. Types'
  BY <1>0, <1>1, <1>3, <1>5, <1>9 DEF IInv, Types, TypeOK, SentElevates, Goto, Labels,
         DoubleBuffer, Buffer
<1>11. Reads'
  <2>1. /\ \A s \in Threads : Activating(s)' => Activating(s)
        /\ \A v \in Workers : GoingDown(v)' => GoingDown(v)
        /\ Reads
    BY <1>0, <1>8 DEF Activating, FirstLabels, GoingDown, IInv
  <2>2. QED
    BY <1>3, <1>9, <2>1, ReadsKept
<1>12. Locks'
  BY <1>0, <1>7, LocksKept DEF IInv, SentElevates, LockLabels
<1>13. \A s \in Threads : pc'[s] \notin {"push", "submit"}
  BY <1>0, <1>8, LockHeld DEF LockLabels
<1>14. \A s \in Threads : pc[s] \notin {"activate", "assign"}
  <2>1. PICK o \in Contexts : o = own[w].ctx
    BY <1>0, <1>8, TypeFacts DEF IInv, Places, LabelPlaces, WriteLabels, Has
  <2>2. InUse(o, "write")
    BY <1>8, <2>1 DEF IInv, Places, LabelPlaces, WriteLabels, Has, WorkerPlaces, InUse
  <2>3. QED
    BY <2>2 DEF IInv, Writes, WriteFirst
<1>15. \A s \in Threads : pc'[s] \notin {"activate", "assign"}
  BY <1>0, <1>8, <1>14
<1>16. Writes'
  <2>1. \A e \in Contexts : Unpopped(e)' => Filled'
    BY <1>1, <1>5, <1>9 DEF Unpopped, Filled
  <2>2. WriteRight'
    BY <1>9, <1>13, <2>1 DEF WriteRight
  <2>3. WriteFirst'
    BY <1>15 DEF WriteFirst
  <2>4. QED
    BY <1>1, <1>5, <2>2, <2>3 DEF Writes
<1>17. Bytes'
  <2>1. SUFFICES ASSUME ~log.destroyed PROVE Held' /\ Present' /\ OnWire'
    BY <1>3 DEF Bytes
  <2>2. Held /\ Present /\ OnWire
    BY <2>1 DEF IInv, Bytes
  <2>3. /\ Len(main.data) \in Nat /\ Len(sub.data) \in Nat
        /\ Len(d.main.data) \in Nat /\ Len(d.sub.data) \in Nat
        /\ log.accepted \in Nat
    <3>1. main \in Buffer /\ sub \in Buffer /\ d.main \in Buffer /\ d.sub \in Buffer
      BY <1>5, TypeFacts, DoubleFields DEF IInv
    <3>2. QED
      BY <3>1, BufferFields DEF IInv, Types, Log
  <2>4. Gone' = Gone /\ Gone \in Nat
    <3>1. ASSUME NEW n \in Nat, NEW i \in Nat, NEW j \in Nat, NEW k \in Nat, NEW l \in Nat,
                 i + j = k + l
          PROVE  n - i - j = n - k - l
      BY <3>1
    <3>2. PICK n \in Nat, i \in Nat, j \in Nat, k \in Nat, l \in Nat :
              /\ n = log.accepted /\ i = Len(d.main.data) /\ j = Len(d.sub.data)
              /\ k = Len(main.data) /\ l = Len(sub.data)
      BY <2>3
    <3>3. i + j = k + l
      BY <1>5, <3>2
    <3>4. n - i - j = n - k - l
      BY <3>1, <3>3
    <3>5. Gone' = n - i - j /\ Gone = n - k - l
      BY <1>1, <1>3, <3>2 DEF Gone
    <3>6. QED
      BY <2>2, <3>4, <3>5 DEF Held
  <2>5. Held'
    BY <1>1, <1>3, <1>5, <2>2, <2>4 DEF Held
  <2>6. Present'
    <3>1. main' # NoBuffer
      BY <1>1, <1>5, <1>14, <2>2 DEF Present
    <3>2. QED
      BY <1>0, <1>8, <2>2, <3>1 DEF Present
  <2>7. socket_handler = Fd => Len(log.wire) = Gone
    <3>1. \A e \in Contexts : ~Unpopped(e)
      BY <1>8, <1>9 DEF Unpopped
    <3>2. QED
      BY <2>2, <3>1 DEF OnWire
  <2>8. ASSUME NEW e \in Contexts, Unpopped(e)'
        PROVE  WriteOf(e)'
    <3>1. /\ contexts'[e].st = "prepared" /\ contexts'[e].raw = DRaw(d)
          /\ contexts'[e].len = DSize(d) /\ InUse(e, "write")'
      BY <1>9, <2>8 DEF Unpopped, Writing
    <3>2. contexts'[e].raw = main'.raw /\ contexts'[e].len = Len(main'.data)
      BY <1>1, <3>1 DEF DRaw, DSize
    <3>3. contexts'[e].fd = Fd => Len(log'.wire) = Gone' + Added(e)'
      <4>1. Added(e)' = 0
        BY <3>1 DEF Added
      <4>2. contexts'[e].fd = socket_handler
        BY <1>9, <2>8 DEF Unpopped
      <4>3. QED
        BY <1>3, <2>4, <2>7, <4>1, <4>2
    <3>4. Len(main'.data) \in Nat
      BY <1>1, <2>3
    <3>5. QED
      BY <3>1, <3>2, <3>3, <3>4 DEF WriteOf
  <2>9. OnWire'
    BY <1>1, <1>3, <2>4, <2>7, <2>8 DEF OnWire
  <2>10. QED
    BY <2>5, <2>6, <2>9
<1>18. Promises'
  <2>1. Promises /\ (Undisturbed' <=> Undisturbed)
    BY <1>1, <1>3 DEF IInv, Undisturbed
  <2>2. socket_handler' = Fd => \A e \in Contexts :
            contexts'[e].st # "free" => contexts'[e].fd = Fd
    BY <1>1, <1>9, <2>1 DEF Promises
  <2>3. ~log.forced /\ (log.closing \/ shutdown_gracefully
                                    \/ \E e \in Contexts : InUse(e, "shutdown")') =>
            log.promised # <<>>
    BY <1>9, <2>1 DEF Promises
  <2>4. Undisturbed /\ DEmpty(d) =>
            \A i \in DOMAIN log.promised : log.promised[i] <= Len(log.wire)
    <3>1. Undisturbed /\ DEmpty(d) => Len(log.wire) = log.accepted
      BY <1>5, EmptyDrained DEF Undisturbed
    <3>2. QED
      BY <2>1, <3>1 DEF Promises
  <2>5. Undisturbed /\ (log.closing \/ \E e \in Contexts : InUse(e, "shutdown")') =>
            \A i \in DOMAIN log.promised : log.promised[i] <= Len(log.wire)
    BY <1>9, <2>1, <2>4 DEF Promises
  <2>6. QED
    BY <1>1, <1>3, <2>1, <2>2, <2>3, <2>5 DEF Promises
<1>19. Closes'
  <2>1. /\ \A v \in Workers : pc'[v] \in {"copy", "zero", "closeFd"} =>
               pc[v] = pc'[v] /\ own'[v].fd = own[v].fd
        /\ \A v \in Workers : pc[v] = "closeFd" => pc'[v] = "closeFd"
        /\ Closes
    BY <1>0, <1>1, <1>8 DEF IInv
  <2>2. QED
    BY <1>1, <1>3, <2>1, ClosesKept
<1>20. QED
  BY <1>9, <1>10, <1>11, <1>12, <1>16, <1>17, <1>18, <1>19 DEF IInv

-----------------------------------------------------------------------------
(* Steps of the kernel and the peer, while no thread moves.                *)

\* The history says of the closes that the shutdown request of one is with the kernel.
Told == log'.closing => log.closing \/ \E c \in Contexts : InUse(c, "shutdown")

\* No thread moves and no context is taken or freed: every layer but those about places
\* and bytes is kept.
LEMMA StillKeeps ==
    ASSUME IInv, Types', SameUse, UNCHANGED <<sockvars, pc, own, lock>>,
           LogStep({"wire", "closing"}), Told, Len(log'.wire) >= Len(log.wire),
           peer.done => peer'.done
    PROVE  Reads' /\ Locks' /\ Writes' /\ Promises' /\ Closes'
<1>1. /\ pc' = pc /\ own' = own /\ lock' = lock /\ send_buffer' = send_buffer
      /\ socket_handler' = socket_handler /\ shutdown_gracefully' = shutdown_gracefully
      /\ Types /\ Reads /\ Locks /\ Writes /\ Promises /\ Closes
  BY DEF sockvars, IInv
<1>2. /\ log'.notified = log.notified /\ log'.accepted = log.accepted
      /\ log'.promised = log.promised /\ log'.forced = log.forced
      /\ log'.failed = log.failed /\ log'.destroyed = log.destroyed
      /\ log'.closed = log.closed /\ log'.overlap = log.overlap /\ log.accepted \in Nat
  BY <1>1 DEF LogStep, LogFields, Types, Log
<1>3. /\ \A c \in Contexts : \A type : InUse(c, type)' <=> InUse(c, type)
      /\ \A w \in Workers : InReceive(w)' <=> InReceive(w)
      /\ \A c \in Contexts : Reading(c)' <=> Reading(c)
      /\ \A c \in Contexts : Writing(c)' <=> Writing(c)
      /\ \A c \in Contexts : Unpopped(c)' <=> Unpopped(c)
  BY <1>1, StillRights
<1>4. Reads'
  <2>1. /\ \A s \in Threads : Activating(s)' => Activating(s)
        /\ \A v \in Workers : GoingDown(v)' => GoingDown(v)
    BY <1>1 DEF Activating, GoingDown
  <2>2. \A c \in Contexts : InUse(c, "read")' =>
            InUse(c, "read") /\ contexts'[c].ring = contexts[c].ring
    BY <1>3 DEF SameUse
  <2>3. QED
    BY <1>1, <1>2, <1>3, <2>1, <2>2, ReadsKept
<1>5. Locks'
  BY <1>1 DEF Locks
<1>6. Writes'
  <2>1. /\ \A s \in Threads : pc'[s] \in {"activate", "assign"} =>
               pc[s] \in {"activate", "assign"}
        /\ \A s \in Threads : pc'[s] = "push" =>
               pc[s] = "push" /\ own'[s].first = own[s].first
        /\ \A s \in Threads : pc'[s] = "submit" => pc[s] = "submit"
    BY <1>1
  <2>2. QED
    BY <1>1, <1>3, <2>1, WritesKept
<1>7. Promises'
  <2>1. \A c \in Contexts : contexts'[c].st # "free" =>
            IF contexts[c].st = "free" THEN contexts'[c].fd = socket_handler
                                       ELSE contexts'[c].fd = contexts[c].fd
    BY DEF SameUse
  <2>2. log'.closing \/ (\E c \in Contexts : InUse(c, "shutdown")') =>
            log.closing \/ \E c \in Contexts : InUse(c, "shutdown")
    BY <1>3 DEF Told
  <2>3. log'.accepted >= log.accepted
    BY <1>2
  <2>4. QED
    BY <1>1, <1>2, <2>1, <2>2, <2>3, PromisesKept
<1>8. Closes'
  BY <1>1, <1>2, ClosesKept
<1>9. QED
  BY <1>4, <1>5, <1>6, <1>7, <1>8

\* No thread moves and the kernel puts nothing on the wire.
LEMMA BytesStill ==
    ASSUME IInv, SameUse, UNCHANGED <<sockvars, pc, own>>,
           LogStep({"closing"}),
           \A c \in Contexts : Unpopped(c) /\ WriteOf(c) => WriteOf(c)'
    PROVE  Bytes'
<1>1. /\ pc' = pc /\ send_buffer' = send_buffer /\ socket_handler' = socket_handler
      /\ Types /\ Bytes
  BY DEF sockvars, IInv
<1>2. /\ log'.accepted = log.accepted /\ log'.wire = log.wire
      /\ log'.destroyed = log.destroyed
  BY DEF LogStep, LogFields
<1>3. main' = main /\ sub' = sub /\ Gone' = Gone
  BY <1>1, <1>2 DEF main, sub, Gone
<1>4. \A c \in Contexts : Unpopped(c)' <=> Unpopped(c)
  BY <1>1, StillRights
<1>5. Held => Held'
  BY <1>2, <1>3 DEF Held
<1>6. Present => Present'
  BY <1>1, <1>3 DEF Present
<1>7. OnWire => OnWire'
  BY <1>1, <1>2, <1>3, <1>4 DEF OnWire
<1>8. QED
  BY <1>1, <1>2, <1>5, <1>6, <1>7 DEF Bytes

\* The request c is answered and nothing is put on the wire.
LEMMA AnsweredBytes ==
    ASSUME IInv, NEW c, NEW res \in Int, Answered(c, res),
           UNCHANGED <<sockvars, pc, own>>, LogStep({"closing"}),
           InUse(c, "write") =>
               res <= 0 \/ (contexts[c].fd # Fd /\ res <= contexts[c].len)
    PROVE  SameUse /\ Bytes'
<1>1. SameUse
  BY DEF Answered, SameUse
<1>2. /\ send_buffer' = send_buffer /\ log'.accepted = log.accepted
      /\ log'.wire = log.wire /\ Types
  BY DEF sockvars, LogStep, LogFields, IInv
<1>3. main' = main /\ Gone' = Gone
  BY <1>2 DEF main, sub, Gone
<1>4. ASSUME NEW d \in Contexts, Unpopped(d), WriteOf(d)
      PROVE  WriteOf(d)'
  <2>1. CASE d # c
    <3>1. contexts'[d] = contexts[d]
      BY <2>1 DEF Answered
    <3>2. QED
      BY <1>2, <1>3, <1>4, <3>1 DEF WriteOf, Added
  <2>2. CASE d = c
    <3>1. /\ contexts[c].st \in {"prepared", "pending"} /\ InUse(c, "write")
          /\ contexts'[c].st = "done" /\ contexts'[c].res = res
          /\ contexts'[c].fd = contexts[c].fd
      BY <1>4, <2>2 DEF Answered, Unpopped, Writing
    <3>2. Len(main.data) \in Nat /\ contexts[c].len \in Nat
      BY <1>2, <2>2, TypeFacts, BufferFields, ContextFields
    <3>3. contexts[c].len <= Len(main.data) /\ (contexts[c].fd = Fd => Added(c) = 0)
      BY <1>4, <2>2, <3>1 DEF WriteOf, Added
    <3>4. res <= Len(main.data)
      BY <3>1, <3>2, <3>3
    <3>5. contexts[c].fd = Fd => Added(c)' = 0
      BY <3>1 DEF Added
    <3>6. contexts[c].fd = Fd => Len(log.wire) = Gone + 0
      BY <1>4, <2>2, <3>3 DEF WriteOf
    <3>7. QED
      BY <1>2, <1>3, <2>2, <3>1, <3>4, <3>5, <3>6 DEF WriteOf
  <2>3. QED
    BY <2>1, <2>2
<1>5. QED
  BY <1>1, <1>4, BytesStill

\* The kernel answers c, and puts nothing on the wire.
LEMMA AnswerKeeps ==
    ASSUME IInv, NEW c \in Contexts, NEW res \in Int,
           contexts[c].st \in {"prepared", "pending"}, Completed(c, res),
           UNCHANGED <<sockvars, lock, pc, own, peer>>, file' \in File,
           staged' \in [Threads -> Contexts \cup {NoContext}],
           \A t \in Threads : staged'[t] # NoContext =>
               staged'[t] = staged[t] /\ staged[t] # c,
           LogStep({"closing"}), Told,
           InUse(c, "write") =>
               res <= 0 \/ (contexts[c].fd # Fd /\ res <= contexts[c].len)
    PROVE  IInv'
<1>1. /\ contexts' \in [Contexts -> Context]
      /\ cq' \in [Workers -> Seq(Contexts)]
      /\ Answered(c, res)
  BY CompletedAnswers DEF IInv
<1>2. Types'
  BY <1>1 DEF IInv, Types, TypeOK, sockvars, LogStep
<1>3. Places'
  BY <1>1, AnsweredPlaces DEF IInv
<1>4. SameUse /\ Bytes'
  BY <1>1, AnsweredBytes
<1>5. Reads' /\ Locks' /\ Writes' /\ Promises' /\ Closes'
  <2>1. LogStep({"wire", "closing"}) /\ log'.wire = log.wire
    BY DEF LogStep, LogFields
  <2>2. Len(log'.wire) >= Len(log.wire)
    <3>1. log.wire \in Seq(Nat)
      BY DEF IInv, Types, Log
    <3>2. Len(log.wire) \in Nat
      BY <3>1, LenProperties
    <3>3. QED
      BY <2>1, <3>2
  <2>3. peer.done => peer'.done
    OBVIOUS
  <2>4. QED
    BY <1>2, <1>4, <2>1, <2>2, <2>3, StillKeeps
<1>6. QED
  BY <1>2, <1>3, <1>4, <1>5 DEF IInv

\* A thread gives the context it has prepared to the kernel (io_uring_submit,
\* io_service.cpp:368), which may refuse the descriptor.
LEMMA EnterKeeps ==
    ASSUME IInv, NEW t \in Threads, Enter(t)
    PROVE  IInv'
<1>1. PICK c \in Contexts : c = staged[t]
  BY TypeFacts DEF IInv, Enter
<1>2. contexts[c].st = "prepared"
  BY <1>1 DEF IInv, Places, StagedPlaces, Enter
<1>3. /\ staged' \in [Threads -> Contexts \cup {NoContext}]
      /\ staged'[t] = NoContext /\ \A s \in Threads \ {t} : staged'[s] = staged[s]
  BY TypeFacts DEF IInv, Enter
<1>4. \A s \in Threads : staged'[s] # NoContext => staged'[s] = staged[s] /\ staged[s] # c
  BY <1>1, <1>3 DEF IInv, Places, StagedPlaces, Enter
<1>5. /\ log \in Log /\ (log.closing \/ contexts[c].type = "shutdown") \in BOOLEAN
      /\ log' = [log EXCEPT !.closing = log.closing \/ contexts[c].type = "shutdown"]
  BY <1>1 DEF Enter, IInv, Types, Log
<1>6. /\ LogStep({"closing"})
      /\ log'.closing <=> (log.closing \/ contexts[c].type = "shutdown")
  BY <1>5 DEF LogStep, LogFields, Log
<1>7. Told
  BY <1>2, <1>6 DEF Told, InUse
<1>8. UNCHANGED <<sockvars, lock, pc, own, peer>> /\ file' = file /\ file \in File
  BY DEF Enter, IInv, Types
<1>9. CASE Completed(c, -1)
  <2>1. -1 \in Int /\ -1 <= 0
    OBVIOUS
  <2>2. QED
    BY <1>2, <1>3, <1>4, <1>6, <1>7, <1>8, <1>9, <2>1, AnswerKeeps
<1>10. CASE contexts' = [contexts EXCEPT ![c].st = "pending"] /\ cq' = cq
  <2> DEFINE y == [contexts[c] EXCEPT !.st = "pending"]
  <2>1. /\ y \in Context /\ y.st = "pending" /\ y.type = contexts[c].type
        /\ y.ring = contexts[c].ring /\ y.fd = contexts[c].fd /\ y.raw = contexts[c].raw
        /\ y.len = contexts[c].len /\ y.res = contexts[c].res
    BY TypeFacts DEF IInv, Context
  <2>2. contexts' = [contexts EXCEPT ![c] = y]
    BY <1>10, TypeFacts DEF IInv
  <2> HIDE DEF y
  <2>3. /\ contexts' \in [Contexts -> Context] /\ contexts'[c] = y
        /\ \A d \in Contexts \ {c} : contexts'[d] = contexts[d]
    BY <2>1, <2>2, TypeFacts DEF IInv
  <2>4. SameUse
    BY <1>2, <2>1, <2>3 DEF SameUse
  <2>5. Types'
    BY <1>3, <1>6, <1>8, <1>10, <2>3 DEF IInv, Types, TypeOK, sockvars, LogStep
  <2>6. Bytes'
    <3>1. \A d \in Contexts : Unpopped(d) /\ WriteOf(d) => WriteOf(d)'
      <4>1. main' = main /\ Gone' = Gone /\ log'.wire = log.wire
        BY <1>6, <1>8 DEF main, sub, Gone, sockvars, LogStep, LogFields
      <4>2. WriteOf(c) => WriteOf(c)'
        BY <1>2, <2>1, <2>3, <4>1 DEF WriteOf, Added
      <4>3. \A d \in Contexts \ {c} : WriteOf(d) => WriteOf(d)'
        BY <2>3, <4>1 DEF WriteOf, Added
      <4>4. QED
        BY <4>2, <4>3
    <3>2. QED
      BY <1>6, <1>8, <2>4, <3>1, BytesStill
  <2>7. Reads' /\ Locks' /\ Writes' /\ Promises' /\ Closes'
    <3>1. LogStep({"wire", "closing"}) /\ log'.wire = log.wire
      BY <1>6 DEF LogStep, LogFields
    <3>2. Len(log'.wire) >= Len(log.wire)
      <4>1. log.wire \in Seq(Nat)
        BY DEF IInv, Types, Log
      <4>2. Len(log.wire) \in Nat
        BY <4>1, LenProperties
      <4>3. QED
        BY <3>1, <4>2
    <3>3. peer.done => peer'.done
      BY <1>8
    <3>4. QED
      BY <1>7, <1>8, <2>4, <2>5, <3>1, <3>2, <3>3, StillKeeps
  <2>8. Places'
    <3>1. /\ pc' = pc /\ own' = own /\ cq' = cq /\ Workers \subseteq Threads
          /\ \A s \in Threads : own[s].ctx \in Contexts \cup {NoContext}
          /\ \A s \in Threads : staged[s] \in Contexts \cup {NoContext}
          /\ cq \in [Workers -> Seq(Contexts)]
          /\ Places
      BY <1>8, <1>10, TypeFacts DEF IInv
    <3>2. /\ \A d \in Contexts : contexts'[d].ring = contexts[d].ring
                                 /\ contexts'[d].type = contexts[d].type
          /\ \A d \in Contexts : contexts[d].st = "done" =>
                                     d # c /\ contexts'[d] = contexts[d]
      BY <1>2, <2>3, <2>4 DEF SameUse
    <3>3. PoolPlaces'
      BY <2>4, <3>1 DEF Places, PoolPlaces, SameUse
    <3>4. StagedPlaces'
      <4>1. \A s \in Threads : staged'[s] # NoContext =>
                staged'[s] = staged[s] /\ contexts'[staged'[s]] = contexts[staged[s]]
        BY <1>4, <2>3, <3>1
      <4>2. QED
        BY <3>1, <4>1 DEF Places, StagedPlaces
    <3>5. QueuePlaces'
      <4>1. \A w \in Workers : \A i \in 1..Len(cq[w]) : cq[w][i] \in Contexts
        BY <3>1, ElementOfSeq
      <4>2. QED
        BY <3>1, <3>2, <4>1 DEF Places, QueuePlaces
    <3>6. WorkerPlaces'
      BY <3>1, <3>2 DEF Places, WorkerPlaces
    <3>7. LabelPlaces'
      <4>1. \A w \in Workers : \A x : Has(w, x)' <=> Has(w, x)
        BY <3>1, <3>2 DEF Has
      <4>2. QED
        BY <3>1, <4>1 DEF Places, LabelPlaces
    <3>8. SentPlaces'
      <4>1. ASSUME NEW w \in Workers, pc[w] = "sent"
            PROVE  contexts'[own[w].ctx] = contexts[own[w].ctx]
        <5>1. own[w].ctx # NoContext
          BY <3>1, <4>1 DEF Places, LabelPlaces, WriteLabels, Has
        <5>2. QED
          BY <3>1, <3>2, <5>1 DEF Places, WorkerPlaces
      <4>2. QED
        BY <3>1, <4>1 DEF Places, SentPlaces
    <3>9. QED
      BY <3>3, <3>4, <3>5, <3>6, <3>7, <3>8 DEF Places
  <2>9. QED
    BY <2>5, <2>6, <2>7, <2>8 DEF IInv
<1>11. QED
  BY <1>1, <1>9, <1>10 DEF Enter

\* The submission queue is full and the context is forgotten (io_service.cpp:321-324).
LEMMA RefusesKeeps ==
    ASSUME IInv, NEW t \in Threads, Refuses(t)
    PROVE  IInv'
<1>0. /\ Types /\ Places /\ Workers \subseteq Threads
      /\ cq \in [Workers -> Seq(Contexts)]
      /\ \A s \in Threads : own[s].ctx \in Contexts \cup {NoContext}
      /\ \A s \in Threads : staged[s] \in Contexts \cup {NoContext}
      /\ NoContext \notin Contexts
  BY TypeFacts DEF IInv
<1>1. PICK e \in Contexts : e = staged[t]
  BY <1>0 DEF Refuses
<1>2. contexts[e].st = "prepared"
  BY <1>0, <1>1 DEF Places, StagedPlaces, Refuses
<1>3. /\ staged' \in [Threads -> Contexts \cup {NoContext}]
      /\ staged'[t] = NoContext /\ \A s \in Threads \ {t} : staged'[s] = staged[s]
  BY TypeFacts DEF IInv, Refuses
<1>4. \A s \in Threads : staged'[s] # NoContext => staged'[s] = staged[s] /\ staged[s] # e
  BY <1>0, <1>1, <1>3 DEF Places, StagedPlaces, Refuses
<1>5. /\ LogStep({"refused"}) /\ log \in Log
  <2>1. log \in Log /\ log' = [log EXCEPT !.refused = log.refused \cup {contexts[e].type}]
    BY <1>0, <1>1 DEF Refuses, Types
  <2>2. contexts[e].type \in log.case.refusable
    BY <1>0, <1>1 DEF Refuses
  <2>3. log.case \in Case
    BY <2>1, TcpSocketAssumption DEF Log
  <2>4. contexts[e].type \in {"read", "write", "shutdown"}
    BY <2>2, <2>3 DEF Case
  <2>5. log.refused \cup {contexts[e].type} \in SUBSET {"read", "write", "shutdown"}
    BY <2>1, <2>4 DEF Log
  <2>6. QED
    BY <2>1, <2>5 DEF LogStep, LogFields, Log
<1>6. /\ contexts' \in [Contexts -> Context] /\ contexts'[e].st = "free"
      /\ \A d \in Contexts : d # e => contexts'[d] = contexts[d]
  <2>1. FreeContext \in Context /\ FreeContext.st = "free"
    BY DEF FreeContext, Context, NULL
  <2>2. contexts \in [Contexts -> Context] /\ contexts' = [contexts EXCEPT ![e] = FreeContext]
    BY <1>0, <1>1 DEF Types, Refuses
  <2>3. QED
    BY <2>1, <2>2
<1>7. /\ pc' = pc /\ own' = own /\ cq' = cq /\ lock' = lock /\ peer' = peer /\ file' = file
      /\ send_buffer' = send_buffer /\ socket_handler' = socket_handler
      /\ shutdown_gracefully' = shutdown_gracefully /\ connected_flag' = connected_flag
  BY DEF Refuses, sockvars
<1>8. /\ log'.notified = log.notified /\ log'.accepted = log.accepted
      /\ log'.wire = log.wire /\ log'.destroyed = log.destroyed
      /\ log'.promised = log.promised /\ log'.forced = log.forced
      /\ log'.closing = log.closing /\ log'.failed = log.failed
      /\ log'.closed = log.closed /\ log'.overlap = log.overlap /\ log' \in Log
  BY <1>5 DEF LogStep, LogFields
<1>9. Types'
  BY <1>0, <1>3, <1>6, <1>7, <1>8 DEF Types, TypeOK
<1>10. /\ \A d \in Contexts : contexts[d].st = "done" => contexts'[d] = contexts[d]
       /\ \A w \in Workers : own[w].ctx # NoContext => /\ own[w].ctx # e
                                                       /\ contexts'[own[w].ctx] = contexts[own[w].ctx]
  BY <1>0, <1>2, <1>6 DEF Places, WorkerPlaces
<1>11. Places'
  <2>1. PoolPlaces'
    BY <1>0, <1>6 DEF Places, PoolPlaces
  <2>2. StagedPlaces'
    <3>1. \A s \in Threads : staged'[s] # NoContext =>
              staged'[s] = staged[s] /\ contexts'[staged'[s]] = contexts[staged[s]]
      BY <1>0, <1>4, <1>6
    <3>2. QED
      BY <1>0, <3>1 DEF Places, StagedPlaces
  <2>3. QueuePlaces'
    <3>1. \A w \in Workers : \A i \in 1..Len(cq[w]) : cq[w][i] \in Contexts
      BY <1>0, ElementOfSeq
    <3>2. QED
      BY <1>0, <1>7, <1>10, <3>1 DEF Places, QueuePlaces
  <2>4. WorkerPlaces'
    BY <1>0, <1>7, <1>10 DEF Places, WorkerPlaces
  <2>5. LabelPlaces'
    <3>1. \A w \in Workers : \A x : Has(w, x)' <=> Has(w, x)
      BY <1>7, <1>10 DEF Has
    <3>2. QED
      BY <1>0, <1>7, <3>1 DEF Places, LabelPlaces
  <2>6. SentPlaces'
    <3>1. \A w \in Workers : pc[w] = "sent" => own[w].ctx # NoContext
      BY <1>0 DEF Places, LabelPlaces, WriteLabels, Has
    <3>2. QED
      BY <1>0, <1>7, <1>10, <3>1 DEF Places, SentPlaces
  <2>7. QED
    BY <2>1, <2>2, <2>3, <2>4, <2>5, <2>6 DEF Places
<1>12. \A d \in Contexts : \A x : InUse(d, x)' <=> d # e /\ InUse(d, x)
  BY <1>6 DEF InUse
<1>13. \A d \in Contexts : /\ Reading(d)' <=> d # e /\ Reading(d)
                           /\ Writing(d)' <=> d # e /\ Writing(d)
                           /\ Unpopped(d)' <=> d # e /\ Unpopped(d)
  <2>1. \A d \in Contexts : /\ Reading(d)' <=> d # e /\ Reading(d)
                            /\ Writing(d)' <=> d # e /\ Writing(d)
    BY <1>7, <1>12 DEF Reading, Writing
  <2>2. QED
    BY <1>7, <2>1 DEF Unpopped
<1>14. Reads'
  <2>1. /\ \A s \in Threads : Activating(s)' => Activating(s)
        /\ \A v \in Workers : GoingDown(v)' => GoingDown(v)
        /\ \A d \in Contexts : InUse(d, "read")' =>
               InUse(d, "read") /\ contexts'[d].ring = contexts[d].ring
        /\ \A w \in Workers : InReceive(w)' => InReceive(w)
        /\ Reads
    BY <1>6, <1>7, <1>10, <1>12 DEF Activating, GoingDown, InReceive, IInv
  <2>2. QED
    BY <1>8, <1>13, <2>1, ReadsKept
<1>15. Locks'
  BY <1>7 DEF Locks, IInv
<1>16. Writes'
  <2>1. /\ \A s \in Threads : pc'[s] \in {"activate", "assign"} =>
               pc[s] \in {"activate", "assign"}
        /\ \A s \in Threads : pc'[s] = "push" =>
               pc[s] = "push" /\ own'[s].first = own[s].first
        /\ \A s \in Threads : pc'[s] = "submit" => pc[s] = "submit"
        /\ \A d \in Contexts : InUse(d, "write")' => InUse(d, "write")
        /\ Writes
    BY <1>7, <1>12 DEF IInv
  <2>2. QED
    BY <1>7, <1>13, <2>1, WritesKept
<1>17. Bytes'
  <2>1. SUFFICES ASSUME ~log.destroyed PROVE Held' /\ Present' /\ OnWire'
    BY <1>8 DEF Bytes
  <2>2. Held /\ Present /\ OnWire
    BY <2>1 DEF IInv, Bytes
  <2>3. main' = main /\ sub' = sub /\ Gone' = Gone
    BY <1>7, <1>8 DEF main, sub, Gone
  <2>4. Held' /\ Present'
    BY <1>7, <1>8, <2>2, <2>3 DEF Held, Present
  <2>5. \A d \in Contexts : Unpopped(d)' => WriteOf(d)'
    BY <1>6, <1>8, <1>13, <2>2, <2>3 DEF OnWire, WriteOf, Added
  <2>6. ASSUME socket_handler = Fd, \A d \in Contexts : ~Unpopped(d)'
        PROVE  Len(log.wire) = Gone
    <3>1. CASE Unpopped(e)
      <4>1. contexts[e].fd = Fd
        BY <1>2, <2>6 DEF IInv, Promises
      <4>2. Len(log.wire) = Gone + Added(e) /\ Added(e) = 0
        BY <1>2, <2>2, <3>1, <4>1 DEF OnWire, WriteOf, Added
      <4>3. Gone \in Nat
        BY <2>2 DEF Held
      <4>4. QED
        BY <4>2, <4>3
    <3>2. CASE ~Unpopped(e)
      <4>1. \A d \in Contexts : ~Unpopped(d)
        BY <1>13, <2>6, <3>2
      <4>2. QED
        BY <2>2, <2>6, <4>1 DEF OnWire
    <3>3. QED
      BY <3>1, <3>2
  <2>7. OnWire'
    BY <1>7, <1>8, <2>3, <2>5, <2>6 DEF OnWire
  <2>8. QED
    BY <2>4, <2>7
<1>18. Promises'
  <2>1. log.accepted \in Nat /\ Len(log.wire) \in Nat
    <3>1. log.accepted \in Nat /\ log.wire \in Seq(Nat)
      BY <1>5 DEF Log
    <3>2. QED
      BY <3>1, LenProperties
  <2>2. /\ \A d \in Contexts : contexts'[d].st # "free" =>
               IF contexts[d].st = "free" THEN contexts'[d].fd = socket_handler
                                          ELSE contexts'[d].fd = contexts[d].fd
        /\ log'.accepted >= log.accepted /\ Len(log'.wire) >= Len(log.wire)
        /\ log'.closing \/ (\E d \in Contexts : InUse(d, "shutdown")') =>
               log.closing \/ \E d \in Contexts : InUse(d, "shutdown")
        /\ Promises
    BY <1>6, <1>8, <1>12, <2>1 DEF IInv
  <2>3. QED
    BY <1>0, <1>7, <1>8, <1>9, <2>2, PromisesKept
<1>19. Closes'
  <2>1. /\ \A v \in Workers : pc'[v] \in {"copy", "zero", "closeFd"} =>
               pc[v] = pc'[v] /\ own'[v].fd = own[v].fd
        /\ \A v \in Workers : pc[v] = "closeFd" => pc'[v] = "closeFd"
        /\ Closes
    BY <1>7 DEF IInv
  <2>2. QED
    BY <1>7, <1>8, <2>1, ClosesKept
<1>20. QED
  BY <1>9, <1>11, <1>14, <1>15, <1>16, <1>17, <1>18, <1>19 DEF IInv

\* What the lemmas above ask of an action of the kernel.
LEMMA KernelFacts ==
    ASSUME IInv, NEW c \in Contexts, contexts[c].st = "pending",
           UNCHANGED <<staged, log>>
    PROVE  /\ contexts[c].st \in {"prepared", "pending"}
           /\ staged' \in [Threads -> Contexts \cup {NoContext}]
           /\ \A t \in Threads : staged'[t] # NoContext =>
                  staged'[t] = staged[t] /\ staged[t] # c
           /\ LogStep({"closing"}) /\ Told
<1>1. \A t \in Threads : staged[t] # NoContext => staged[t] # c
  BY DEF IInv, Places, StagedPlaces
<1>2. LogStep({"closing"}) /\ Told
  BY DEF IInv, Types, LogStep, Told
<1>3. QED
  BY <1>1, <1>2, TypeFacts DEF IInv

\* A receive is completed with a packet or with the end of the connection.
LEMMA KernelReadsKeeps ==
    ASSUME IInv, NEW c \in Contexts, KernelReads(c)
    PROVE  IInv'
<1>1. PICK res \in {0, 1} : Completed(c, res)
  BY DEF KernelReads
<1>2. file' \in File
  BY DEF KernelReads, IInv, Types, File
<1>3. /\ contexts[c].st = "pending" /\ UNCHANGED <<staged, log>> /\ res \in Int
      /\ UNCHANGED <<sockvars, lock, pc, own, peer>> /\ ~InUse(c, "write")
  BY DEF KernelReads, Pending, InUse
<1>4. QED
  BY <1>1, <1>2, <1>3, KernelFacts, AnswerKeeps

\* The kernel shuts the receiving side down.
LEMMA KernelShutsDownKeeps ==
    ASSUME IInv, NEW c \in Contexts, KernelShutsDown(c)
    PROVE  IInv'
<1>1. Completed(c, 0) /\ 0 \in Int
  BY DEF KernelShutsDown
<1>2. file' \in File
  BY DEF KernelShutsDown, IInv, Types, File
<1>3. /\ contexts[c].st = "pending" /\ UNCHANGED <<staged, log>>
      /\ UNCHANGED <<sockvars, lock, pc, own, peer>> /\ ~InUse(c, "write")
  BY DEF KernelShutsDown, Pending, InUse
<1>4. QED
  BY <1>1, <1>2, <1>3, KernelFacts, AnswerKeeps

\* A request for descriptor 0 is answered.
LEMMA StdinAnswersKeeps ==
    ASSUME IInv, NEW c \in Contexts, StdinAnswers(c)
    PROVE  IInv'
<1>1. contexts[c] \in Context /\ contexts[c].len \in Nat /\ -1 \in Int
  BY TypeFacts, ContextFields DEF IInv
<1>2. PICK res \in {-1, 0, contexts[c].len} :
          /\ Completed(c, res)
          /\ contexts[c].type = "write" => res \in {-1, contexts[c].len}
  BY DEF StdinAnswers, Pending
<1>3. /\ contexts[c].st = "pending" /\ contexts[c].fd = Stdin /\ res \in Int
      /\ UNCHANGED <<staged, log>> /\ UNCHANGED <<sockvars, lock, pc, own, peer>>
      /\ file' \in File
  BY <1>1 DEF StdinAnswers, Pending, IInv, Types
<1>4. InUse(c, "write") =>
          res <= 0 \/ (contexts[c].fd # Fd /\ res <= contexts[c].len)
  BY <1>1, <1>2, <1>3 DEF InUse, Fd, Stdin
<1>5. QED
  BY <1>2, <1>3, <1>4, KernelFacts, AnswerKeeps

\* A step that changes the kernel's end of the connection and the peer's only, or nothing.
LEMMA OutsideKeeps ==
    ASSUME IInv, file' \in File, peer' \in Peer, peer.done => peer'.done,
           UNCHANGED <<sockvars, lock, pc, own, staged, contexts, cq, log>>
    PROVE  IInv'
<1>1. Types'
  BY DEF IInv, Types, TypeOK, sockvars
<1>2. Places'
  BY DEF IInv, Places, PoolPlaces, StagedPlaces, QueuePlaces, WorkerPlaces, LabelPlaces,
         SentPlaces, Has
<1>3. SameUse /\ LogStep({"closing"}) /\ LogStep({"wire", "closing"}) /\ Told
  BY DEF SameUse, LogStep, Told, IInv, Types
<1>4. Bytes'
  <2>1. \A d \in Contexts : Unpopped(d) /\ WriteOf(d) => WriteOf(d)'
    BY DEF WriteOf, Added, main, sub, Gone, sockvars
  <2>2. QED
    BY <1>3, <2>1, BytesStill
<1>5. Reads' /\ Locks' /\ Writes' /\ Promises' /\ Closes'
  <2>1. Len(log'.wire) >= Len(log.wire)
    <3>1. log.wire \in Seq(Nat)
      BY DEF IInv, Types, Log
    <3>2. Len(log.wire) \in Nat
      BY <3>1, LenProperties
    <3>3. QED
      BY <3>2
  <2>2. QED
    BY <1>1, <1>3, <2>1, StillKeeps
<1>6. QED
  BY <1>1, <1>2, <1>4, <1>5 DEF IInv

\* The peer sends a packet.
LEMMA PeerSendsKeeps ==
    ASSUME IInv, PeerSends
    PROVE  IInv'
<1>1. file' \in File /\ peer' \in Peer /\ (peer.done => peer'.done)
  BY DEF PeerSends, IInv, Types, File, Peer
<1>2. QED
  BY <1>1, OutsideKeeps DEF PeerSends

\* The peer ends or resets the connection.
LEMMA PeerEndsKeeps ==
    ASSUME IInv, PeerEnds
    PROVE  IInv'
<1>1. peer' \in Peer /\ (peer.done => peer'.done)
  BY DEF PeerEnds, IInv, Types, Peer
<1>2. file' \in File
  <2>1. file \in File
    BY DEF IInv, Types
  <2>2. CASE file' = [file EXCEPT !.ended = TRUE]
    BY <2>1, <2>2 DEF File
  <2>3. CASE file' = [file EXCEPT !.ended = TRUE, !.broken = TRUE, !.unread = 0]
    BY <2>1, <2>3 DEF File
  <2>4. QED
    BY <2>2, <2>3 DEF PeerEnds
<1>3. QED
  BY <1>1, <1>2, OutsideKeeps DEF PeerEnds

\* What the kernel finds in memory is bytes, and in the main buffer's memory its bytes.
LEMMA MemoryFinds ==
    ASSUME Types, NEW p, NEW k \in Nat
    PROVE  /\ Memory(send_buffer, p, k) \in Seq(Nat)
           /\ Len(Memory(send_buffer, p, k)) = k
           /\ p = main.raw /\ p # NULL /\ k <= Len(main.data) =>
                 \A i \in 1..k : Memory(send_buffer, p, k)[i] = main.data[i]
<1> DEFINE held == IF p = NULL THEN <<>>
                   ELSE IF p = main.raw THEN main.data
                   ELSE IF p = sub.raw THEN sub.data
                   ELSE <<>>
<1> DEFINE byte(i) == IF i <= Len(held) THEN held[i] ELSE Garbage
<1>1. main.data \in Seq(Nat) /\ Len(main.data) \in Nat /\ sub.data \in Seq(Nat)
  BY TypeFacts, BufferFields
<1>2. held \in Seq(Nat)
  BY <1>1
<1>3. held = main.data \/ ~(p = main.raw /\ p # NULL)
  OBVIOUS
<1>4. Memory(send_buffer, p, k) = [i \in 1..k |-> byte(i)]
  BY DEF Memory, main, sub
<1> HIDE DEF held
<1>5. \A i \in 1..k : byte(i) \in Nat
  <2>1. Len(held) \in Nat
    BY <1>2, LenProperties
  <2>2. ASSUME NEW i \in 1..k, i <= Len(held) PROVE held[i] \in Nat
    <3>1. i \in 1..Len(held)
      BY <2>1, <2>2
    <3>2. QED
      BY <1>2, <3>1, ElementOfSeq
  <2>3. QED
    BY <2>2 DEF Garbage
<1>6. ASSUME p = main.raw, p # NULL, k <= Len(main.data), NEW i \in 1..k
      PROVE  byte(i) = main.data[i]
  BY <1>1, <1>3, <1>6
<1> HIDE DEF byte
<1>7. [i \in 1..k |-> byte(i)] \in Seq(Nat) /\ Len([i \in 1..k |-> byte(i)]) = k
  BY <1>5, IsASeq, LenProperties
<1>8. QED
  BY <1>4, <1>6, <1>7

\* A send puts some of its bytes on the wire, or fails.
LEMMA KernelWritesKeeps ==
    ASSUME IInv, NEW c \in Contexts, KernelWrites(c)
    PROVE  IInv'
<1>1. /\ contexts[c].st = "pending" /\ contexts[c].type = "write" /\ contexts[c].fd = Fd
      /\ contexts[c].len \in Nat /\ contexts[c].st \in {"prepared", "pending"}
      /\ UNCHANGED <<sockvars, lock, pc, own, staged, file, peer>>
      /\ file' \in File
  BY TypeFacts, ContextFields DEF KernelWrites, Pending, IInv, Types
<1>2. CASE Completed(c, -1) /\ log' = log
  <2>1. -1 \in Int /\ -1 <= 0
    OBVIOUS
  <2>2. UNCHANGED <<staged, log>>
    BY <1>1, <1>2
  <2>3. QED
    BY <1>1, <1>2, <2>1, <2>2, KernelFacts, AnswerKeeps
<1>3. ASSUME NEW k \in Nat, k <= contexts[c].len,
             log' = [log EXCEPT !.wire = @ \o Memory(send_buffer, contexts[c].raw, k)],
             Completed(c, k)
      PROVE  IInv'
  <2> DEFINE m == Memory(send_buffer, contexts[c].raw, k)
  <2>1. /\ m \in Seq(Nat) /\ Len(m) = k
        /\ contexts[c].raw = main.raw /\ contexts[c].raw # NULL /\ k <= Len(main.data) =>
              \A i \in 1..k : m[i] = main.data[i]
    BY MemoryFinds DEF IInv
  <2>2. log' = [log EXCEPT !.wire = log.wire \o m]
    BY <1>3
  <2> HIDE DEF m
  <2>3. /\ log.wire \in Seq(Nat) /\ Len(log.wire) \in Nat
        /\ log.wire \o m \in Seq(Nat) /\ Len(log.wire \o m) = Len(log.wire) + k
    <3>1. log.wire \in Seq(Nat)
      BY DEF IInv, Types, Log
    <3>2. /\ log.wire \o m \in Seq(Nat) /\ Len(log.wire \o m) = Len(log.wire) + Len(m)
          /\ Len(log.wire) \in Nat
      BY <2>1, <3>1, ConcatProperties, LenProperties
    <3>3. QED
      BY <2>1, <3>1, <3>2
  <2>4. LogStep({"wire"}) /\ log'.wire = log.wire \o m
    <3>1. log \in Log
      BY DEF IInv, Types
    <3>2. QED
      BY <2>2, <2>3, <3>1 DEF LogStep, LogFields, Log
  <2>5. /\ contexts' \in [Contexts -> Context]
        /\ cq' \in [Workers -> Seq(Contexts)]
        /\ Answered(c, k)
    BY <1>1, <1>3, CompletedAnswers DEF IInv
  <2>6. Types'
    BY <1>1, <2>4, <2>5 DEF IInv, Types, TypeOK, sockvars, LogStep
  <2>7. /\ staged' = staged /\ pc' = pc /\ own' = own
        /\ \A t \in Threads : staged[t] # NoContext => staged[t] # c
    BY <1>1 DEF IInv, Places, StagedPlaces
  <2>8. Places'
    BY <2>5, <2>7, AnsweredPlaces DEF IInv
  <2>9. SameUse
    BY <2>5 DEF Answered, SameUse
  <2>10. Reads' /\ Locks' /\ Writes' /\ Promises' /\ Closes'
    <3>1. LogStep({"wire", "closing"}) /\ log'.closing = log.closing
      BY <2>4 DEF LogStep, LogFields
    <3>2. Told /\ Len(log'.wire) >= Len(log.wire) /\ (peer.done => peer'.done)
      BY <1>1, <2>3, <2>4, <3>1 DEF Told
    <3>3. QED
      BY <1>1, <2>6, <2>9, <3>1, <3>2, StillKeeps
  <2>11. Bytes'
    <3>1. /\ log'.accepted = log.accepted /\ log'.destroyed = log.destroyed
          /\ send_buffer' = send_buffer /\ main' = main /\ sub' = sub
      BY <1>1, <2>4 DEF LogStep, LogFields, sockvars, main, sub
    <3>2. Gone' = Gone
      BY <3>1 DEF Gone
    <3>3. SUFFICES ASSUME ~log.destroyed PROVE Held' /\ Present' /\ OnWire'
      BY <3>1 DEF Bytes
    <3>4. Held /\ Present /\ OnWire
      BY <3>3 DEF IInv, Bytes
    <3>5. Unpopped(c)
      <4>1. \A w \in Workers : own[w].ctx # c
        BY <1>1, TypeFacts DEF IInv, Places, WorkerPlaces
      <4>2. QED
        BY <1>1, <4>1 DEF Unpopped, Writing, InUse
    <3>6. /\ contexts[c].raw = main.raw /\ contexts[c].len <= Len(main.data)
          /\ Len(log.wire) = Gone + 0
      BY <1>1, <3>4, <3>5 DEF OnWire, WriteOf, Added
    <3>7. Gone \in Nat /\ Len(main.data) \in Nat /\ main.data \in Seq(Nat)
      BY <3>4, TypeFacts, BufferFields DEF Held, IInv
    <3>8. main.raw # NULL
      <4>1. main # NoBuffer
        BY <1>1, <3>4 DEF Present, IInv, Writes, WriteFirst, InUse
      <4>2. QED
        BY <4>1 DEF IInv, Writes, Solid
    <3>9. Follows(m, Len(log.wire))
      <4>1. k <= Len(main.data)
        BY <1>1, <1>3, <3>6, <3>7
      <4>2. \A i \in 1..k : m[i] = main.data[i] /\ i \in 1..Len(main.data)
        BY <2>1, <3>6, <3>7, <3>8, <4>1
      <4>3. \A i \in 1..k : main.data[i] = Gone + i
        BY <3>4, <4>2 DEF Held, Follows
      <4>4. Len(log.wire) = Gone
        BY <3>6, <3>7
      <4>5. QED
        BY <2>1, <4>2, <4>3, <4>4 DEF Follows
    <3>10. Held'
      <4>1. Follows(log.wire, 0) /\ 0 + Len(log.wire) = Len(log.wire)
        BY <2>3, <3>4 DEF Held
      <4>2. Follows(log.wire \o m, 0)
        BY <2>1, <2>3, <3>9, <4>1, ConcatFollows
      <4>3. QED
        BY <2>4, <3>1, <3>2, <3>4, <4>2 DEF Held
    <3>11. Present'
      BY <2>7, <3>1, <3>4 DEF Present
    <3>12. \A d \in Contexts : Unpopped(d)' <=> Unpopped(d)
      BY <2>7, <2>9, StillRights DEF IInv
    <3>13. \A d \in Contexts : Unpopped(d) => d = c
      BY <3>5 DEF IInv, Writes, WriteRight, Unpopped
    <3>14. WriteOf(c)'
      <4>1. contexts'[c].st = "done" /\ contexts'[c].res = k
        BY <2>5 DEF Answered
      <4>2. Added(c)' = k
        BY <4>1 DEF Added
      <4>3. k <= Len(main.data)
        BY <1>1, <1>3, <3>6, <3>7
      <4>4. Len(log'.wire) = Gone + k
        BY <2>3, <2>4, <3>6, <3>7
      <4>5. QED
        BY <3>1, <3>2, <4>1, <4>2, <4>3, <4>4 DEF WriteOf
    <3>15. OnWire'
      BY <3>5, <3>12, <3>13, <3>14 DEF OnWire
    <3>16. QED
      BY <3>10, <3>11, <3>15
  <2>12. QED
    BY <2>6, <2>8, <2>10, <2>11 DEF IInv
<1>4. QED
  <2>1. \/ Completed(c, -1) /\ log' = log
        \/ \E k \in (IF contexts[c].len = 0 THEN {0} ELSE 1..contexts[c].len) :
              /\ log' = [log EXCEPT !.wire = @ \o Memory(send_buffer, contexts[c].raw, k)]
              /\ Completed(c, k)
    BY DEF KernelWrites
  <2>2. \A k \in (IF contexts[c].len = 0 THEN {0} ELSE 1..contexts[c].len) :
            k \in Nat /\ k <= contexts[c].len
    BY <1>1
  <2>3. QED
    BY <1>2, <1>3, <2>1, <2>2

-----------------------------------------------------------------------------
(* A worker takes a completion, and is done with it.                       *)

\* Where a worker goes with the completion it has taken.
LEMMA HandlerLabels ==
    ASSUME NEW x \in Context, x.type # "none"
    PROVE  LET b == Handler(x)
           IN  /\ b \in {"received", "flag", "sent", "finish", "check"}
               /\ b \in {"received", "flag"} <=> x.type = "read"
               /\ b = "sent" <=> x.type = "write" /\ x.res > 0
               /\ b = "check" <=> x.type = "shutdown"
<1>1. x.type \in {"read", "write", "shutdown"} /\ x.res \in Int
  BY ContextFields
<1>2. x.res > 0 <=> ~(x.res <= 0)
  BY <1>1
<1>3. CASE x.type = "read"
  BY <1>2, <1>3 DEF Handler
<1>4. CASE x.type = "write"
  BY <1>2, <1>4 DEF Handler
<1>5. CASE x.type = "shutdown"
  BY <1>5 DEF Handler
<1>6. QED
  BY <1>1, <1>3, <1>4, <1>5

\* io_service::io takes the completion at the head of its queue (io_service.cpp:403-459).
LEMMA TakesCqeKeeps ==
    ASSUME IInv, NEW w \in Workers, TakesCqe(w)
    PROVE  IInv'
<1> DEFINE q == cq[w]
<1>0. /\ w \in Threads /\ Workers \subseteq Threads /\ Types /\ Places
      /\ pc[w] = "wait" /\ own[w].ctx = NoContext
      /\ cq \in [Workers -> Seq(Contexts)]
      /\ q \in Seq(Contexts) /\ q # <<>> /\ Len(q) \in Nat
  <2>1. w \in Threads /\ Workers \subseteq Threads /\ Types /\ Places /\ pc[w] = "wait"
    BY DEF Threads, IInv, TakesCqe, At
  <2>2. own[w].ctx = NoContext
    BY <2>1 DEF Places, LabelPlaces
  <2>3. cq \in [Workers -> Seq(Contexts)] /\ q # <<>>
    BY <2>1, TypeFacts DEF TakesCqe
  <2>4. QED
    BY <2>1, <2>2, <2>3, LenProperties
<1>1. /\ Head(q) \in Contexts /\ Head(q) = q[1] /\ Tail(q) \in Seq(Contexts)
      /\ Len(q) >= 1 /\ Len(Tail(q)) = Len(q) - 1
      /\ \A i \in 1 .. Len(q) - 1 : Tail(q)[i] = q[i + 1]
  <2>1. /\ Head(q) = q[1] /\ Tail(q) \in Seq(Contexts) /\ Len(Tail(q)) = Len(q) - 1
        /\ \A i \in 1 .. Len(q) - 1 : Tail(q)[i] = q[i + 1]
    BY <1>0, HeadTailProperties
  <2>2. Len(q) >= 1
    BY <1>0, EmptySeq
  <2>3. q[1] \in Contexts
    BY <1>0, <2>2, ElementOfSeq
  <2>4. QED
    BY <2>1, <2>2, <2>3
<1>2. PICK c \in Contexts : c = Head(q)
  BY <1>1
<1>3. /\ own' = [own EXCEPT ![w].ctx = c] /\ Goto(w, Handler(contexts[c]))
      /\ cq' = [cq EXCEPT ![w] = Tail(q)]
      /\ UNCHANGED <<sockvars, lock, staged, contexts, file, peer>>
      /\ log' = [log EXCEPT !.failed = log.failed \/ /\ contexts[c].type = "write"
                                                      /\ contexts[c].res <= 0]
  BY <1>2 DEF TakesCqe
<1> HIDE DEF q
<1>4. /\ own' \in [Threads -> Own] /\ own'[w].ctx = c
      /\ \A s \in Threads \ {w} : own'[s] = own[s]
      /\ \A s \in Threads : own'[s].fd = own[s].fd /\ own'[s].first = own[s].first
  BY <1>0, <1>3, OwnCtx
<1>5. /\ cq' \in [Workers -> Seq(Contexts)] /\ cq'[w] = Tail(q)
      /\ \A v \in Workers \ {w} : cq'[v] = cq[v]
  BY <1>0, <1>1, <1>3
<1>6. /\ contexts[c].st = "done" /\ contexts[c].ring = w /\ contexts[c].type # "none"
      /\ \A i \in 1 .. Len(q) - 1 : q[i + 1] # c
  <2>1. contexts[c].st = "done" /\ contexts[c].ring = w /\
        \A i \in 1..Len(q) : c = q[i] => i = 1
    BY <1>0, <1>1, <1>2 DEF Places, QueuePlaces, q
  <2>2. contexts[c].type # "none"
    BY <1>0, <2>1 DEF Places, PoolPlaces
  <2>3. QED
    BY <1>0, <2>1, <2>2
<1> DEFINE b == Handler(contexts[c])
<1>7. /\ b \in {"received", "flag", "sent", "finish", "check"}
      /\ b \in {"received", "flag"} <=> contexts[c].type = "read"
      /\ b = "sent" <=> contexts[c].type = "write" /\ contexts[c].res > 0
      /\ b = "check" <=> contexts[c].type = "shutdown"
  BY <1>0, <1>6, HandlerLabels, TypeFacts
<1>8. Walks(w, "wait", b)
  BY <1>0, <1>3, GotoWalks DEF TakesCqe
<1> HIDE DEF b
<1>9. pc[w] = "wait" /\ pc'[w] = b /\ \A s \in Threads \ {w} : pc'[s] = pc[s]
  BY <1>8 DEF Walks
<1>10. LogStep({"failed"}) /\ (log.failed => log'.failed)
  <2>1. /\ log \in Log /\ log.failed \in BOOLEAN
        /\ (log.failed \/ (contexts[c].type = "write" /\ contexts[c].res <= 0)) \in BOOLEAN
    BY <1>0 DEF Types, Log
  <2>2. QED
    BY <1>3, <2>1 DEF LogStep, LogFields, Log
<1>11. /\ log'.accepted = log.accepted /\ log'.wire = log.wire
       /\ log'.promised = log.promised /\ log'.notified = log.notified
       /\ log'.forced = log.forced /\ log'.closing = log.closing
       /\ log'.destroyed = log.destroyed /\ log'.closed = log.closed /\ log'.overlap = log.overlap /\ log' \in Log
  BY <1>10 DEF LogStep, LogFields
<1>12. /\ contexts' = contexts /\ staged' = staged /\ lock' = lock /\ peer' = peer
       /\ send_buffer' = send_buffer /\ socket_handler' = socket_handler
       /\ shutdown_gracefully' = shutdown_gracefully
  BY <1>3 DEF sockvars
<1>13. \A v \in Workers : own[v].ctx # c
  BY <1>0, <1>6, TypeFacts DEF Places, WorkerPlaces
<1>14. Types'
  <2>1. pc' \in [Threads -> Labels]
    BY <1>0, <1>3, <1>7, TypeFacts DEF Goto, Labels, b
  <2>2. QED
    BY <1>0, <1>3, <1>4, <1>5, <1>11, <2>1 DEF Types, TypeOK, sockvars, Own
<1>15. Places'
  <2>1. PoolPlaces' /\ StagedPlaces'
    BY <1>0, <1>12 DEF Places, PoolPlaces, StagedPlaces
  <2>2. QueuePlaces'
    <3>1. ASSUME NEW i \in 1..Len(Tail(q))
          PROVE  /\ contexts[Tail(q)[i]].st = "done" /\ contexts[Tail(q)[i]].ring = w
                 /\ c # Tail(q)[i]
                 /\ \A j \in 1..Len(Tail(q)) : Tail(q)[i] = Tail(q)[j] => i = j
      <4>1. i + 1 \in 1..Len(q) /\ i \in 1 .. Len(q) - 1 /\ Tail(q)[i] = q[i + 1]
        BY <1>0, <1>1
      <4>2. contexts[q[i + 1]].st = "done" /\ contexts[q[i + 1]].ring = w
        BY <1>0, <4>1 DEF Places, QueuePlaces, q
      <4>3. ASSUME NEW j \in 1..Len(Tail(q)), Tail(q)[i] = Tail(q)[j] PROVE i = j
        <5>1. j + 1 \in 1..Len(q) /\ Tail(q)[j] = q[j + 1]
          BY <1>0, <1>1
        <5>2. i + 1 = j + 1
          BY <1>0, <4>1, <4>3, <5>1 DEF Places, QueuePlaces, q
        <5>3. QED
          BY <1>0, <1>1, <5>2
      <4>4. QED
        BY <1>6, <4>1, <4>2, <4>3
    <3>2. ASSUME NEW v \in Workers, NEW i \in 1..Len(cq'[v])
          PROVE  /\ contexts[cq'[v][i]].st = "done" /\ contexts[cq'[v][i]].ring = v
                 /\ own'[v].ctx # cq'[v][i]
                 /\ \A j \in 1..Len(cq'[v]) : cq'[v][i] = cq'[v][j] => i = j
      <4>1. CASE v = w
        <5>1. cq'[v] = Tail(q) /\ own'[v].ctx = c /\ v = w
          BY <1>4, <1>5, <4>1
        <5>2. i \in 1..Len(Tail(q))
          BY <5>1
        <5>3. /\ contexts[Tail(q)[i]].st = "done" /\ contexts[Tail(q)[i]].ring = w
              /\ c # Tail(q)[i]
              /\ \A j \in 1..Len(Tail(q)) : Tail(q)[i] = Tail(q)[j] => i = j
          BY <3>1, <5>2
        <5>4. QED
          BY <5>1, <5>3
      <4>2. CASE v # w
        BY <1>0, <1>4, <1>5, <4>2 DEF Places, QueuePlaces
      <4>3. QED
        BY <4>1, <4>2
    <3>3. QED
      BY <1>12, <3>2 DEF QueuePlaces
  <2>3. WorkerPlaces'
    BY <1>0, <1>4, <1>6, <1>12 DEF Places, WorkerPlaces
  <2>4. LabelPlaces'
    <3>1. c # NoContext
      BY <1>0, TypeFacts
    <3>2. ASSUME NEW v \in Workers
          PROVE  LET p == pc'[v]
                 IN  /\ p \in ReadLabels => Has(v, "read")'
                     /\ p \in WriteLabels => Has(v, "write")'
                     /\ p \in ShutLabels => Has(v, "shutdown")'
                     /\ p \in FirstLabels \cup {"wait"} => own'[v].ctx = NoContext
                     /\ p # "idle"
      <4>1. CASE v = w
        <5>1. \A x : Has(w, x)' <=> contexts[c].type = x
          BY <1>4, <1>12, <3>1 DEF Has
        <5>2. /\ b \in ReadLabels => contexts[c].type = "read"
              /\ b \in WriteLabels => contexts[c].type = "write"
              /\ b \in ShutLabels => contexts[c].type = "shutdown"
              /\ b \notin FirstLabels \cup {"wait", "idle"}
          BY <1>7 DEF ReadLabels, WriteLabels, ShutLabels, FirstLabels
        <5>3. QED
          BY <1>9, <4>1, <5>1, <5>2
      <4>2. CASE v # w
        BY <1>0, <1>4, <1>9, <1>12, <4>2 DEF Places, LabelPlaces, Has
      <4>3. QED
        BY <4>1, <4>2
    <3>3. ASSUME NEW u \in Threads \ Workers
          PROVE  /\ own'[u].ctx = NoContext
                 /\ pc'[u] \in FirstLabels \cup {"idle", "send", "push", "spin", "submit",
                                                 "unlock", "close"}
      BY <1>0, <1>4, <1>9 DEF Places, LabelPlaces
    <3>4. QED
      BY <3>2, <3>3 DEF LabelPlaces
  <2>5. SentPlaces'
    <3>1. ASSUME NEW v \in Workers, pc'[v] = "sent"
          PROVE  contexts[own'[v].ctx].res > 0
      <4>1. CASE v = w
        BY <1>4, <1>7, <1>9, <3>1, <4>1
      <4>2. CASE v # w
        BY <1>0, <1>4, <1>9, <3>1, <4>2 DEF Places, SentPlaces
      <4>3. QED
        BY <4>1, <4>2
    <3>2. QED
      BY <1>12, <3>1 DEF SentPlaces
  <2>6. QED
    BY <2>1, <2>2, <2>3, <2>4, <2>5 DEF Places
<1>16. /\ \A d \in Contexts : \A x : InUse(d, x)' <=> InUse(d, x)
       /\ \A d \in Contexts : Reading(d)' => Reading(d)
       /\ \A d \in Contexts : Writing(d)' => Writing(d)
       /\ \A d \in Contexts : Unpopped(d)' => Unpopped(d)
       /\ \A d \in Contexts \ {c} : Unpopped(d) => Unpopped(d)'
  <2>1. \A d \in Contexts : \A x : InUse(d, x)' <=> InUse(d, x)
    BY <1>12 DEF InUse
  <2>2. /\ \A d \in Contexts \ {c} : Reading(d)' => Reading(d)
        /\ \A d \in Contexts \ {c} : Writing(d)' <=> Writing(d)
    BY <1>0, <1>4, <1>9, <2>1, TypeFacts DEF Reading, Writing
  <2>3. (InUse(c, "read") => Reading(c)) /\ (InUse(c, "write") => Unpopped(c))
    BY <1>13 DEF Reading, Writing, Unpopped
  <2>4. /\ Reading(c)' => Reading(c)
        /\ Writing(c)' => Writing(c)
        /\ Unpopped(c)' => Unpopped(c)
    BY <2>1, <2>3 DEF Reading, Writing, Unpopped
  <2>5. \A d \in Contexts \ {c} : Unpopped(d)' <=> Unpopped(d)
    BY <1>0, <1>4, <1>9, <2>2, TypeFacts DEF Unpopped
  <2>6. QED
    BY <2>1, <2>2, <2>4, <2>5
<1>17. Reads'
  <2>1. /\ \A s \in Threads : Activating(s)' => Activating(s)
        /\ \A v \in Workers : GoingDown(v)' => GoingDown(v)
        /\ ReadRight /\ ReadRing
    BY <1>0, <1>7, <1>9 DEF Activating, FirstLabels, GoingDown, IInv, Reads
  <2>2. ReadRight'
    BY <1>11, <1>16, <2>1 DEF ReadRight
  <2>3. \A v \in Workers : v # w => (InReceive(v)' <=> InReceive(v))
    BY <1>0, <1>4, <1>12 DEF InReceive
  <2>4. InReceive(w)' => InUse(c, "read") /\ Reading(c)
    BY <1>4, <1>6, <1>12, <1>13 DEF InReceive, InUse, Reading
  <2>5. ASSUME InReceive(w)' PROVE \A v \in Workers : ~InReceive(v)
    <3>1. \A v \in Workers : InReceive(v) => v = w
      BY <1>6, <2>1, <2>4, <2>5 DEF ReadRing
    <3>2. QED
      BY <1>0, <3>1 DEF InReceive
  <2>6. ASSUME InReceive(w)', NEW d \in Contexts, InUse(d, "read")
        PROVE  contexts[d].ring = w
    <3>1. CASE d = c
      BY <1>6, <3>1
    <3>2. CASE d # c
      <4>1. ~Reading(d)
        BY <2>1, <2>4, <2>6, <3>2 DEF ReadRight
      <4>2. PICK v \in Workers : own[v].ctx = d
        BY <2>6, <4>1 DEF Reading
      <4>3. InReceive(v)
        BY <1>0, <2>6, <4>2, TypeFacts DEF InReceive, InUse
      <4>4. QED
        BY <2>5, <2>6, <4>3
    <3>3. QED
      BY <3>1, <3>2
  <2>7. ReadRing'
    BY <1>12, <1>16, <2>1, <2>3, <2>5, <2>6 DEF ReadRing
  <2>8. QED
    BY <2>2, <2>7 DEF Reads
<1>18. Locks'
  <2>1. b \notin LockLabels
    BY <1>7 DEF LockLabels
  <2>2. QED
    BY <1>0, <1>8, <1>12, <2>1, LocksKept DEF IInv
<1>19. Writes'
  <2>1. /\ \A s \in Threads : pc'[s] \in {"activate", "assign"} =>
               pc[s] \in {"activate", "assign"}
        /\ \A s \in Threads : pc'[s] = "push" =>
               pc[s] = "push" /\ own'[s].first = own[s].first
        /\ \A s \in Threads : pc'[s] = "submit" => pc[s] = "submit"
        /\ Writes
    BY <1>0, <1>4, <1>7, <1>9 DEF IInv
  <2>2. QED
    BY <1>12, <1>16, <2>1, WritesKept
<1>20. Bytes'
  <2>1. SUFFICES ASSUME ~log.destroyed PROVE Held' /\ Present' /\ OnWire'
    BY <1>11 DEF Bytes
  <2>2. Held /\ Present /\ OnWire
    BY <2>1 DEF IInv, Bytes
  <2>3. main' = main /\ sub' = sub /\ Gone' = Gone
    BY <1>11, <1>12 DEF main, sub, Gone
  <2>4. Held'
    BY <1>11, <2>2, <2>3 DEF Held
  <2>5. Present'
    BY <1>0, <1>7, <1>9, <2>2, <2>3 DEF Present
  <2>6. \A d \in Contexts : WriteOf(d)' <=> WriteOf(d)
    BY <1>11, <1>12, <2>3 DEF WriteOf, Added
  <2>7. ASSUME Unpopped(c), ~Unpopped(c)', socket_handler = Fd
        PROVE  Len(log.wire) = Gone
    <3>1. contexts[c].type = "write" /\ ~(contexts[c].res > 0)
      <4>1. InUse(c, "write")
        BY <2>7 DEF Unpopped, Writing
      <4>2. contexts[c].type = "write"
        BY <4>1 DEF InUse
      <4>3. \A v \in Workers : own'[v].ctx = c => v = w
        BY <1>0, <1>4, <1>13
      <4>4. b = "sent" => Unpopped(c)'
        BY <1>9, <1>16, <4>1, <4>3 DEF Unpopped, Writing
      <4>5. QED
        BY <1>7, <2>7, <4>2, <4>4
    <3>2. contexts[c].fd = Fd
      BY <1>6, <2>7 DEF IInv, Promises
    <3>3. Added(c) = 0
      BY <3>1 DEF Added
    <3>4. Len(log.wire) = Gone + 0
      BY <2>2, <2>7, <3>2, <3>3 DEF OnWire, WriteOf
    <3>5. QED
      BY <2>2, <3>4 DEF Held
  <2>8. OnWire'
    <3>1. \A d \in Contexts : Unpopped(d)' => WriteOf(d)'
      BY <1>16, <2>2, <2>6 DEF OnWire
    <3>2. ASSUME socket_handler = Fd, \A d \in Contexts : ~Unpopped(d)'
          PROVE  Len(log.wire) = Gone
      <4>1. CASE Unpopped(c)
        BY <2>7, <3>2, <4>1
      <4>2. CASE ~Unpopped(c)
        BY <1>16, <2>2, <3>2, <4>2 DEF OnWire
      <4>3. QED
        BY <4>1, <4>2
    <3>3. QED
      BY <1>11, <1>12, <2>3, <3>1, <3>2 DEF OnWire
  <2>9. QED
    BY <2>4, <2>5, <2>8
<1>21. Promises'
  <2>1. log.accepted \in Nat /\ Len(log.wire) \in Nat
    <3>1. log.accepted \in Nat /\ log.wire \in Seq(Nat)
      BY <1>0 DEF Types, Log
    <3>2. QED
      BY <3>1, LenProperties
  <2>2. /\ \A d \in Contexts : contexts'[d].st # "free" =>
               IF contexts[d].st = "free" THEN contexts'[d].fd = socket_handler
                                          ELSE contexts'[d].fd = contexts[d].fd
        /\ log'.accepted >= log.accepted /\ Len(log'.wire) >= Len(log.wire)
        /\ log'.closing \/ (\E d \in Contexts : InUse(d, "shutdown")') =>
               log.closing \/ \E d \in Contexts : InUse(d, "shutdown")
        /\ Promises
    BY <1>11, <1>12, <1>16, <2>1 DEF IInv
  <2>3. QED
    BY <1>0, <1>10, <1>11, <1>12, <1>14, <2>2, PromisesKept
<1>22. Closes'
  <2>1. /\ \A v \in Workers : pc'[v] \in {"copy", "zero", "closeFd"} =>
               pc[v] = pc'[v] /\ own'[v].fd = own[v].fd
        /\ \A v \in Workers : pc[v] = "closeFd" => pc'[v] = "closeFd"
        /\ Closes
    BY <1>0, <1>4, <1>7, <1>9 DEF IInv
  <2>2. QED
    BY <1>11, <1>12, <2>1, ClosesKept
<1>23. QED
  BY <1>14, <1>15, <1>17, <1>18, <1>19, <1>20, <1>21, <1>22 DEF IInv

\* io_service::io gives the context back (io_service.cpp:461-462).
LEMMA FinishesKeeps ==
    ASSUME IInv, NEW w \in Workers, Finishes(w)
    PROVE  IInv'
<1> DEFINE e == own[w].ctx
<1>0. /\ w \in Threads /\ Workers \subseteq Threads /\ Types /\ Places
      /\ cq \in [Workers -> Seq(Contexts)]
      /\ \A s \in Threads : own[s].ctx \in Contexts \cup {NoContext}
      /\ \A s \in Threads : staged[s] \in Contexts \cup {NoContext}
      /\ NoContext \notin Contexts /\ NoContext \in Contexts \cup {NoContext}
  BY TypeFacts DEF IInv
<1>1. /\ own' = [own EXCEPT ![w].ctx = NoContext] /\ Goto(w, "wait") /\ At(w, "finish")
      /\ UNCHANGED <<sockvars, lock, staged, cq, file, peer, log>>
      /\ contexts' = IF e = NoContext THEN contexts ELSE [contexts EXCEPT ![e] = FreeContext]
  BY DEF Finishes
<1>2. /\ own' \in [Threads -> Own] /\ own'[w].ctx = NoContext
      /\ \A s \in Threads \ {w} : own'[s] = own[s]
      /\ \A s \in Threads : own'[s].fd = own[s].fd /\ own'[s].first = own[s].first
  BY <1>0, <1>1, OwnCtx
<1>3. Walks(w, "finish", "wait")
  BY <1>0, <1>1, GotoWalks
<1>4. pc[w] = "finish" /\ pc'[w] = "wait" /\ \A s \in Threads \ {w} : pc'[s] = pc[s]
  BY <1>3 DEF Walks
<1>5. FreeContext \in Context /\ FreeContext.st = "free"
  BY DEF FreeContext, Context, NULL
<1>6. /\ contexts' \in [Contexts -> Context]
      /\ \A d \in Contexts : d # e => contexts'[d] = contexts[d]
      /\ e \in Contexts => contexts'[e].st = "free"
  <2>1. contexts \in [Contexts -> Context] /\ e \in Contexts \cup {NoContext}
    BY <1>0, TypeFacts
  <2>2. CASE e = NoContext
    BY <1>0, <1>1, <2>1, <2>2
  <2>3. CASE e # NoContext
    BY <1>0, <1>1, <1>5, <2>1, <2>3
  <2>4. QED
    BY <2>2, <2>3
<1>7. /\ e \in Contexts \cup {NoContext}
      /\ e # NoContext => contexts[e].st = "done" /\ contexts[e].ring = w
  BY <1>0 DEF Places, WorkerPlaces
<1> HIDE DEF e
<1>8. /\ staged' = staged /\ cq' = cq /\ lock' = lock /\ peer' = peer /\ log' = log
      /\ send_buffer' = send_buffer /\ socket_handler' = socket_handler
      /\ shutdown_gracefully' = shutdown_gracefully
  BY <1>1 DEF sockvars
<1>9. Types'
  <2>1. pc' \in [Threads -> Labels]
    BY <1>0, <1>1, TypeFacts DEF Goto, Labels
  <2>2. QED
    BY <1>0, <1>1, <1>2, <1>6, <2>1 DEF Types, TypeOK, sockvars, Own
<1>10. \A v \in Workers \ {w} : own[v].ctx # NoContext =>
          own[v].ctx # e /\ contexts'[own[v].ctx] = contexts[own[v].ctx]
  BY <1>0, <1>6, <1>7 DEF Places, WorkerPlaces
<1>11. Places'
  <2>1. PoolPlaces'
    BY <1>0, <1>6 DEF Places, PoolPlaces
  <2>2. StagedPlaces'
    <3>1. \A s \in Threads : staged[s] # NoContext =>
             contexts'[staged[s]] = contexts[staged[s]]
      BY <1>0, <1>6, <1>7 DEF Places, StagedPlaces
    <3>2. QED
      BY <1>0, <1>8, <3>1 DEF Places, StagedPlaces
  <2>3. QueuePlaces'
    <3>1. ASSUME NEW v \in Workers, NEW i \in 1..Len(cq[v])
          PROVE  /\ contexts'[cq[v][i]] = contexts[cq[v][i]] /\ own'[v].ctx # cq[v][i]
      <4>1. /\ cq[v][i] \in Contexts /\ contexts[cq[v][i]].ring = v
            /\ own[v].ctx # cq[v][i]
        BY <1>0, ElementOfSeq DEF Places, QueuePlaces
      <4>2. cq[v][i] # e
        BY <1>0, <1>7, <4>1 DEF e
      <4>3. QED
        BY <1>0, <1>2, <1>6, <4>1, <4>2
    <3>2. QED
      BY <1>0, <1>8, <3>1 DEF Places, QueuePlaces
  <2>4. WorkerPlaces'
    BY <1>0, <1>2, <1>10 DEF Places, WorkerPlaces
  <2>5. LabelPlaces'
    <3>1. \A v \in Workers \ {w} : \A x : Has(v, x) => Has(v, x)'
      BY <1>0, <1>2, <1>10 DEF Has
    <3>2. ASSUME NEW v \in Workers
          PROVE  LET p == pc'[v]
                 IN  /\ p \in ReadLabels => Has(v, "read")'
                     /\ p \in WriteLabels => Has(v, "write")'
                     /\ p \in ShutLabels => Has(v, "shutdown")'
                     /\ p \in FirstLabels \cup {"wait"} => own'[v].ctx = NoContext
                     /\ p # "idle"
      <4>1. CASE v = w
        BY <1>2, <1>4, <4>1 DEF ReadLabels, WriteLabels, ShutLabels
      <4>2. CASE v # w
        <5>1. pc'[v] = pc[v] /\ own'[v] = own[v] /\ v \in Workers \ {w}
          BY <1>0, <1>2, <1>4, <4>2
        <5>2. QED
          BY <1>0, <3>1, <5>1 DEF Places, LabelPlaces
      <4>3. QED
        BY <4>1, <4>2
    <3>3. ASSUME NEW u \in Threads \ Workers
          PROVE  /\ own'[u].ctx = NoContext
                 /\ pc'[u] \in FirstLabels \cup {"idle", "send", "push", "spin", "submit",
                                                 "unlock", "close"}
      BY <1>0, <1>2, <1>4 DEF Places, LabelPlaces
    <3>4. QED
      BY <3>2, <3>3 DEF LabelPlaces
  <2>6. SentPlaces'
    <3>1. ASSUME NEW v \in Workers, pc'[v] = "sent"
          PROVE  contexts'[own'[v].ctx].res > 0
      <4>1. v # w /\ pc[v] = "sent" /\ own'[v] = own[v]
        BY <1>0, <1>2, <1>4, <3>1
      <4>2. own[v].ctx # NoContext
        BY <1>0, <4>1 DEF Places, LabelPlaces, WriteLabels, Has
      <4>3. QED
        BY <1>0, <1>10, <4>1, <4>2 DEF Places, SentPlaces
    <3>2. QED
      BY <3>1 DEF SentPlaces
  <2>7. QED
    BY <2>1, <2>2, <2>3, <2>4, <2>5, <2>6 DEF Places
<1>12. /\ \A d \in Contexts : \A x : InUse(d, x)' => d # e /\ InUse(d, x)
       /\ \A d \in Contexts : d # e => contexts'[d] = contexts[d]
  BY <1>6 DEF InUse
<1>13. ASSUME NEW d \in Contexts, d # e
       PROVE  /\ Reading(d)' <=> Reading(d)
              /\ Writing(d)' <=> Writing(d)
              /\ Unpopped(d)' <=> Unpopped(d)
  <2>1. \A x : InUse(d, x)' <=> InUse(d, x)
    BY <1>6, <1>13 DEF InUse
  <2>2. /\ \A v \in Workers : own'[v].ctx = d <=> own[v].ctx = d
        /\ \A v \in Workers : own[v].ctx = d => pc'[v] = pc[v]
    BY <1>0, <1>2, <1>4, <1>13 DEF e
  <2>3. (Reading(d)' <=> Reading(d)) /\ (Writing(d)' <=> Writing(d))
    BY <2>1, <2>2 DEF Reading, Writing
  <2>4. Unpopped(d)' <=> Unpopped(d)
    BY <2>2, <2>3 DEF Unpopped
  <2>5. QED
    BY <2>3, <2>4
<1>14. /\ \A d \in Contexts : Reading(d)' => Reading(d)
       /\ \A d \in Contexts : Writing(d)' => Writing(d)
       /\ \A d \in Contexts : Unpopped(d)' <=> Unpopped(d)
       /\ \A d \in Contexts : Unpopped(d) => contexts'[d] = contexts[d]
       /\ \A v \in Workers : InReceive(v)' => InReceive(v)
  <2>0. PICK o : o = e
    OBVIOUS
  <2>1. o \in Contexts => ~Reading(o)' /\ ~Writing(o)' /\ ~Writing(o)
    <3>1. o \in Contexts => \A x : ~InUse(o, x)'
      BY <1>12, <2>0
    <3>2. o \in Contexts => ~Reading(o)' /\ ~Writing(o)'
      BY <3>1 DEF Reading, Writing
    <3>3. own[w].ctx = o /\ pc[w] = "finish"
      BY <1>4, <2>0 DEF e
    <3>4. o \in Contexts => ~Writing(o)
      BY <3>3 DEF Writing
    <3>5. QED
      BY <3>2, <3>4
  <2>2. o \in Contexts => ~Unpopped(o)' /\ ~Unpopped(o)
    BY <2>1 DEF Unpopped
  <2>3. \A v \in Workers : InReceive(v)' => InReceive(v)
    BY <1>0, <1>2, <1>10 DEF InReceive
  <2>4. /\ \A d \in Contexts : Reading(d)' => Reading(d)
        /\ \A d \in Contexts : Writing(d)' => Writing(d)
        /\ \A d \in Contexts : Unpopped(d)' <=> Unpopped(d)
    BY <1>13, <2>0, <2>1, <2>2
  <2>5. \A d \in Contexts : Unpopped(d) => contexts'[d] = contexts[d]
    BY <1>6, <2>0, <2>2
  <2>6. QED
    BY <2>3, <2>4, <2>5
<1>15. Reads'
  <2>1. /\ \A s \in Threads : Activating(s)' => Activating(s)
        /\ \A v \in Workers : GoingDown(v)' => GoingDown(v)
        /\ \A d \in Contexts : InUse(d, "read")' =>
               InUse(d, "read") /\ contexts'[d].ring = contexts[d].ring
        /\ Reads
    BY <1>0, <1>4, <1>12 DEF Activating, FirstLabels, GoingDown, IInv
  <2>2. QED
    BY <1>8, <1>14, <2>1, ReadsKept
<1>16. Locks'
  BY <1>0, <1>3, <1>8, LocksKept DEF IInv, LockLabels
<1>17. Writes'
  <2>1. /\ \A s \in Threads : pc'[s] \in {"activate", "assign"} =>
               pc[s] \in {"activate", "assign"}
        /\ \A s \in Threads : pc'[s] = "push" =>
               pc[s] = "push" /\ own'[s].first = own[s].first
        /\ \A s \in Threads : pc'[s] = "submit" => pc[s] = "submit"
        /\ \A d \in Contexts : InUse(d, "write")' => InUse(d, "write")
        /\ Writes
    BY <1>0, <1>2, <1>4, <1>12 DEF IInv
  <2>2. QED
    BY <1>8, <1>14, <2>1, WritesKept
<1>18. Bytes'
  <2>1. /\ \A v \in Workers : pc'[v] \in {"destroySub", "notify"} =>
               pc[v] \in {"destroySub", "notify"}
        /\ \A s \in Threads : pc[s] \in {"activate", "assign"} =>
               pc'[s] \in {"activate", "assign"}
        /\ Bytes
    BY <1>0, <1>4 DEF IInv
  <2>2. QED
    BY <1>8, <1>14, <2>1, BytesKept
<1>19. Promises'
  <2>1. log.accepted \in Nat /\ Len(log.wire) \in Nat
    <3>1. log.accepted \in Nat /\ log.wire \in Seq(Nat)
      BY <1>0 DEF Types, Log
    <3>2. QED
      BY <3>1, LenProperties
  <2>2. /\ \A d \in Contexts : contexts'[d].st # "free" =>
               IF contexts[d].st = "free" THEN contexts'[d].fd = socket_handler
                                          ELSE contexts'[d].fd = contexts[d].fd
        /\ log'.accepted >= log.accepted /\ Len(log'.wire) >= Len(log.wire)
        /\ log'.closing \/ (\E d \in Contexts : InUse(d, "shutdown")') =>
               log.closing \/ \E d \in Contexts : InUse(d, "shutdown")
        /\ Promises
    BY <1>6, <1>8, <1>12, <2>1 DEF IInv
  <2>3. QED
    BY <1>0, <1>8, <1>9, <2>2, PromisesKept
<1>20. Closes'
  <2>1. /\ \A v \in Workers : pc'[v] \in {"copy", "zero", "closeFd"} =>
               pc[v] = pc'[v] /\ own'[v].fd = own[v].fd
        /\ \A v \in Workers : pc[v] = "closeFd" => pc'[v] = "closeFd"
        /\ Closes
    BY <1>0, <1>2, <1>4 DEF IInv
  <2>2. QED
    BY <1>8, <2>1, ClosesKept
<1>21. QED
  BY <1>9, <1>11, <1>15, <1>16, <1>17, <1>18, <1>19, <1>20 DEF IInv

-----------------------------------------------------------------------------
(* The invariant.                                                          *)

\* The state before the socket is activated.
LEMMA InitEstablishes ==
    ASSUME Init
    PROVE  IInv
<1>1. PICK a \in Threads :
          pc = [t \in Threads |-> IF t = a THEN "activate"
                                  ELSE IF t \in Workers THEN "wait" ELSE "idle"]
  BY DEF Init
<1>2. Workers \subseteq Threads /\ NoThread \notin Workers
  BY TcpSocketAssumption DEF Threads
<1>3. /\ pc \in [Threads -> Labels] /\ pc[a] = "activate"
      /\ \A t \in Threads \ {a} : pc[t] = IF t \in Workers THEN "wait" ELSE "idle"
  BY <1>1 DEF Labels
<1>4. /\ \A t \in Threads : own[t].ctx = NoContext /\ own[t].fd = Stdin
      /\ own \in [Threads -> Own]
      /\ \A t \in Threads : staged[t] = NoContext
  BY DEF Init, Own, Stdin
<1>5. FreeContext \in Context /\ FreeContext.st = "free"
  BY DEF FreeContext, Context, NULL
<1>6. /\ contexts \in [Contexts -> Context]
      /\ \A c \in Contexts : contexts[c].st = "free" /\ \A type : ~InUse(c, type)
  BY <1>5 DEF Init, InUse
<1>7. /\ log.wire = <<>> /\ log.accepted = 0 /\ log.promised = <<>> /\ log.closed = <<>>
      /\ log.notified = 0 /\ ~log.closing /\ ~log.destroyed /\ log \in Log
      /\ socket_handler = Fd /\ ~shutdown_gracefully /\ lock = NoThread
  BY DEF Init, Log
<1>8. /\ send_buffer = NoDoubleBuffer /\ main = NoBuffer /\ sub = NoBuffer
      /\ Len(main.data) = 0 /\ Len(sub.data) = 0 /\ NoBuffer \in Buffer
  BY NoBufferIs DEF Init, NoDoubleBuffer, main, sub
<1>9. \A w \in Workers : cq[w] = <<>>
  BY DEF Init
<1>10. Types
  <2>1. send_buffer \in DoubleBuffer
    BY <1>8 DEF NoDoubleBuffer, DoubleBuffer
  <2>2. file \in File /\ peer \in Peer
    BY DEF Init, File, Peer
  <2>3. cq \in [Workers -> Seq(Contexts)]
    BY DEF Init
  <2>4. staged \in [Threads -> Contexts \cup {NoContext}]
    BY DEF Init
  <2>5. {connected_flag, shutdown_gracefully} \subseteq BOOLEAN
    BY DEF Init
  <2>6. QED
    BY <1>3, <1>4, <1>6, <1>7, <2>1, <2>2, <2>3, <2>4, <2>5 DEF Types, TypeOK, DoubleBuffer,
       Buffer, Own
<1>11. Places
  <2>1. PoolPlaces /\ StagedPlaces
    BY <1>4, <1>6 DEF PoolPlaces, StagedPlaces
  <2>2. QueuePlaces
    BY <1>9 DEF QueuePlaces
  <2>3. WorkerPlaces
    BY <1>2, <1>4 DEF WorkerPlaces
  <2>4. LabelPlaces /\ SentPlaces
    BY <1>2, <1>3, <1>4 DEF LabelPlaces, SentPlaces, ReadLabels, WriteLabels, ShutLabels,
       FirstLabels
  <2>5. QED
    BY <2>1, <2>2, <2>3, <2>4 DEF Places
<1>12. \A c \in Contexts : ~Reading(c) /\ ~Writing(c) /\ ~Unpopped(c)
  BY <1>6 DEF Reading, Writing, Unpopped
<1>13. Reads
  <2>1. \A w \in Workers : ~GoingDown(w) /\ ~InReceive(w)
    BY <1>2, <1>3, <1>4 DEF GoingDown, InReceive
  <2>2. \A t \in Threads : Activating(t) => t = a
    BY <1>3 DEF Activating, FirstLabels
  <2>3. QED
    BY <1>6, <1>7, <1>12, <2>1, <2>2 DEF Reads, ReadRight, ReadRing
<1>14. Locks
  BY <1>3 DEF Locks
<1>15. Writes
  <2>1. Solid(main) /\ Solid(sub)
    BY <1>8 DEF Solid
  <2>2. \A t \in Threads : pc[t] \notin {"push", "submit"}
    BY <1>3
  <2>3. QED
    BY <1>6, <1>8, <1>12, <2>1, <2>2 DEF Writes, WriteRight, WriteFirst
<1>16. Bytes
  <2>1. Gone = 0 /\ Len(log.wire) = 0
    BY <1>7, <1>8 DEF Gone
  <2>2. Held
    BY <1>8, <2>1 DEF Held, Follows
  <2>3. Present
    BY <1>2, <1>3 DEF Present
  <2>4. OnWire
    BY <1>12, <2>1 DEF OnWire
  <2>5. QED
    BY <2>2, <2>3, <2>4 DEF Bytes
<1>17. Promises
  BY <1>6, <1>7 DEF Promises
<1>18. Closes
  <2>1. \A w \in Workers : pc[w] \notin {"copy", "zero", "closeFd"}
    BY <1>2, <1>3
  <2>2. Len(log.closed) = 0
    BY <1>7
  <2>3. QED
    BY <1>7, <2>1, <2>2 DEF Closes, Closers, Owed, Alone, Closing
<1>19. QED
  BY <1>10, <1>11, <1>13, <1>14, <1>15, <1>16, <1>17, <1>18 DEF IInv

\* Every action keeps it, and so does a step that changes nothing.
LEMMA NextPreserves ==
    ASSUME IInv, [Next]_vars
    PROVE  IInv'
<1>1. ASSUME NEW t \in Threads, Proceeds(t) PROVE IInv'
  BY <1>1, EnterKeeps, RefusesKeeps, ActivateFlagKeeps, ActivateAssignKeeps, ActivateReceiveKeeps,
     SendLocksKeeps, SendPushesKeeps, SendSpinsKeeps, SendSubmitsKeeps, CloseNowKeeps,
     CloseLaterKeeps, UnlocksKeeps DEF Proceeds
<1>2. ASSUME NEW t \in Threads, Calls(t) PROVE IInv'
  BY <1>2, SendChecksKeeps, CloseForceKeeps, CloseGracefulKeeps DEF Calls
<1>3. ASSUME NEW w \in Workers, Handles(w) PROVE IInv'
  BY <1>3, TakesCqeKeeps, FinishesKeeps, IoReceivedKeeps, CallbackReturnsKeeps,
     SentPopsKeeps, SentElevatesKeeps, DownFlagKeeps, DownMainKeeps, DownSubKeeps,
     DownNotifyKeeps, ShutChecksKeeps, ShutCopiesKeeps, ShutZeroesKeeps, ShutClosesKeeps
     DEF Handles
<1>4. ASSUME NEW c \in Contexts, Kernel(c) \/ StdinAnswers(c) PROVE IInv'
  BY <1>4, KernelReadsKeeps, KernelWritesKeeps, KernelShutsDownKeeps, StdinAnswersKeeps
     DEF Kernel
<1>5. CASE PeerSends \/ PeerEnds
  BY <1>5, PeerSendsKeeps, PeerEndsKeeps
<1>6. CASE UNCHANGED vars
  <2>1. /\ file' \in File /\ peer' \in Peer /\ (peer.done => peer'.done)
        /\ UNCHANGED <<sockvars, lock, pc, own, staged, contexts, cq, log>>
    BY <1>6 DEF vars, IInv, Types
  <2>2. QED
    BY <2>1, OutsideKeeps
<1>7. QED
  BY <1>1, <1>2, <1>3, <1>4, <1>5, <1>6 DEF Next

\* The inductive invariant holds always, for any number of threads.
THEOREM Invariance == Spec => []IInv
<1>1. Init => IInv
  BY InitEstablishes
<1>2. IInv /\ [Next]_vars => IInv'
  BY NextPreserves
<1>3. QED
  BY <1>1, <1>2, PTL DEF Spec

-----------------------------------------------------------------------------
(* What follows.                                                           *)

\* Members of the socket, contexts, queues and buffers keep their types through every
\* interleaving of senders, closers, workers and kernel.
THEOREM TypeCorrect == Spec => []TypeOK
<1>1. IInv => TypeOK
  BY DEF IInv, Types
<1>2. QED
  BY <1>1, Invariance, PTL

\* A set of which any two members are the same.
LEMMA AtMostOne ==
    ASSUME NEW S, \A x, y \in S : x = y
    PROVE  Cardinality(S) <= 1
<1>1. CASE S = {}
  BY <1>1, FS_EmptySet
<1>2. CASE S # {}
  <2>1. PICK x \in S : TRUE
    BY <1>2
  <2>2. S = {x}
    BY <2>1
  <2>3. QED
    BY <2>2, FS_Singleton
<1>3. QED
  BY <1>1, <1>2

\* The socket has one read at a time, and while a worker is in the receive callback the
\* reads are those of its ring (socket_object.cpp:86-93): recv_bind_buffer and
\* recv_buffer, which have no lock, are used by one thread at a time.
THEOREM ReceivesSerially == Spec => []ReceiveSerial
<1>1. ASSUME IInv PROVE ReceiveSerial
  <2>1. \A c \in UnderWay("read", Labels \ {"received", "flag"}) :
           c \in Contexts /\ Reading(c)
    <3>1. \A w \in Workers : pc[w] \in Labels
      BY <1>1, TypeFacts DEF IInv
    <3>2. QED
      BY <3>1 DEF UnderWay, Reading, InUse
  <2>2. Cardinality(UnderWay("read", Labels \ {"received", "flag"})) <= 1
    <3>1. \A x, y \in UnderWay("read", Labels \ {"received", "flag"}) : x = y
      BY <1>1, <2>1 DEF IInv, Reads, ReadRight
    <3>2. QED
      BY <3>1, AtMostOne
  <2>3. Cardinality({w \in Workers : InReceive(w)}) <= 1
    <3>1. \A x, y \in {w \in Workers : InReceive(w)} : x = y
      BY <1>1 DEF IInv, Reads, ReadRing
    <3>2. QED
      BY <3>1, AtMostOne
  <2>4. \A w \in Workers : InReceive(w) =>
            \A c \in UnderWay("read", {}) : contexts[c].ring = w
    BY <1>1 DEF IInv, Reads, ReadRing, UnderWay, InUse
  <2>5. QED
    BY <2>2, <2>3, <2>4 DEF ReceiveSerial
<1>2. QED
  BY <1>1, Invariance, PTL

\* One write at a time, whoever has the lock in between (tcp_socket.cpp:249-255 against
\* socket_object.cpp:96-111), and the wire has the accepted bytes in their order.
THEOREM WritesInOrder == Spec => []WireInOrder
<1>1. ASSUME IInv PROVE WireInOrder
  <2>1. \A c \in UnderWay("write", {"unlock", "finish"}) : c \in Contexts /\ Writing(c)
    BY DEF UnderWay, Writing, InUse
  <2>2. OneWrite
    <3>1. \A x, y \in UnderWay("write", {"unlock", "finish"}) : x = y
      BY <1>1, <2>1 DEF IInv, Writes, WriteRight
    <3>2. QED
      BY <3>1, AtMostOne DEF OneWrite
  <2>3. ASSUME ~log.destroyed PROVE log.wire = [i \in 1..Len(log.wire) |-> i]
    <3>1. log.wire \in Seq(Nat)
      BY <1>1 DEF IInv, Types, Log
    <3>2. \A i \in 1..Len(log.wire) : log.wire[i] = 0 + i
      BY <1>1, <2>3 DEF IInv, Bytes, Held, Follows
    <3>3. Len(log.wire) \in Nat /\ log.wire \in [1..Len(log.wire) -> Nat]
      BY <3>1, LenProperties
    <3>4. \A i \in 1..Len(log.wire) : log.wire[i] = i
      BY <3>2, <3>3
    <3>5. QED
      BY <3>3, <3>4
  <2>4. QED
    BY <2>2, <2>3 DEF WireInOrder
<1>2. QED
  BY <1>1, Invariance, PTL

\* close( graceful ) waits for every byte accepted before it (socket_object.cpp:45-56,
\* 73-78), even when it races send() and io_sent.
THEOREM GracefulCloseDrains == Spec => []GracefulDrains
<1>1. ASSUME IInv PROVE GracefulDrains
  <2>1. SUFFICES ASSUME Undisturbed, log.closing, NEW i \in DOMAIN log.promised
                 PROVE  Len(log.wire) >= log.promised[i]
    BY DEF GracefulDrains
  <2>2. log.promised[i] <= Len(log.wire)
    BY <1>1, <2>1 DEF IInv, Promises
  <2>3. log.promised \in Seq(Nat) /\ log.wire \in Seq(Nat)
    BY <1>1 DEF IInv, Types, Log
  <2>4. log.promised[i] \in Nat /\ Len(log.wire) \in Nat
    BY <2>3, ElementOfSeq, LenProperties
  <2>5. QED
    BY <2>2, <2>4
<1>2. QED
  BY <1>1, Invariance, PTL

\* However the shutdown completions of several rings interleave (io_service.cpp:437-445),
\* each worker closes one descriptor at most, the connection's is never left open once the
\* member is reset, and it is the only one closed, and closed once, unless two workers have
\* found it at the same time.
THEOREM ClosesOnceEach == Spec => []ClosedOnceEach
<1>1. IInv => ClosedOnceEach
  <2>1. SUFFICES ASSUME IInv PROVE ClosedOnceEach
    OBVIOUS
  <2>2. DOMAIN log.closed = 1..Len(log.closed)
    <3>1. log.closed \in Seq([by : Workers, fd : {Stdin, Fd}])
      BY <2>1 DEF IInv, Types, Log
    <3>2. QED
      BY <3>1, LenProperties
  <2>3. Closers /\ Owed /\ (~log.overlap => Alone)
    BY <2>1 DEF IInv, Closes
  <2>4. socket_handler # Fd <=> \/ \E i \in DOMAIN log.closed : log.closed[i].fd = Fd
                               \/ \E w \in Workers : pc[w] = "closeFd" /\ own[w].fd = Fd
    <3>1. socket_handler = Fd => DOMAIN log.closed = {}
      BY <2>3 DEF Owed
    <3>2. QED
      BY <2>2, <2>3, <3>1 DEF Owed, HasFd
  <2>5. QED
    BY <2>2, <2>3, <2>4 DEF ClosedOnceEach, Closers, Alone
<1>2. QED
  BY <1>1, Invariance, PTL

-----------------------------------------------------------------------------
(* What a step may not do.                                                 *)

\* Only io_received and the last part of io_sent report something to the program
\* (socket_object.cpp:86-111).
LEMMA Reports ==
    ASSUME IInv, [Next]_vars
    PROVE  /\ log'.received # log.received => \E w \in Workers : IoReceived(w)
           /\ log'.completed # log.completed => \E w \in Workers :
                 SentElevates(w) /\ DEmpty(Elevated(send_buffer))
<1> DEFINE Silent == log'.received = log.received /\ log'.completed = log.completed
<1>0. log \in Log
  BY DEF IInv, Types
<1>1. ASSUME NEW t \in Threads, Proceeds(t) PROVE Silent
  BY <1>0, <1>1 DEF Proceeds, Enter, Refuses, ActivateFlag, ActivateAssign, ActivateReceive,
     SendLocks, SendPushes, SendSpins, SendSubmits, CloseNow, CloseLater, Unlocks, Log
<1>2. ASSUME NEW t \in Threads, Calls(t) PROVE Silent
  BY <1>0, <1>2 DEF Calls, SendChecks, CloseForce, CloseGraceful, Log
<1>3. ASSUME NEW w \in Workers, Handles(w)
      PROVE  \/ Silent
             \/ IoReceived(w) /\ log'.completed = log.completed
             \/ /\ SentElevates(w) /\ DEmpty(Elevated(send_buffer))
                /\ log'.received = log.received
  <2>1. CASE IoReceived(w)
    BY <1>0, <2>1 DEF IoReceived, Log
  <2>2. CASE SentElevates(w)
    BY <1>0, <2>2 DEF SentElevates, Log
  <2>3. CASE TakesCqe(w) \/ Finishes(w) \/ CallbackReturns(w) \/ SentPops(w)
    BY <1>0, <2>3 DEF TakesCqe, Finishes, CallbackReturns, SentPops, Log
  <2>4. CASE DownFlag(w) \/ DownMain(w) \/ DownSub(w) \/ DownNotify(w)
    BY <1>0, <2>4 DEF DownFlag, DownMain, DownSub, DownNotify, Log
  <2>5. CASE ShutChecks(w) \/ ShutCopies(w) \/ ShutZeroes(w) \/ ShutCloses(w)
    BY <1>0, <2>5 DEF ShutChecks, ShutCopies, ShutZeroes, ShutCloses, Log
  <2>6. QED
    BY <1>3, <2>1, <2>2, <2>3, <2>4, <2>5 DEF Handles
<1>4. ASSUME NEW c \in Contexts, Kernel(c) \/ StdinAnswers(c) PROVE Silent
  BY <1>0, <1>4 DEF Kernel, KernelReads, KernelWrites, KernelShutsDown, StdinAnswers, Log
<1>5. CASE PeerSends \/ PeerEnds \/ UNCHANGED vars
  BY <1>5 DEF PeerSends, PeerEnds, vars
<1>6. QED
  BY <1>1, <1>2, <1>3, <1>4, <1>5 DEF Next

\* The close event comes once, and after it nothing is received: the reader that
\* io_received would hand on has been consumed (socket_object.cpp:86-94, 113-129).
THEOREM CloseComesLast == Spec => CloseLast
<1>1. ASSUME IInv, IInv', [Next]_vars
      PROVE  /\ log'.notified <= 1
             /\ log.notified > 0 => log'.received = log.received
  <2>1. log'.notified <= 1
    BY <1>1 DEF IInv, Reads, ReadRight
  <2>2. ASSUME NEW w \in Workers, IoReceived(w) PROVE log.notified = 0
    <3>1. w \in Threads /\ pc[w] = "received"
      BY <2>2 DEF IoReceived, At, Threads
    <3>2. PICK e \in Contexts : e = own[w].ctx
      BY <1>1, <3>1, TypeFacts DEF IInv, Places, LabelPlaces, ReadLabels, Has
    <3>3. e # NoContext /\ InUse(e, "read") /\ contexts[e].ring = w
      BY <1>1, <3>1, <3>2 DEF IInv, Places, LabelPlaces, ReadLabels, Has, WorkerPlaces,
         InUse
    <3>4. Reading(e)
      BY <1>1, <3>1, <3>2, <3>3 DEF IInv, Places, WorkerPlaces, Reading
    <3>5. QED
      BY <1>1, <3>4 DEF IInv, Reads, ReadRight
  <2>3. log'.received # log.received => log.notified = 0
    BY <1>1, <2>2, Reports
  <2>4. QED
    BY <2>1, <2>3
<1>2. QED
  BY <1>1, Invariance, PTL DEF Spec, CloseLast

\* send_complete_event is never early: when on_send_complete runs, every accepted byte
\* has left (socket_object.cpp:97-110), however send() and close() interleave with it.
THEOREM CompletesTruthfully == Spec => CompleteTruthful
<1>1. ASSUME IInv, [Next]_vars, log'.completed # log.completed, ~log.destroyed,
             socket_handler = Fd
      PROVE  Len(log.wire) = log.accepted
  <2>1. DEmpty(Elevated(send_buffer))
    BY <1>1, Reports
  <2>2. send_buffer \in DoubleBuffer /\ Solid(send_buffer.main) /\ Solid(send_buffer.sub)
    BY <1>1, TypeFacts DEF IInv, Writes, main, sub
  <2>3. DEmpty(send_buffer)
    BY <2>1, <2>2, ElevatedKeeps
  <2>4. QED
    BY <1>1, <2>3, EmptyDrained
<1>2. QED
  BY <1>1, Invariance, PTL DEF Spec, CompleteTruthful

=============================================================================
