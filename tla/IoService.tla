----------------------------- MODULE IoService ------------------------------
(***************************************************************************)
(* The life of an io_service (run, on_thread, io, stop) and how its        *)
(* threads share the submission queues of its rings (submit).              *)
(*                                                                         *)
(* A ring belongs to the worker that made it, but other threads submit to  *)
(* it as well: submit() from outside the workers picks a ring at random,   *)
(* and stop() visits them all.  liburing leaves it to the program to keep  *)
(* the calls on one ring apart; rioring does nothing about it, and nothing *)
(* here keeps them apart either: calls that met are recorded, and the      *)
(* properties say what they can and what they cannot break.  The calls of  *)
(* io_uring_get_sqe and io_uring_submit are modelled by what they do to    *)
(* the ring's memory.                                                      *)
(***************************************************************************)
EXTENDS Integers, Sequences, FiniteSets

CONSTANTS
    Main,          \* the thread that calls run() and stop()
    Workers,       \* the threads of the io_service, and so its rings
    Users,         \* other threads of the program
    Entries,       \* RIORING_IO_URING_ENTRIES
    MaxRequests    \* bound: requests submitted, apart from those of stop()

Threads == {Main} \cup Workers \cup Users

ASSUME IoServiceAssumption ==
    /\ Entries \in Nat \ {0}
    /\ MaxRequests \in Nat
    /\ Workers # {}
    /\ IsFiniteSet(Workers)
    /\ Main \notin Workers \cup Users
    /\ Workers \cap Users = {}

VARIABLES
    io_array,    \* the rings that have been registered
    running_io,
    pc,          \* where each thread is
    call,        \* the submission each thread is in: ring, request, tail it read
    visited,     \* how far the loop of stop() is
    sq,          \* the submission queue of each ring: slots, tail, head, alive
    kernel,      \* the requests each ring's kernel side works on, each with the place
                 \* in the queue it was taken from
    cq,          \* the completion queue of each ring
    issued,      \* history: the ring of each request handed to submit() so far
    delivered,   \* history: how often the kernel got each of them
    clashes      \* history: the rings on which calls met, with the workers among the callers

history == <<issued, delivered, clashes>>
vars == <<io_array, running_io, pc, call, visited, sq, kernel, cq, history>>

Requests == 1..MaxRequests

\* user_data of the cancel request of stop(); also what a slot of a new ring holds.
Cancel == 0

NoCall == [ring |-> CHOOSE w \in Workers : TRUE, req |-> Cancel, tail |-> 0]

NewQueue == [slots |-> [i \in 0 .. Entries - 1 |-> Cancel],
             tail |-> 0, head |-> 0, alive |-> TRUE]

Goto(t, label) == pc' = [pc EXCEPT ![t] = label]

InCall(t) == pc[t] \in {"get", "advance", "fill", "flush"}

\* The threads between io_uring_get_sqe and the end of io_uring_submit on ring r.
Using(r) == {t \in Threads : pc[t] \in {"advance", "fill", "flush"} /\ call[t].ring = r}

Clashed(r) == \E c \in clashes : c.ring = r

Init ==
    /\ io_array = <<>> /\ running_io = 0
    /\ pc = [t \in Threads |-> IF t = Main THEN "run"
                               ELSE IF t \in Users THEN "idle" ELSE "new"]
    /\ call = [t \in Threads |-> NoCall]
    /\ sq = [w \in Workers |-> NewQueue]
    /\ kernel = [w \in Workers |-> {}]
    /\ cq = [w \in Workers |-> <<>>]
    /\ visited = 0
    /\ issued = <<>>
    /\ delivered = [q \in Requests |-> 0]
    /\ clashes = {}

-----------------------------------------------------------------------------
(* run() and the start of a worker.                                        *)

Spawns ==
    /\ pc[Main] = "run"
    /\ pc' = [t \in Threads |-> IF t = Main THEN "poll"
                                ELSE IF t \in Workers THEN "start" ELSE pc[t]]
    /\ UNCHANGED <<io_array, running_io, call, visited, sq, kernel, cq, history>>

\* io_uring_queue_init and io_array.push_back under io_service::lock.
Registers(w) ==
    /\ pc[w] = "start"
    /\ io_array' = Append(io_array, w)
    /\ Goto(w, "count")
    /\ UNCHANGED <<running_io, call, visited, sq, kernel, cq, history>>

Counts(w) ==
    /\ pc[w] = "count"
    /\ running_io' = running_io + 1
    /\ Goto(w, "wait")
    /\ UNCHANGED <<io_array, call, visited, sq, kernel, cq, history>>

\* Mutant: run() does not wait for the last worker.
RunReturns_Early ==
    /\ pc[Main] = "poll"
    /\ running_io >= Cardinality(Workers) - 1
    /\ Goto(Main, "up")
    /\ UNCHANGED <<io_array, running_io, call, visited, sq, kernel, cq, history>>

RunReturns ==
    /\ pc[Main] = "poll"
    /\ running_io >= Cardinality(Workers)
    /\ Goto(Main, "up")
    /\ UNCHANGED <<io_array, running_io, call, visited, sq, kernel, cq, history>>

-----------------------------------------------------------------------------
(* submit(), by any thread: io_uring_get_sqe reads the tail and moves it,  *)
(* then the request is written into the slot, then io_uring_submit.        *)

Begins(t, r, q) ==
    /\ call' = [call EXCEPT ![t] = [ring |-> r, req |-> q, tail |-> 0]]
    /\ Goto(t, "get")

\* t submits the next request, to ring r.
BeginsNext(t, r) ==
    /\ Len(issued) < MaxRequests
    /\ Begins(t, r, Len(issued) + 1)
    /\ issued' = Append(issued, r)

RunReturned == pc[Main] \notin {"run", "poll"}

\* A user thread, once run() has returned: no thread_ring, so any ring of io_array.
UserSubmits(u) ==
    /\ pc[u] = "idle" /\ RunReturned
    /\ \E i \in DOMAIN io_array : BeginsNext(u, io_array[i])
    /\ UNCHANGED <<io_array, running_io, visited, sq, kernel, cq, delivered, clashes>>

\* Undefined, and not followed: the index into an empty io_array, where size() - 1 wraps.
FindsNone(u) ==
    /\ pc[u] = "idle" /\ RunReturned /\ io_array = <<>>
    /\ Goto(u, "astray")
    /\ UNCHANGED <<io_array, running_io, call, visited, sq, kernel, cq, history>>

\* Undefined as well: the ring of a worker that has left, and it with its stack.
FindsGone(t) ==
    /\ InCall(t) /\ ~sq[call[t].ring].alive
    /\ Goto(t, "astray")
    /\ UNCHANGED <<io_array, running_io, call, visited, sq, kernel, cq, history>>

\* t goes on after submit(), or with the loop of stop().
EndsCall(t) ==
    /\ Goto(t, CASE t \in Users -> "idle" [] t \in Workers -> "wait" [] t = Main -> "stop")
    /\ call' = [call EXCEPT ![t] = NoCall]

\* When the queue is full, io_uring_get_sqe returns null: submit() reports an error
\* and forgets the context, stop() writes through the null pointer.
FindsFull(t) ==
    IF t = Main THEN Goto(t, "crashed") /\ UNCHANGED call ELSE EndsCall(t)

GetsSqe(t) ==
    /\ pc[t] = "get" /\ sq[call[t].ring].alive
    /\ LET r == call[t].ring
       IN  /\ IF sq[r].tail - sq[r].head < Entries
              THEN /\ call' = [call EXCEPT ![t].tail = sq[r].tail]
                   /\ Goto(t, "advance")
              ELSE FindsFull(t)
           /\ clashes' = clashes \cup {[ring |-> r, workers |-> {s, t} \cap Workers] : s \in Using(r)}
    /\ UNCHANGED <<io_array, running_io, visited, sq, kernel, cq, issued, delivered>>

Advances(t) ==
    /\ pc[t] = "advance" /\ sq[call[t].ring].alive
    /\ sq' = [sq EXCEPT ![call[t].ring].tail = call[t].tail + 1]
    /\ Goto(t, "fill")
    /\ UNCHANGED <<io_array, running_io, call, visited, kernel, cq, history>>

\* Mutant: no io_uring_sqe_set_data.
Fills_NoData(t) ==
    /\ pc[t] = "fill" /\ sq[call[t].ring].alive
    /\ Goto(t, "flush")
    /\ UNCHANGED <<io_array, running_io, call, visited, sq, kernel, cq, history>>

Fills(t) ==
    /\ pc[t] = "fill" /\ sq[call[t].ring].alive
    /\ sq' = [sq EXCEPT ![call[t].ring].slots[call[t].tail % Entries] = call[t].req]
    /\ Goto(t, "flush")
    /\ UNCHANGED <<io_array, running_io, call, visited, kernel, cq, history>>

\* The slots between head and tail.  A tail that went back behind head makes an
\* unsigned difference larger than the ring: the kernel takes every slot.
Taken(q) ==
    LET n == IF q.tail >= q.head THEN q.tail - q.head ELSE Entries
    IN  [i \in 1 .. (IF n < Entries THEN n ELSE Entries) |->
            q.slots[(q.head + i - 1) % Entries]]

Flushes(t) ==
    /\ pc[t] = "flush" /\ sq[call[t].ring].alive
    /\ LET r == call[t].ring
           taken == Taken(sq[r])
           Of(q) == {i \in DOMAIN taken : taken[i] = q}
       IN  /\ sq' = [sq EXCEPT ![r].head = @ + Len(taken)]
           /\ kernel' = [kernel EXCEPT ![r] =
                  @ \cup {<<sq[r].head + i, taken[i]>> : i \in DOMAIN taken \ Of(Cancel)}]
           /\ cq' = [cq EXCEPT ![r] = @ \o [i \in 1 .. Cardinality(Of(Cancel)) |-> Cancel]]
           /\ delivered' = [q \in Requests |-> delivered[q] + Cardinality(Of(q))]
    /\ EndsCall(t)
    /\ UNCHANGED <<io_array, running_io, visited, issued, clashes>>

\* A request completes when it completes; a cancel request at once.
Completes(r) ==
    /\ sq[r].alive
    /\ \E k \in kernel[r] :
          /\ cq' = [cq EXCEPT ![r] = Append(@, k[2])]
          /\ kernel' = [kernel EXCEPT ![r] = @ \ {k}]
    /\ UNCHANGED <<io_array, running_io, pc, call, visited, sq, history>>

-----------------------------------------------------------------------------
(* io() and stop().                                                        *)

\* Mutant: thread_ring is not set, and a worker picks any ring as well.
Handles_AnyRing(w) ==
    /\ pc[w] = "wait" /\ cq[w] # <<>> /\ Head(cq[w]) # Cancel
    /\ cq' = [cq EXCEPT ![w] = Tail(@)]
    /\ \/ UNCHANGED <<pc, call, issued>>
       \/ \E i \in DOMAIN io_array : BeginsNext(w, io_array[i])
    /\ UNCHANGED <<io_array, running_io, visited, sq, kernel, delivered, clashes>>

\* A completion is handled; handlers of reads, writes and accepts submit again, to
\* thread_ring.
Handles(w) ==
    /\ pc[w] = "wait" /\ cq[w] # <<>> /\ Head(cq[w]) # Cancel
    /\ cq' = [cq EXCEPT ![w] = Tail(@)]
    /\ UNCHANGED <<pc, call, issued>> \/ BeginsNext(w, w)
    /\ UNCHANGED <<io_array, running_io, visited, sq, kernel, delivered, clashes>>

\* Mutant: running_io is taken down when the loop ends, and again after it.
Breaks_Counts(w) ==
    /\ pc[w] = "wait" /\ cq[w] # <<>> /\ Head(cq[w]) = Cancel
    /\ cq' = [cq EXCEPT ![w] = Tail(@)]
    /\ running_io' = running_io - 1
    /\ Goto(w, "exit")
    /\ UNCHANGED <<io_array, call, visited, sq, kernel, history>>

Breaks(w) ==
    /\ pc[w] = "wait" /\ cq[w] # <<>> /\ Head(cq[w]) = Cancel
    /\ cq' = [cq EXCEPT ![w] = Tail(@)]
    /\ Goto(w, "exit")
    /\ UNCHANGED <<io_array, running_io, call, visited, sq, kernel, history>>

\* io_uring_queue_exit and running_io--.
Exits(w) ==
    /\ pc[w] = "exit"
    /\ sq' = [sq EXCEPT ![w].alive = FALSE]
    /\ running_io' = running_io - 1
    /\ Goto(w, "gone")
    /\ UNCHANGED <<io_array, call, visited, kernel, cq, history>>

StopBegins ==
    /\ pc[Main] = "up"
    /\ Goto(Main, "stop")
    /\ UNCHANGED <<io_array, running_io, call, visited, sq, kernel, cq, history>>

\* Mutants: the loop does not advance; only the first ring is sent a cancel request.
StopVisits_Again ==
    /\ pc[Main] = "stop" /\ visited < Len(io_array)
    /\ Begins(Main, io_array[1], Cancel)
    /\ visited' = 1
    /\ UNCHANGED <<io_array, running_io, sq, kernel, cq, history>>
StopVisits_One ==
    /\ pc[Main] = "stop" /\ visited < Len(io_array)
    /\ Begins(Main, io_array[1], Cancel)
    /\ visited' = Len(io_array)
    /\ UNCHANGED <<io_array, running_io, sq, kernel, cq, history>>

\* stop() walks over io_array, and empties it.
StopVisits ==
    /\ pc[Main] = "stop" /\ visited < Len(io_array)
    /\ Begins(Main, io_array[visited + 1], Cancel)
    /\ visited' = visited + 1
    /\ UNCHANGED <<io_array, running_io, sq, kernel, cq, history>>

StopClears ==
    /\ pc[Main] = "stop" /\ visited = Len(io_array)
    /\ io_array' = <<>>
    /\ Goto(Main, "join")
    /\ UNCHANGED <<running_io, call, visited, sq, kernel, cq, history>>

StopJoins ==
    /\ pc[Main] = "join"
    /\ \A w \in Workers : pc[w] = "gone"
    /\ Goto(Main, "done")
    /\ UNCHANGED <<io_array, running_io, call, visited, sq, kernel, cq, history>>

Submits(t) == GetsSqe(t) \/ Advances(t) \/ Fills(t) \/ Flushes(t) \/ FindsGone(t)

MainSteps == Spawns \/ RunReturns \/ StopVisits \/ StopClears \/ StopJoins

WorkerSteps(w) == Registers(w) \/ Counts(w) \/ Handles(w) \/ Breaks(w) \/ Exits(w)

Next == \/ MainSteps \/ StopBegins
        \/ \E w \in Workers : WorkerSteps(w) \/ Completes(w)
        \/ \E u \in Users : UserSubmits(u) \/ FindsNone(u)
        \/ \E t \in Threads : Submits(t)

Spec == Init /\ [][Next]_vars

\* Every thread is scheduled.  (Each has finitely much to do within the bounds, so fairness
\* of all together is fairness of each.)  Requests need not complete, users need not call.
FairSpec == Spec /\ WF_vars(MainSteps \/ (\E w \in Workers : WorkerSteps(w))
                                      \/ (\E t \in Threads : Submits(t)))

-----------------------------------------------------------------------------

TypeOK ==
    /\ io_array \in Seq(Workers)
    /\ running_io \in 0 .. Cardinality(Workers)
    /\ pc \in [Threads -> {"run", "poll", "up", "stop", "join", "done", "idle", "new", "start",
                           "count", "wait", "exit", "gone",
                           "get", "advance", "fill", "flush", "crashed", "astray"}]
    /\ call \in [Threads -> [ring : Workers, req : Requests \cup {Cancel}, tail : Nat]]
    /\ \A r \in Workers : /\ sq[r].slots \in [0 .. Entries - 1 -> Requests \cup {Cancel}]
                          /\ sq[r].tail \in Nat /\ sq[r].head \in Nat
    /\ issued \in Seq(Workers) /\ Len(issued) <= MaxRequests
    /\ visited \in 0..Cardinality(Workers)

Registered == {io_array[i] : i \in DOMAIN io_array}

\* When run() returns, every ring is in io_array exactly once: submit() may pick any
\* of them and stop() will reach all of them.
RunReady == pc[Main] = "up" => /\ Registered = Workers
                               /\ Len(io_array) = Cardinality(Workers)

\* A request whose ring's calls never met reaches the kernel once: it is not refused, not
\* lost, not taken twice, and not given away before its entry is filled in.  Calls that
\* meet on one ring do no harm on another.
DeliveredOnce ==
    \A q \in DOMAIN issued : ~Clashed(issued[q]) =>
        delivered[q] = IF \E t \in Threads : /\ InCall(t) \/ pc[t] = "astray"
                                             /\ call[t].req = q
                       THEN 0 ELSE 1

\* thread_ring keeps the workers out of each other's rings: a worker in a call that has met
\* another is in its own ring, so that two threads that meet are never both workers.
WorkersApart == \A c \in clashes : c.workers \subseteq {c.ring}

StopBegun == RunReturned /\ pc[Main] # "up"

\* A worker leaves its loop because of stop(), or because calls met on its ring and left a
\* cancel request there that nobody made.  Only a user's submit() during or after stop()
\* comes upon a ring that is gone, or an empty io_array, and stop() finds a full queue or a
\* ring that is gone only where calls have met.
RingAlive ==
    /\ \A w \in Workers : pc[w] \in {"exit", "gone"} => StopBegun \/ Clashed(w)
    /\ \A t \in Threads : pc[t] \in {"crashed", "astray"} =>
          Clashed(call[t].ring) \/ (t \in Users /\ StopBegun)

\* The worker of every ring where no calls have met leaves its loop once stop() is called,
\* and stop() returns if they have met nowhere, unless stop() itself does not survive.
StopTerminates ==
    pc[Main] = "stop" ~>
        \/ pc[Main] \in {"crashed", "astray"}
        \/ /\ \A w \in Workers : pc[w] = "gone" \/ Clashed(w)
           /\ clashes = {} => pc[Main] = "done"

\* stop() returns, as the tests expect of it while requests are under way, unless a thread
\* runs into something undefined.
StopReturns ==
    pc[Main] = "stop" ~>
        pc[Main] = "done" \/ \E t \in Threads : pc[t] \in {"crashed", "astray"}
=============================================================================
