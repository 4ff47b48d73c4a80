--------------------------- MODULE IoServiceProofs ---------------------------
(***************************************************************************)
(* The proofs about IoService.tla, for any number of workers, users and    *)
(* requests and any size of the rings.                                     *)
(*                                                                         *)
(* Nothing is assumed about who calls when: the calls on one ring may      *)
(* meet.  What is said about a ring's queue and about its requests is said *)
(* of the rings where they have not met so far; and what happens on the    *)
(* others cannot reach these.                                              *)
(***************************************************************************)
EXTENDS IoService, SequenceTheorems, FiniteSetTheorems, TLAPS

-----------------------------------------------------------------------------
(* The inductive invariant.                                                *)

CallLabels == {"get", "advance", "fill", "flush"}

MainLabels == {"run", "poll", "up", "stop", "join", "done", "crashed", "astray"} \cup CallLabels
WorkerLabels == {"new", "start", "count", "wait", "exit", "gone"} \cup CallLabels
UserLabels == {"idle", "astray"} \cup CallLabels

Labels == MainLabels \cup WorkerLabels \cup UserLabels

Values == Requests \cup {Cancel}

Calls == [ring : Workers, req : Values, tail : Nat]

Queues == [slots : [0 .. Entries - 1 -> Values], tail : Nat, head : Nat, alive : BOOLEAN]

Types ==
    /\ io_array \in Seq(Workers)
    /\ running_io \in Nat
    /\ pc \in [Threads -> Labels]
    /\ call \in [Threads -> Calls]
    /\ visited \in Nat
    /\ sq \in [Workers -> Queues]
    /\ kernel \in [Workers -> SUBSET (Nat \X Requests)]
    /\ cq \in [Workers -> Seq(Values)]
    /\ issued \in Seq(Workers) /\ Len(issued) <= MaxRequests
    /\ delivered \in [Requests -> Nat]
    /\ clashes \subseteq [ring : Workers, workers : SUBSET Workers]

\* Where a thread can be.  A worker is on no ring but its own.
Roles ==
    /\ pc[Main] \in MainLabels
    /\ \A w \in Workers : pc[w] \in WorkerLabels
    /\ \A u \in Users : pc[u] \in UserLabels
    /\ \A w \in Workers : InCall(w) => call[w].ring = w

Starting == pc[Main] \in {"run", "poll"}
Cleared == pc[Main] \in {"join", "done"}

\* The workers that have counted themselves in and not yet out.
Running == {w \in Workers : pc[w] \in {"wait", "exit"} \cup CallLabels}

\* The rings are registered once each, and before run() returns every worker has
\* registered its ring and counted itself.
Starts ==
    /\ pc[Main] = "run" => \A w \in Workers : pc[w] = "new"
    /\ ~Starting => \A w \in Workers : pc[w] \notin {"new", "start", "count"}
    /\ running_io = Cardinality(Running)
    /\ \A i, j \in DOMAIN io_array : io_array[i] = io_array[j] => i = j
    /\ Cleared => io_array = <<>>
    /\ ~Cleared => Registered = {w \in Workers : pc[w] \notin {"new", "start"}}
    /\ \A w \in Workers : ~sq[w].alive => pc[w] = "gone"

\* Where no calls have met, nobody uses the queue of a ring and it is empty, or one thread
\* does and it has, or will have, this thread's entry.
Queue(r) ==
    sq[r].alive /\ ~Clashed(r) =>
        /\ \A s, t \in Using(r) : s = t
        /\ Using(r) = {} => sq[r].tail = sq[r].head
        /\ \A t \in Using(r) :
              /\ call[t].tail = sq[r].head
              /\ sq[r].tail = IF pc[t] = "advance" THEN sq[r].head ELSE sq[r].head + 1
              /\ pc[t] = "flush" => sq[r].slots[call[t].tail % Entries] = call[t].req

\* A value that belongs on ring r.
OnRing(v, r) == v = Cancel \/ (v \in DOMAIN issued /\ issued[v] = r)

Calling(q) == \E t \in Threads : call[t].req = q

\* A request stays on its ring, is in one thread's call at most, and where no calls have
\* met it is there or has been delivered once.
Delivers ==
    /\ \A t \in Threads : OnRing(call[t].req, call[t].ring)
    /\ \A t \in Threads : IF call[t].req = Cancel THEN InCall(t) => t = Main
                          ELSE t # Main /\ (InCall(t) \/ pc[t] = "astray")
    /\ \A s, t \in Threads : call[s].req = call[t].req /\ call[s].req # Cancel => s = t
    /\ \A r \in Workers : \A i \in 0 .. Entries - 1 : OnRing(sq[r].slots[i], r)
    /\ \A q \in Requests : q \notin DOMAIN issued => delivered[q] = 0
    /\ \A q \in DOMAIN issued : ~Clashed(issued[q]) =>
          delivered[q] = IF Calling(q) THEN 0 ELSE 1

HasCancel(w) == \E i \in 1..Len(cq[w]) : cq[w][i] = Cancel

\* stop() has submitted the cancel request of ring w.
Visited(w) == /\ StopBegun
              /\ Cleared \/ \E i \in 1..visited : io_array[i] = w
              /\ ~(InCall(Main) /\ call[Main].ring = w)

Lost(t) == pc[t] \in {"crashed", "astray"}

\* A worker leaves its loop, or finds what makes it leave, after stop() has been there, if
\* no calls have met on its ring.
Stops ==
    /\ visited <= Cardinality(Workers)
    /\ ~Cleared => visited <= Len(io_array)
    /\ InCall(Main) => visited >= 1 /\ call[Main].ring = io_array[visited]
    /\ \A w \in Workers : pc[w] \in {"exit", "gone"} \/ HasCancel(w) => Clashed(w) \/ Visited(w)
    /\ \A t \in Threads : Lost(t) => Clashed(call[t].ring) \/ (t \in Users /\ StopBegun)

IInv == Types /\ Roles /\ Starts /\ (\A r \in Workers : Queue(r)) /\ Delivers /\ WorkersApart
        /\ Stops

-----------------------------------------------------------------------------
(* What the steps leave alone.                                             *)

\* The threads are main, the workers and the users, and nobody is two of these.
LEMMA ThreadFacts ==
    /\ Main \in Threads /\ Main \notin Workers /\ Main \notin Users
    /\ Workers \subseteq Threads /\ Users \subseteq Threads
    /\ \A w \in Workers : w \notin Users
    /\ \A t \in Threads : t = Main \/ t \in Workers \/ t \in Users
    /\ Entries \in Nat /\ Entries > 0 /\ Cancel \notin Requests
BY IoServiceAssumption DEF Threads, Requests, Cancel

\* Thread t goes from one label to another, and no other thread moves.
Walks(t, a, b) == /\ pc[t] = a /\ pc'[t] = b
                  /\ \A s \in Threads \ {t} : pc'[s] = pc[s]

\* Goto, as the lemmas below use it.
LEMMA GotoWalks ==
    ASSUME Types, NEW t \in Threads, NEW a, NEW b, pc[t] = a, Goto(t, b)
    PROVE  Walks(t, a, b)
BY DEF Types, Walks, Goto

\* The workers are finitely many, and so are those that count.
LEMMA RunningFinite ==
    /\ IsFiniteSet(Running) /\ Running \subseteq Workers
    /\ Cardinality(Running) \in Nat /\ Cardinality(Workers) \in Nat
    /\ Cardinality(Running) <= Cardinality(Workers)
    /\ Cardinality(Running) = Cardinality(Workers) => Running = Workers
BY IoServiceAssumption, FS_Subset, FS_CardinalityType DEF Running

\* When run() has returned and until stop() clears it, io_array has every ring, once.
LEMMA ArrayFull ==
    ASSUME Types, Starts, ~Starting, ~Cleared
    PROVE  Registered = Workers /\ Len(io_array) = Cardinality(Workers)
<1>1. Registered = Workers
  BY DEF Starts
<1>2. /\ io_array \in Seq(Workers) /\ Len(io_array) \in Nat
      /\ DOMAIN io_array = 1..Len(io_array)
      /\ io_array \in [1..Len(io_array) -> Workers]
  BY DEF Types
<1>3. \A i, j \in 1..Len(io_array) : io_array[i] = io_array[j] => i = j
  BY <1>2 DEF Starts
<1>4. \A w \in Workers : \E i \in 1..Len(io_array) : io_array[i] = w
  BY <1>1, <1>2 DEF Registered
<1>5. io_array \in Bijection(1..Len(io_array), Workers)
  BY <1>2, <1>3, <1>4 DEF Bijection, Injection, Surjection, IsInjective
<1>6. Cardinality(1..Len(io_array)) = Len(io_array) /\ IsFiniteSet(1..Len(io_array))
  BY <1>2, FS_Interval
<1>7. QED
  BY <1>1, <1>5, <1>6, FS_Bijection DEF ExistsBijection

\* A step inside io() or submit(), or a step of a user, changes nothing about who has
\* registered and counted.
LEMMA StartsKept ==
    ASSUME Starts, NEW t \in Threads, NEW a, NEW b, Walks(t, a, b),
           io_array' = io_array, running_io' = running_io,
           \A w \in Workers : sq'[w].alive = sq[w].alive,
           t \in Workers => {a, b} \subseteq {"wait", "exit"} \cup CallLabels,
           t = Main => {a, b} \subseteq {"stop", "crashed", "astray"} \cup CallLabels
    PROVE  Starts'
<1>1. Running' = Running
  BY ThreadFacts DEF Running, Walks
<1>2. Registered' = Registered
  BY DEF Registered
<1>3. (Starting' <=> Starting) /\ (Cleared' <=> Cleared)
  BY ThreadFacts DEF Starting, Cleared, Walks, CallLabels
<1>4. \A w \in Workers : pc'[w] = pc[w] \/ {pc[w], pc'[w]} \subseteq {"wait", "exit"}
                                                                 \cup CallLabels
  BY ThreadFacts DEF Walks
<1>5. pc'[Main] = "run" => pc[Main] = "run" /\ t # Main
  BY ThreadFacts DEF Walks, CallLabels
<1>6. pc'[Main] = "run" => \A w \in Workers : pc'[w] = "new"
  BY <1>4, <1>5 DEF Starts, CallLabels
<1>7. ~Starting' => \A w \in Workers : pc'[w] \notin {"new", "start", "count"}
  BY <1>3, <1>4 DEF Starts, CallLabels
<1>8. ~Cleared' => Registered' = {w \in Workers : pc'[w] \notin {"new", "start"}}
  BY <1>2, <1>3, <1>4 DEF Starts, CallLabels
<1>9. \A w \in Workers : ~sq'[w].alive => pc'[w] = "gone"
  BY <1>4 DEF Starts, CallLabels
<1>10. QED
  BY <1>1, <1>3, <1>6, <1>7, <1>8, <1>9 DEF Starts

\* A queue is as it was when its ring and its users are.
LEMMA QueueKept ==
    ASSUME NEW r \in Workers, Queue(r), sq'[r] = sq[r], Clashed(r) => Clashed(r)',
           Using(r)' = Using(r),
           \A t \in Using(r) : call'[t] = call[t] /\ pc'[t] = pc[t]
    PROVE  Queue(r)'
BY DEF Queue

\* The requests are where they were when no call begins or ends.
LEMMA DeliversKept ==
    ASSUME Delivers, UNCHANGED <<issued, delivered>>,
           \A r \in Workers : sq'[r].slots = sq[r].slots,
           \A r \in Workers : Clashed(r) => Clashed(r)',
           issued \in Seq(Workers),
           \A t \in Threads : call'[t].ring = call[t].ring /\ call'[t].req = call[t].req,
           \A t \in Threads : InCall(t)' => InCall(t),
           \A t \in Threads : InCall(t) \/ pc[t] = "astray" => InCall(t)' \/ pc'[t] = "astray"
    PROVE  Delivers'
<1>1. \A q : Calling(q)' <=> Calling(q)
  BY DEF Calling
<1>2. \A v, r : OnRing(v, r)' <=> OnRing(v, r)
  BY DEF OnRing
<1>3. \A q \in DOMAIN issued : issued[q] \in Workers
  OBVIOUS
<1>4. \A t \in Threads : OnRing(call[t].req, call[t].ring)'
  BY <1>2 DEF Delivers
<1>5. \A t \in Threads : IF call'[t].req = Cancel THEN InCall(t)' => t = Main
                         ELSE t # Main /\ (InCall(t)' \/ pc'[t] = "astray")
  BY DEF Delivers, InCall
<1>6. \A q \in DOMAIN issued' : ~Clashed(issued[q])' =>
          delivered'[q] = IF Calling(q)' THEN 0 ELSE 1
  BY <1>1, <1>3 DEF Delivers
<1>7. \A s, t \in Threads : call'[s].req = call'[t].req /\ call'[s].req # Cancel => s = t
  BY DEF Delivers
<1>8. \A r \in Workers : \A i \in 0 .. Entries - 1 : OnRing(sq[r].slots[i], r)'
  BY <1>2 DEF Delivers
<1>9. \A q \in Requests : q \notin DOMAIN issued' => delivered'[q] = 0
  BY DEF Delivers
<1>10. QED
  BY <1>4, <1>5, <1>6, <1>7, <1>8, <1>9 DEF Delivers

\* Nothing moves towards the end when stop() and the queues of completions do not.
LEMMA StopsKept ==
    ASSUME Stops, io_array' = io_array, visited' = visited,
           StopBegun => StopBegun', Cleared' <=> Cleared,
           InCall(Main)' => InCall(Main) /\ call'[Main].ring = call[Main].ring,
           \A w \in Workers : Clashed(w) => Clashed(w)',
           \A w \in Workers : HasCancel(w)' => HasCancel(w),
           \A w \in Workers : pc'[w] \in {"exit", "gone"} =>
               pc[w] \in {"exit", "gone"} \/ HasCancel(w),
           \A t \in Threads : Lost(t)' =>
               \/ Lost(t) /\ call'[t].ring = call[t].ring /\ call[t].ring \in Workers
               \/ Clashed(call[t].ring)'
               \/ t \in Users /\ StopBegun'
    PROVE  Stops'
<1>1. \A w \in Workers : Visited(w) => Visited(w)'
  BY DEF Visited
<1>2. \A w \in Workers : pc'[w] \in {"exit", "gone"} \/ HasCancel(w)' =>
          Clashed(w)' \/ Visited(w)'
  BY <1>1 DEF Stops
<1>3. \A t \in Threads : Lost(t)' => Clashed(call[t].ring)' \/ (t \in Users /\ StopBegun')
  BY DEF Stops
<1>4. QED
  BY <1>2, <1>3 DEF Stops

-----------------------------------------------------------------------------
(* run().                                                                  *)

\* Before run() there are no threads of the service, no rings and no requests.
LEMMA InitEstablishes ==
    ASSUME Init
    PROVE  IInv
<1>1. /\ \A w \in Workers : pc[w] = "new"
      /\ \A u \in Users : pc[u] = "idle"
      /\ pc[Main] = "run" /\ \A t \in Threads : pc[t] \in {"run", "new", "idle"}
  BY ThreadFacts DEF Init
<1>2. NewQueue \in Queues /\ NewQueue.alive /\ NewQueue.tail = NewQueue.head
      /\ \A i \in 0 .. Entries - 1 : NewQueue.slots[i] = Cancel
  BY DEF NewQueue, Queues, Values
<1>3. \A w \in Workers : sq[w] = NewQueue /\ cq[w] = <<>>
  BY DEF Init
<1>4. NoCall \in Calls /\ NoCall.req = Cancel /\ \A t \in Threads : call[t] = NoCall
  <2>1. (CHOOSE w \in Workers : TRUE) \in Workers
    BY IoServiceAssumption
  <2>2. QED
    BY <2>1 DEF Init, NoCall, Calls, Values
<1>5. \A t \in Threads : ~InCall(t)
  BY <1>1 DEF InCall
<1>6. Types
  <2>1. call \in [Threads -> Calls]
    BY <1>4 DEF Init
  <2>2. pc \in [Threads -> Labels]
    BY DEF Init, Labels, MainLabels, WorkerLabels, UserLabels
  <2>3. issued \in Seq(Workers) /\ Len(issued) <= MaxRequests
    BY IoServiceAssumption DEF Init
  <2>4. sq \in [Workers -> Queues]
    BY <1>2 DEF Init
  <2>5. QED
    BY <2>1, <2>2, <2>3, <2>4 DEF Types, Init
<1>7. Roles
  BY <1>1, <1>5, ThreadFacts DEF Roles, MainLabels, WorkerLabels, UserLabels
<1>8. Starts
  <2>1. Running = {}
    BY <1>1 DEF Running, CallLabels
  <2>2. Registered = {}
    BY DEF Init, Registered
  <2>3. running_io = Cardinality(Running)
    BY <2>1, FS_EmptySet DEF Init
  <2>4. QED
    BY <1>1, <1>2, <1>3, <2>2, <2>3 DEF Init, Starts, Starting
<1>9. \A r \in Workers : Queue(r)
  BY <1>1, <1>2, <1>3 DEF Queue, Using
<1>10. Delivers
  <2>1. DOMAIN issued = {}
    BY DEF Init
  <2>2. QED
    BY <1>2, <1>3, <1>4, <1>5, <2>1 DEF Delivers, OnRing, Init
<1>11. WorkersApart
  BY DEF WorkersApart, Init
<1>12. Stops
  <2>1. visited = 0 /\ Len(io_array) = 0
    BY DEF Init
  <2>2. \A w \in Workers : ~HasCancel(w)
    BY <1>3 DEF HasCancel
  <2>3. QED
    BY <1>1, <1>5, <2>1, <2>2, RunningFinite, ThreadFacts DEF Stops, Lost
<1>13. QED
  BY <1>6, <1>7, <1>8, <1>9, <1>10, <1>11, <1>12 DEF IInv

\* A step of a thread that submits nothing: what is said about the queues and the requests
\* stays.
LEMMA QuietKeeps ==
    ASSUME IInv, UNCHANGED <<call, sq, issued, delivered, clashes>>,
           \A t \in Threads : pc'[t] # pc[t] =>
               {pc[t], pc'[t]} \cap CallLabels = {} /\ pc[t] # "astray"
    PROVE  /\ \A r \in Workers : Queue(r)'
           /\ Delivers' /\ WorkersApart'
           /\ \A t \in Threads : InCall(t)' <=> InCall(t)
<1>1. \A t \in Threads : InCall(t)' <=> InCall(t)
  BY DEF InCall, CallLabels
<1>2. \A r \in Workers : Clashed(r)' <=> Clashed(r)
  BY DEF Clashed
<1>3. ASSUME NEW r \in Workers PROVE Queue(r)'
  <2>1. Using(r)' = Using(r)
    BY DEF Using, CallLabels
  <2>2. \A t \in Using(r) : call'[t] = call[t] /\ pc'[t] = pc[t]
    BY DEF Using, CallLabels
  <2>3. QED
    BY <1>2, <2>1, <2>2, QueueKept DEF IInv
<1>4. Delivers'
  <2>1. \A t \in Threads : /\ InCall(t)' => InCall(t)
                           /\ InCall(t) \/ pc[t] = "astray" => InCall(t)' \/ pc'[t] = "astray"
    BY <1>1
  <2>2. QED
    BY <1>2, <2>1, DeliversKept DEF IInv, Types
<1>5. WorkersApart'
  BY DEF IInv, WorkersApart
<1>6. QED
  BY <1>1, <1>3, <1>4, <1>5

\* run() starts the workers (io_service.cpp:266-267).
LEMMA SpawnsKeeps ==
    ASSUME IInv, Spawns
    PROVE  IInv'
<1>1. /\ pc[Main] = "run" /\ pc'[Main] = "poll"
      /\ \A w \in Workers : pc[w] = "new" /\ pc'[w] = "start"
      /\ \A u \in Users : pc'[u] = pc[u]
      /\ UNCHANGED <<io_array, running_io, call, visited, sq, kernel, cq, history>>
  BY ThreadFacts DEF IInv, Starts, Spawns
<1>2. \A t \in Threads : pc'[t] # pc[t] =>
          {pc[t], pc'[t]} \cap CallLabels = {} /\ pc[t] # "astray"
  BY <1>1, ThreadFacts DEF CallLabels
<1>3. /\ \A r \in Workers : Queue(r)'
      /\ Delivers' /\ WorkersApart' /\ \A t \in Threads : InCall(t)' <=> InCall(t)
  BY <1>1, <1>2, QuietKeeps DEF history
<1>4. Types'
  <2>1. pc' \in [Threads -> Labels]
    BY DEF IInv, Types, Spawns, Labels, MainLabels, WorkerLabels
  <2>2. QED
    BY <1>1, <2>1 DEF IInv, Types, history
<1>5. Roles'
  BY <1>1, <1>3, ThreadFacts DEF IInv, Roles, MainLabels, WorkerLabels
<1>6. Starts'
  <2>1. Running' = Running
    BY <1>1 DEF Running, CallLabels
  <2>2. Registered' = Registered /\ Registered = {} /\ ~Cleared /\ ~Cleared' /\ Starting'
    BY <1>1 DEF IInv, Starts, Registered, Cleared, Starting
  <2>3. QED
    BY <1>1, <2>1, <2>2 DEF IInv, Starts
<1>7. Stops'
  <2>1. ~StopBegun /\ (Cleared' <=> Cleared)
    BY <1>1 DEF StopBegun, RunReturned, Cleared
  <2>2. \A w \in Workers : /\ HasCancel(w)' <=> HasCancel(w)
                           /\ Clashed(w)' <=> Clashed(w)
    BY <1>1 DEF HasCancel, Clashed, history
  <2>3. \A t \in Threads : Lost(t)' => Lost(t) /\ call[t].ring \in Workers
    BY <1>1, ThreadFacts DEF Lost, IInv, Types, Calls
  <2>4. \A w \in Workers : pc'[w] \notin {"exit", "gone"}
    BY <1>1
  <2>5. QED
    BY <1>1, <1>3, <2>1, <2>2, <2>3, <2>4, StopsKept, ThreadFacts DEF IInv
<1>8. QED
  BY <1>3, <1>4, <1>5, <1>6, <1>7 DEF IInv

\* A worker puts its ring into io_array, under the lock (io_service.cpp:383-384).
LEMMA RegistersKeeps ==
    ASSUME IInv, NEW w \in Workers, Registers(w)
    PROVE  IInv'
<1>1. Walks(w, "start", "count")
  BY ThreadFacts, GotoWalks DEF IInv, Registers
<1>2. /\ pc[w] = "start" /\ pc'[w] = "count" /\ pc'[Main] = pc[Main]
      /\ \A s \in Threads \ {w} : pc'[s] = pc[s]
      /\ UNCHANGED <<running_io, call, visited, sq, kernel, cq, history>>
  BY <1>1, ThreadFacts DEF Walks, Registers
<1>3. /\ Starting /\ ~Cleared /\ ~StopBegun /\ ~InCall(Main)
      /\ Starting' /\ ~Cleared' /\ ~StopBegun'
  BY <1>2, ThreadFacts
     DEF IInv, Starts, Starting, Cleared, StopBegun, RunReturned, InCall
<1>4. /\ io_array \in Seq(Workers) /\ io_array' \in Seq(Workers)
      /\ Len(io_array) \in Nat /\ Len(io_array') = Len(io_array) + 1
      /\ \A i \in 1..Len(io_array) : io_array'[i] = io_array[i]
      /\ io_array'[Len(io_array) + 1] = w
      /\ DOMAIN io_array = 1..Len(io_array) /\ DOMAIN io_array' = 1..Len(io_array')
  BY DEF IInv, Types, Registers
<1>5. Registered' = Registered \cup {w}
  BY <1>4 DEF Registered
<1>6. /\ \A r \in Workers : Queue(r)'
      /\ Delivers' /\ WorkersApart' /\ \A t \in Threads : InCall(t)' <=> InCall(t)
  <2>1. \A t \in Threads : pc'[t] # pc[t] =>
            {pc[t], pc'[t]} \cap CallLabels = {} /\ pc[t] # "astray"
    BY <1>2 DEF CallLabels
  <2>2. QED
    BY <1>2, <2>1, QuietKeeps DEF history
<1>7. Types'
  BY <1>4 DEF IInv, Types, Registers, Goto, Labels, WorkerLabels, history
<1>8. Roles'
  BY <1>2, <1>6, ThreadFacts DEF IInv, Roles, WorkerLabels
<1>9. Starts'
  <2>1. Running' = Running
    BY <1>2, ThreadFacts DEF Running, CallLabels
  <2>2. w \notin Registered
    BY <1>2, <1>3 DEF IInv, Starts
  <2>3. \A i, j \in DOMAIN io_array' : io_array'[i] = io_array'[j] => i = j
    <3>1. \A i \in 1..Len(io_array) : io_array[i] # w
      BY <1>4, <2>2 DEF Registered
    <3>2. \A i \in 1..Len(io_array') : i \in 1..Len(io_array) \/ i = Len(io_array) + 1
      BY <1>4
    <3>3. QED
      BY <1>4, <3>1, <3>2 DEF IInv, Starts
  <2>4. \A v \in Workers \ {w} : pc'[v] = pc[v]
    BY <1>2, ThreadFacts
  <2>5. Registered' = {v \in Workers : pc'[v] \notin {"new", "start"}}
    BY <1>2, <1>3, <1>5, <2>4 DEF IInv, Starts
  <2>6. pc'[Main] # "run"
    BY <1>2 DEF IInv, Starts
  <2>7. \A v \in Workers : ~sq'[v].alive => pc'[v] = "gone"
    BY <1>2, <2>4 DEF IInv, Starts
  <2>8. running_io' = Cardinality(Running')
    BY <1>2, <2>1 DEF IInv, Starts
  <2>9. QED
    BY <1>3, <2>3, <2>5, <2>6, <2>7, <2>8 DEF Starts
<1>10. Stops'
  <2>1. visited <= Cardinality(Workers) /\ visited <= Len(io_array) /\ visited \in Nat
    BY <1>3 DEF IInv, Stops, Types
  <2>2. \A v \in Workers : /\ HasCancel(v)' <=> HasCancel(v)
                           /\ Clashed(v)' <=> Clashed(v)
    BY <1>2 DEF HasCancel, Clashed, history
  <2>3. \A v \in Workers : pc'[v] \in {"exit", "gone"} \/ HasCancel(v)' => Clashed(v)'
    BY <1>2, <1>3, <2>2, ThreadFacts DEF IInv, Stops, Visited
  <2>4. \A t \in Threads : Lost(t)' => Clashed(call[t].ring)'
    <3>1. SUFFICES ASSUME NEW t \in Threads, Lost(t)' PROVE Clashed(call[t].ring)'
      OBVIOUS
    <3>2. Lost(t) /\ call'[t] = call[t]
      BY <1>2, <3>1 DEF Lost
    <3>3. Clashed(call[t].ring)
      BY <1>3, <3>2 DEF IInv, Stops
    <3>4. QED
      BY <1>2, <3>3 DEF Clashed, history
  <2>5. QED
    BY <1>2, <1>3, <1>4, <1>6, <2>1, <2>3, <2>4, ThreadFacts DEF Stops
<1>11. QED
  BY <1>6, <1>7, <1>8, <1>9, <1>10 DEF IInv

\* A worker counts itself (io_service.cpp:388).
LEMMA CountsKeeps ==
    ASSUME IInv, NEW w \in Workers, Counts(w)
    PROVE  IInv'
<1>1. Walks(w, "count", "wait")
  BY ThreadFacts, GotoWalks DEF IInv, Counts
<1>2. /\ pc[w] = "count" /\ pc'[w] = "wait" /\ pc'[Main] = pc[Main]
      /\ \A s \in Threads \ {w} : pc'[s] = pc[s]
      /\ UNCHANGED <<io_array, call, visited, sq, kernel, cq, history>>
      /\ running_io' = running_io + 1
  BY <1>1, ThreadFacts DEF Walks, Counts
<1>3. Starting /\ ~Cleared /\ Starting' /\ ~Cleared'
  BY <1>2, ThreadFacts DEF IInv, Starts, Starting, Cleared
<1>4. /\ \A r \in Workers : Queue(r)'
      /\ Delivers' /\ WorkersApart' /\ \A t \in Threads : InCall(t)' <=> InCall(t)
  <2>1. \A t \in Threads : pc'[t] # pc[t] =>
            {pc[t], pc'[t]} \cap CallLabels = {} /\ pc[t] # "astray"
    BY <1>2 DEF CallLabels
  <2>2. QED
    BY <1>2, <2>1, QuietKeeps DEF history
<1>5. Types'
  <2>1. running_io' \in Nat
    BY <1>2 DEF IInv, Types
  <2>2. pc' \in [Threads -> Labels]
    BY DEF IInv, Types, Counts, Goto, Labels, WorkerLabels
  <2>3. QED
    BY <1>2, <2>1, <2>2 DEF IInv, Types, history
<1>6. Roles'
  BY <1>2, <1>4, ThreadFacts DEF IInv, Roles, WorkerLabels
<1>7. Starts'
  <2>1. w \notin Running /\ Running' = Running \cup {w}
    BY <1>2, ThreadFacts DEF Running, CallLabels
  <2>2. Cardinality(Running') = Cardinality(Running) + 1
    BY <2>1, RunningFinite, FS_AddElement
  <2>3. \A v \in Workers \ {w} : pc'[v] = pc[v]
    BY <1>2, ThreadFacts
  <2>4. Registered' = {v \in Workers : pc'[v] \notin {"new", "start"}}
    BY <1>2, <1>3, <2>3 DEF IInv, Starts, Registered
  <2>5. pc'[Main] # "run"
    BY <1>2 DEF IInv, Starts
  <2>6. \A v \in Workers : ~sq'[v].alive => pc'[v] = "gone"
    BY <1>2, <2>3 DEF IInv, Starts
  <2>7. \A i, j \in DOMAIN io_array' : io_array'[i] = io_array'[j] => i = j
    BY <1>2 DEF IInv, Starts
  <2>8. running_io' = Cardinality(Running')
    BY <1>2, <2>2 DEF IInv, Starts
  <2>9. QED
    BY <1>3, <2>4, <2>5, <2>6, <2>7, <2>8 DEF Starts
<1>8. Stops'
  <2>1. \A v \in Workers : /\ HasCancel(v)' <=> HasCancel(v)
                           /\ Clashed(v)' <=> Clashed(v)
                           /\ pc'[v] \in {"exit", "gone"} => pc[v] \in {"exit", "gone"}
    BY <1>2, ThreadFacts DEF HasCancel, Clashed, history
  <2>2. \A t \in Threads : Lost(t)' => Lost(t) /\ call[t].ring \in Workers
    BY <1>2 DEF Lost, IInv, Types, Calls
  <2>3. StopBegun => StopBegun'
    BY <1>2 DEF StopBegun, RunReturned
  <2>4. QED
    BY <1>2, <1>3, <1>4, <2>1, <2>2, <2>3, StopsKept, ThreadFacts DEF IInv
<1>9. QED
  BY <1>4, <1>5, <1>6, <1>7, <1>8 DEF IInv

\* A step of main alone, which submits nothing and leaves io_array alone.
LEMMA MainKeeps ==
    ASSUME IInv, NEW a, NEW b, pc[Main] = a, Goto(Main, b),
           UNCHANGED <<io_array, running_io, call, visited, sq, kernel, cq, history>>,
           <<a, b>> \in {<<"poll", "up">>, <<"up", "stop">>, <<"join", "done">>},
           a = "poll" => \A w \in Workers : pc[w] \notin {"new", "start", "count"}
    PROVE  IInv'
<1>1. /\ pc[Main] = a /\ pc'[Main] = b
      /\ \A s \in Threads \ {Main} : pc'[s] = pc[s]
      /\ \A w \in Workers : pc'[w] = pc[w]
      /\ \A u \in Users : pc'[u] = pc[u]
  BY ThreadFacts, GotoWalks DEF IInv, Walks
<1>2. \A w \in Workers : pc[w] \notin {"new", "start", "count"}
  BY <1>1 DEF IInv, Starts, Starting
<1>3. /\ \A r \in Workers : Queue(r)'
      /\ Delivers' /\ WorkersApart' /\ \A t \in Threads : InCall(t)' <=> InCall(t)
  <2>1. \A t \in Threads : pc'[t] # pc[t] =>
            {pc[t], pc'[t]} \cap CallLabels = {} /\ pc[t] # "astray"
    BY <1>1 DEF CallLabels
  <2>2. QED
    BY <2>1, QuietKeeps DEF history
<1>4. Types'
  <2>1. b \in Labels
    BY DEF Labels, MainLabels
  <2>2. pc' \in [Threads -> Labels]
    BY <2>1 DEF IInv, Types, Goto
  <2>3. QED
    BY <2>2 DEF IInv, Types, history
<1>5. Roles'
  <2>1. b \in MainLabels
    BY DEF MainLabels
  <2>2. QED
    BY <1>1, <1>3, <2>1, ThreadFacts DEF IInv, Roles
<1>6. Cleared' <=> Cleared
  BY <1>1 DEF Cleared
<1>7. Starts'
  <2>1. Running' = Running /\ Registered' = Registered
    BY <1>1 DEF Running, Registered
  <2>2. pc'[Main] # "run"
    BY <1>1
  <2>3. QED
    BY <1>1, <1>2, <1>6, <2>1, <2>2 DEF IInv, Starts
<1>8. Stops'
  <2>1. \A v \in Workers : /\ HasCancel(v)' <=> HasCancel(v)
                           /\ Clashed(v)' <=> Clashed(v)
    BY DEF HasCancel, Clashed, history
  <2>2. \A t \in Threads : Lost(t)' => Lost(t) /\ call[t].ring \in Workers
    BY <1>1 DEF Lost, IInv, Types, Calls
  <2>3. StopBegun => StopBegun'
    BY <1>1 DEF StopBegun, RunReturned
  <2>4. QED
    BY <1>1, <1>3, <1>6, <2>1, <2>2, <2>3, StopsKept, ThreadFacts DEF IInv
<1>9. QED
  BY <1>3, <1>4, <1>5, <1>7, <1>8 DEF IInv

\* run() returns when all have counted themselves (io_service.cpp:269-273).
LEMMA RunReturnsKeeps ==
    ASSUME IInv, RunReturns
    PROVE  IInv'
<1>1. Running = Workers
  BY RunningFinite DEF IInv, Starts, RunReturns
<1>2. \A w \in Workers : pc[w] \notin {"new", "start", "count"}
  BY <1>1 DEF Running, CallLabels
<1>3. QED
  BY <1>2, MainKeeps DEF RunReturns

\* stop() is called (io_service.cpp:276).
LEMMA StopBeginsKeeps ==
    ASSUME IInv, StopBegins
    PROVE  IInv'
BY MainKeeps DEF StopBegins

\* stop() returns when every worker has (io_service.cpp:286).
LEMMA StopJoinsKeeps ==
    ASSUME IInv, StopJoins
    PROVE  IInv'
BY MainKeeps DEF StopJoins

-----------------------------------------------------------------------------
(* submit() is called.                                                     *)

\* What a new call is.
LEMMA BeginsFacts ==
    ASSUME Types, NEW t \in Threads, NEW r \in Workers, NEW q \in Values, Begins(t, r, q)
    PROVE  /\ call' \in [Threads -> Calls] /\ pc' \in [Threads -> Labels]
           /\ pc'[t] = "get" /\ call'[t].ring = r /\ call'[t].req = q
           /\ \A s \in Threads \ {t} : pc'[s] = pc[s] /\ call'[s] = call[s]
           /\ InCall(t)'
           /\ \A s \in Threads \ {t} : InCall(s)' <=> InCall(s)
BY DEF Types, Begins, Goto, Calls, Labels, MainLabels, CallLabels, InCall

\* The caller has not used the queue yet.
LEMMA BeginsQueues ==
    ASSUME Types, NEW t \in Threads, NEW r \in Workers, NEW q \in Values, Begins(t, r, q),
           ~InCall(t), sq' = sq, clashes' = clashes, NEW x \in Workers, Queue(x)
    PROVE  Queue(x)'
<1>1. Using(x)' = Using(x)
  BY BeginsFacts DEF Using, InCall
<1>2. \A s \in Using(x) : call'[s] = call[s] /\ pc'[s] = pc[s]
  BY BeginsFacts DEF Using, InCall
<1>3. Clashed(x)' <=> Clashed(x)
  BY DEF Clashed
<1>4. QED
  BY <1>1, <1>2, <1>3, QueueKept

\* The next request, and its ring.
LEMMA IssuedFacts ==
    ASSUME Types, NEW r \in Workers, Len(issued) < MaxRequests, issued' = Append(issued, r)
    PROVE  /\ issued' \in Seq(Workers) /\ Len(issued') <= MaxRequests
           /\ Len(issued) + 1 \in Requests /\ Len(issued) + 1 \in Values
           /\ Len(issued) + 1 # Cancel
           /\ Len(issued) + 1 \notin DOMAIN issued
           /\ DOMAIN issued' = DOMAIN issued \cup {Len(issued) + 1}
           /\ issued'[Len(issued) + 1] = r
           /\ \A p \in DOMAIN issued : issued'[p] = issued[p] /\ issued[p] \in Workers
BY IoServiceAssumption DEF Types, Requests, Values, Cancel

\* A thread other than main submits the next request: a worker to its own ring.
LEMMA BeginsNextKeeps ==
    ASSUME IInv, NEW t \in Workers \cup Users, NEW r \in Workers, BeginsNext(t, r),
           t \in Workers => r = t,
           pc[t] = IF t \in Workers THEN "wait" ELSE "idle",
           UNCHANGED <<io_array, running_io, visited, sq, kernel, delivered, clashes>>,
           cq' \in [Workers -> Seq(Values)],
           \A w \in Workers : HasCancel(w)' => HasCancel(w)
    PROVE  IInv'
<1>0. PICK q \in Requests : q = Len(issued) + 1
  BY IssuedFacts DEF IInv, BeginsNext
<1>1. /\ t \in Threads /\ t # Main /\ (t \in Users <=> t \notin Workers)
      /\ ~InCall(t) /\ ~Lost(t)
  BY ThreadFacts DEF InCall, Lost
<1>2. /\ issued' \in Seq(Workers) /\ Len(issued') <= MaxRequests
      /\ q \in Requests /\ q \in Values /\ q # Cancel
      /\ q \notin DOMAIN issued /\ DOMAIN issued' = DOMAIN issued \cup {q}
      /\ issued'[q] = r
      /\ \A p \in DOMAIN issued : issued'[p] = issued[p] /\ issued[p] \in Workers
      /\ Begins(t, r, q)
  BY <1>0, IssuedFacts DEF IInv, BeginsNext
<1>3. /\ call' \in [Threads -> Calls] /\ pc' \in [Threads -> Labels]
      /\ pc'[t] = "get" /\ call'[t].ring = r /\ call'[t].req = q
      /\ \A s \in Threads \ {t} : pc'[s] = pc[s] /\ call'[s] = call[s]
      /\ InCall(t)' /\ \A s \in Threads \ {t} : InCall(s)' <=> InCall(s)
  BY <1>1, <1>2, BeginsFacts DEF IInv
<1>4. pc'[Main] = pc[Main] /\ call'[Main] = call[Main] /\ (InCall(Main)' <=> InCall(Main))
  BY <1>1, <1>3, ThreadFacts
<1>5. Types'
  BY <1>2, <1>3 DEF IInv, Types
<1>6. Roles'
  BY <1>1, <1>3, <1>4, ThreadFacts
     DEF IInv, Roles, CallLabels, WorkerLabels, UserLabels
<1>7. Starts'
  <2>1. PICK a \in {"wait", "idle"} : Walks(t, a, "get") /\ (t \in Workers => a = "wait")
    BY <1>1, <1>3 DEF Walks
  <2>2. t \in Workers => {a, "get"} \subseteq {"wait", "exit"} \cup CallLabels
    BY <2>1 DEF CallLabels
  <2>3. QED
    BY <1>1, <2>1, <2>2, StartsKept DEF IInv
<1>8. \A x \in Workers : Queue(x)'
  BY <1>1, <1>2, BeginsQueues DEF IInv
<1>9. Delivers'
  <2>1. \A v, x : OnRing(v, x) => OnRing(v, x)' /\ v # q
    BY <1>2 DEF OnRing
  <2>2. OnRing(q, r)'
    BY <1>2 DEF OnRing
  <2>3. call[t].req = Cancel /\ ~Calling(q)
    BY <1>1, <1>2, <2>1 DEF IInv, Delivers, Calling, Lost
  <2>4. \A s \in Threads : OnRing(call[s].req, call[s].ring)'
    <3>1. \A s \in Threads \ {t} : OnRing(call[s].req, call[s].ring)'
      BY <1>2, <1>3 DEF IInv, Delivers, OnRing
    <3>2. OnRing(call[t].req, call[t].ring)'
      BY <1>3, <2>2 DEF OnRing
    <3>3. QED
      BY <3>1, <3>2
  <2>5. \A s \in Threads : IF call'[s].req = Cancel THEN InCall(s)' => s = Main
                           ELSE s # Main /\ (InCall(s)' \/ pc'[s] = "astray")
    BY <1>1, <1>2, <1>3 DEF IInv, Delivers
  <2>6. \A s, u \in Threads : call'[s].req = call'[u].req /\ call'[s].req # Cancel => s = u
    BY <1>3, <2>3 DEF IInv, Delivers, Calling
  <2>7. \A x \in Workers : \A i \in 0 .. Entries - 1 : OnRing(sq[x].slots[i], x)'
    BY <1>2 DEF IInv, Delivers, OnRing
  <2>8. \A p \in Requests : p \notin DOMAIN issued' => delivered'[p] = 0
    BY <1>2 DEF IInv, Delivers
  <2>9. \A p \in Requests : Calling(p)' <=> p = q \/ Calling(p)
    BY <1>1, <1>2, <1>3, <2>3, ThreadFacts DEF Calling
  <2>10. \A p \in DOMAIN issued : p \in Requests
    BY IoServiceAssumption DEF IInv, Types, Requests
  <2>11. ASSUME NEW p \in DOMAIN issued', ~Clashed(issued[p])'
         PROVE  delivered'[p] = IF Calling(p)' THEN 0 ELSE 1
    <3>1. CASE p = q
      BY <1>2, <2>9, <3>1 DEF IInv, Delivers
    <3>2. CASE p # q
      <4>1. p \in DOMAIN issued /\ p \in Requests /\ ~Clashed(issued[p])
        BY <1>2, <2>10, <2>11, <3>2 DEF Clashed
      <4>2. QED
        BY <2>9, <3>2, <4>1 DEF IInv, Delivers
    <3>3. QED
      BY <3>1, <3>2
  <2>12. QED
    BY <2>4, <2>5, <2>6, <2>7, <2>8, <2>11 DEF Delivers
<1>10. WorkersApart'
  BY DEF IInv, WorkersApart
<1>11. Stops'
  <2>1. (StopBegun' <=> StopBegun) /\ (Cleared' <=> Cleared)
    BY <1>4 DEF StopBegun, RunReturned, Cleared
  <2>2. \A w \in Workers : /\ Clashed(w)' <=> Clashed(w)
                           /\ pc'[w] \in {"exit", "gone"} => pc[w] \in {"exit", "gone"}
    BY <1>1, <1>3, ThreadFacts DEF Clashed
  <2>3. \A s \in Threads : Lost(s)' => /\ Lost(s) /\ call'[s].ring = call[s].ring
                                       /\ call[s].ring \in Workers
    BY <1>3 DEF Lost, IInv, Types, Calls
  <2>4. QED
    BY <1>4, <2>1, <2>2, <2>3, StopsKept DEF IInv
<1>12. QED
  BY <1>5, <1>6, <1>7, <1>8, <1>9, <1>10, <1>11 DEF IInv

\* A user's call of submit(), which picks a ring (io_service.cpp:313-317).
LEMMA UserSubmitsKeeps ==
    ASSUME IInv, NEW u \in Users, UserSubmits(u)
    PROVE  IInv'
<1>1. PICK i \in DOMAIN io_array : BeginsNext(u, io_array[i])
  BY DEF UserSubmits
<1>2. io_array[i] \in Workers /\ u \notin Workers
  BY ThreadFacts DEF IInv, Types
<1>3. cq' \in [Workers -> Seq(Values)] /\ \A w \in Workers : HasCancel(w)' => HasCancel(w)
  BY DEF UserSubmits, IInv, Types, HasCancel
<1>4. QED
  BY <1>1, <1>2, <1>3, BeginsNextKeeps DEF UserSubmits

\* A user's call of submit() finds io_array empty, which it is when stop() has cleared it
\* (io_service.cpp:284, 316).
LEMMA FindsNoneKeeps ==
    ASSUME IInv, NEW u \in Users, FindsNone(u)
    PROVE  IInv'
<1>1. /\ u \in Threads /\ u # Main /\ u \notin Workers
      /\ UNCHANGED <<io_array, running_io, call, visited, sq, kernel, cq, history>>
  BY ThreadFacts DEF FindsNone
<1>2. Walks(u, "idle", "astray")
  BY <1>1, GotoWalks DEF IInv, FindsNone
<1>3. /\ pc[u] = "idle" /\ pc'[u] = "astray" /\ pc'[Main] = pc[Main]
      /\ \A s \in Threads \ {u} : pc'[s] = pc[s]
  BY <1>1, <1>2, ThreadFacts DEF Walks
<1>4. /\ \A r \in Workers : Queue(r)'
      /\ Delivers' /\ WorkersApart' /\ \A t \in Threads : InCall(t)' <=> InCall(t)
  <2>1. \A t \in Threads : pc'[t] # pc[t] =>
            {pc[t], pc'[t]} \cap CallLabels = {} /\ pc[t] # "astray"
    BY <1>3 DEF CallLabels
  <2>2. QED
    BY <1>1, <2>1, QuietKeeps DEF history
<1>5. Types'
  <2>1. pc' \in [Threads -> Labels]
    BY DEF IInv, Types, FindsNone, Goto, Labels, UserLabels
  <2>2. QED
    BY <1>1, <2>1 DEF IInv, Types, history
<1>6. Roles'
  BY <1>1, <1>3, <1>4, ThreadFacts DEF IInv, Roles, UserLabels
<1>7. Starts'
  BY <1>1, <1>2, StartsKept DEF IInv
<1>8. StopBegun
  <2>1. ~Starting
    BY DEF FindsNone, RunReturned, Starting
  <2>2. Registered = {}
    BY DEF FindsNone, Registered
  <2>3. Cleared
    BY <2>1, <2>2, ArrayFull, IoServiceAssumption DEF IInv
  <2>4. QED
    BY <2>3 DEF Cleared, StopBegun, RunReturned
<1>9. Stops'
  <2>1. \A w \in Workers : /\ HasCancel(w)' <=> HasCancel(w)
                           /\ Clashed(w)' <=> Clashed(w)
                           /\ pc'[w] = pc[w]
    BY <1>1, <1>3, ThreadFacts DEF HasCancel, Clashed, history
  <2>2. StopBegun' /\ (Cleared' <=> Cleared)
    BY <1>3, <1>8 DEF StopBegun, RunReturned, Cleared
  <2>3. \A t \in Threads : Lost(t)' => t = u \/ (Lost(t) /\ call[t].ring \in Workers)
    BY <1>3 DEF Lost, IInv, Types, Calls
  <2>4. QED
    BY <1>1, <1>4, <2>1, <2>2, <2>3, StopsKept, ThreadFacts DEF IInv
<1>10. QED
  BY <1>4, <1>5, <1>6, <1>7, <1>9 DEF IInv

-----------------------------------------------------------------------------
(* io() and stop().                                                        *)

\* A queue of completions without its first entry.
LEMMA TailCancels ==
    ASSUME Types, NEW w \in Workers, cq[w] # <<>>, cq' = [cq EXCEPT ![w] = Tail(cq[w])]
    PROVE  /\ cq' \in [Workers -> Seq(Values)]
           /\ \A v \in Workers : HasCancel(v)' => HasCancel(v)
           /\ Head(cq[w]) = Cancel => HasCancel(w)
<1>1. cq[w] \in Seq(Values) /\ Tail(cq[w]) \in Seq(Values)
  BY DEF Types
<1>2. cq'[w] = Tail(cq[w]) /\ \A v \in Workers \ {w} : cq'[v] = cq[v]
  BY DEF Types
<1>3. cq' \in [Workers -> Seq(Values)]
  BY <1>1 DEF Types
<1>4. ASSUME HasCancel(w)' PROVE HasCancel(w)
  <2>1. PICK i \in 1..Len(Tail(cq[w])) : Tail(cq[w])[i] = Cancel
    BY <1>2, <1>4 DEF HasCancel
  <2>2. i + 1 \in 1..Len(cq[w]) /\ cq[w][i + 1] = Cancel
    BY <1>1, <2>1
  <2>3. QED
    BY <2>2 DEF HasCancel
<1>5. ASSUME Head(cq[w]) = Cancel PROVE HasCancel(w)
  <2>1. 1 \in 1..Len(cq[w]) /\ cq[w][1] = Cancel
    BY <1>1, <1>5
  <2>2. QED
    BY <2>1 DEF HasCancel
<1>6. \A v \in Workers \ {w} : HasCancel(v)' => HasCancel(v)
  BY <1>2 DEF HasCancel
<1>7. QED
  BY <1>3, <1>4, <1>5, <1>6

\* A completion is handled, and its handler may submit the next request: the worker is on
\* its own ring (io_service.cpp:314-317).
LEMMA HandlesKeeps ==
    ASSUME IInv, NEW w \in Workers, Handles(w)
    PROVE  IInv'
<1>1. /\ w \in Threads /\ pc[w] = "wait"
      /\ cq' = [cq EXCEPT ![w] = Tail(cq[w])] /\ cq[w] # <<>>
      /\ UNCHANGED <<io_array, running_io, visited, sq, kernel, delivered, clashes>>
  BY ThreadFacts DEF Handles
<1>2. cq' \in [Workers -> Seq(Values)] /\ \A v \in Workers : HasCancel(v)' => HasCancel(v)
  BY <1>1, TailCancels DEF IInv
<1>3. CASE BeginsNext(w, w)
  BY <1>1, <1>2, <1>3, BeginsNextKeeps
<1>4. CASE UNCHANGED <<pc, call, issued>>
  <2>1. /\ \A r \in Workers : Queue(r)'
        /\ Delivers' /\ WorkersApart' /\ \A t \in Threads : InCall(t)' <=> InCall(t)
    BY <1>1, <1>4, QuietKeeps
  <2>2. Types' /\ Roles'
    BY <1>1, <1>2, <1>4, <2>1 DEF IInv, Types, Roles, InCall
  <2>3. Starts'
    BY <1>1, <1>4 DEF IInv, Starts, Running, Registered, Starting, Cleared
  <2>4. Stops'
    <3>1. (StopBegun' <=> StopBegun) /\ (Cleared' <=> Cleared)
      BY <1>4 DEF StopBegun, RunReturned, Cleared
    <3>2. \A v \in Workers : Clashed(v)' <=> Clashed(v)
      BY <1>1 DEF Clashed
    <3>3. \A t \in Threads : Lost(t)' => Lost(t) /\ call[t].ring \in Workers
      BY <1>4 DEF Lost, IInv, Types, Calls
    <3>4. QED
      BY <1>1, <1>2, <1>4, <2>1, <3>1, <3>2, <3>3, StopsKept, ThreadFacts DEF IInv
  <2>5. QED
    BY <2>1, <2>2, <2>3, <2>4 DEF IInv
<1>5. QED
  BY <1>3, <1>4 DEF Handles

\* The cancel request of stop() ends the loop (io_service.cpp:407-410).
LEMMA BreaksKeeps ==
    ASSUME IInv, NEW w \in Workers, Breaks(w)
    PROVE  IInv'
<1>1. /\ w \in Threads /\ w # Main /\ w \notin Users
      /\ cq' = [cq EXCEPT ![w] = Tail(cq[w])] /\ cq[w] # <<>> /\ Head(cq[w]) = Cancel
      /\ UNCHANGED <<io_array, running_io, call, visited, sq, kernel, history>>
  BY ThreadFacts DEF Breaks
<1>2. Walks(w, "wait", "exit")
  BY <1>1, GotoWalks DEF IInv, Breaks
<1>3. pc[w] = "wait" /\ pc'[w] = "exit" /\ pc'[Main] = pc[Main]
      /\ \A s \in Threads \ {w} : pc'[s] = pc[s]
  BY <1>1, <1>2, ThreadFacts DEF Walks
<1>4. /\ cq' \in [Workers -> Seq(Values)] /\ \A v \in Workers : HasCancel(v)' => HasCancel(v)
      /\ HasCancel(w)
  BY <1>1, TailCancels DEF IInv
<1>5. /\ \A r \in Workers : Queue(r)'
      /\ Delivers' /\ WorkersApart' /\ \A t \in Threads : InCall(t)' <=> InCall(t)
  <2>1. \A t \in Threads : pc'[t] # pc[t] =>
            {pc[t], pc'[t]} \cap CallLabels = {} /\ pc[t] # "astray"
    BY <1>3 DEF CallLabels
  <2>2. QED
    BY <1>1, <2>1, QuietKeeps DEF history
<1>6. Types'
  <2>1. pc' \in [Threads -> Labels]
    BY DEF IInv, Types, Breaks, Goto, Labels, WorkerLabels
  <2>2. QED
    BY <1>1, <1>4, <2>1 DEF IInv, Types, history
<1>7. Roles'
  BY <1>1, <1>3, <1>5, ThreadFacts DEF IInv, Roles, WorkerLabels
<1>8. Starts'
  BY <1>1, <1>2, StartsKept DEF IInv
<1>9. Stops'
  <2>1. (StopBegun' <=> StopBegun) /\ (Cleared' <=> Cleared)
    BY <1>3 DEF StopBegun, RunReturned, Cleared
  <2>2. \A v \in Workers : /\ Clashed(v)' <=> Clashed(v)
                           /\ pc'[v] \in {"exit", "gone"} =>
                                  pc[v] \in {"exit", "gone"} \/ HasCancel(v)
    BY <1>1, <1>3, <1>4, ThreadFacts DEF Clashed, history
  <2>3. \A t \in Threads : Lost(t)' => Lost(t) /\ call[t].ring \in Workers
    BY <1>3 DEF Lost, IInv, Types, Calls
  <2>4. QED
    BY <1>1, <1>4, <1>5, <2>1, <2>2, <2>3, StopsKept, ThreadFacts DEF IInv
<1>10. QED
  BY <1>5, <1>6, <1>7, <1>8, <1>9 DEF IInv

\* The worker takes its ring down and counts itself out (io_service.cpp:391-393).
LEMMA ExitsKeeps ==
    ASSUME IInv, NEW w \in Workers, Exits(w)
    PROVE  IInv'
<1>1. /\ w \in Threads /\ w # Main /\ w \notin Users
      /\ sq' = [sq EXCEPT ![w].alive = FALSE] /\ running_io' = running_io - 1
      /\ UNCHANGED <<io_array, call, visited, kernel, cq, history>>
  BY ThreadFacts DEF Exits
<1>2. Walks(w, "exit", "gone")
  BY <1>1, GotoWalks DEF IInv, Exits
<1>3. pc[w] = "exit" /\ pc'[w] = "gone" /\ pc'[Main] = pc[Main]
      /\ \A s \in Threads \ {w} : pc'[s] = pc[s]
  BY <1>1, <1>2, ThreadFacts DEF Walks
<1>4. /\ sq' \in [Workers -> Queues] /\ ~sq'[w].alive
      /\ \A v \in Workers : sq'[v].slots = sq[v].slots
      /\ \A v \in Workers \ {w} : sq'[v] = sq[v]
  BY <1>1 DEF IInv, Types, Queues
<1>5. w \in Running /\ Running' = Running \ {w}
  BY <1>1, <1>3, ThreadFacts DEF Running, CallLabels
<1>6. Cardinality(Running') = Cardinality(Running) - 1 /\ IsFiniteSet(Running')
  BY <1>5, RunningFinite, FS_RemoveElement
<1>7. running_io' = Cardinality(Running') /\ running_io' \in Nat
  BY <1>1, <1>6, FS_CardinalityType DEF IInv, Starts
<1>8. Types'
  <2>1. pc' \in [Threads -> Labels]
    BY DEF IInv, Types, Exits, Goto, Labels, WorkerLabels
  <2>2. QED
    BY <1>1, <1>4, <1>7, <2>1 DEF IInv, Types, history
<1>9. /\ \A t \in Threads : InCall(t)' <=> InCall(t)
      /\ \A v \in Workers : Clashed(v)' <=> Clashed(v)
      /\ (StopBegun' <=> StopBegun) /\ (Cleared' <=> Cleared)
  BY <1>1, <1>3 DEF InCall, Clashed, history, StopBegun, RunReturned, Cleared
<1>10. Roles'
  BY <1>1, <1>3, <1>9, ThreadFacts DEF IInv, Roles, WorkerLabels
<1>11. Starts'
  <2>1. \A v \in Workers \ {w} : pc'[v] = pc[v]
    BY <1>3, ThreadFacts
  <2>2. Registered' = Registered /\ (Starting' <=> Starting)
    BY <1>1, <1>3 DEF Registered, Starting
  <2>3. pc'[Main] # "run"
    BY <1>3 DEF IInv, Starts
  <2>4. ~Starting' => \A v \in Workers : pc'[v] \notin {"new", "start", "count"}
    BY <1>3, <2>1, <2>2 DEF IInv, Starts
  <2>5. ~Cleared' => Registered' = {v \in Workers : pc'[v] \notin {"new", "start"}}
    BY <1>3, <1>9, <2>1, <2>2 DEF IInv, Starts
  <2>6. \A v \in Workers : ~sq'[v].alive => pc'[v] = "gone"
    BY <1>3, <1>4, <2>1 DEF IInv, Starts
  <2>7. \A i, j \in DOMAIN io_array' : io_array'[i] = io_array'[j] => i = j
    BY <1>1 DEF IInv, Starts
  <2>8. Cleared' => io_array' = <<>>
    BY <1>1, <1>9 DEF IInv, Starts
  <2>9. QED
    BY <1>7, <2>3, <2>4, <2>5, <2>6, <2>7, <2>8 DEF Starts
<1>12. ASSUME NEW x \in Workers PROVE Queue(x)'
  <2>1. CASE x = w
    BY <1>4, <2>1 DEF Queue
  <2>2. CASE x # w
    <3>1. \A t \in Threads : /\ pc[t] \in {"advance", "fill", "flush"} => pc'[t] = pc[t]
                             /\ pc'[t] \in {"advance", "fill", "flush"} => pc'[t] = pc[t]
      BY <1>3
    <3>2. Using(x)' = Using(x)
      BY <1>1, <3>1 DEF Using
    <3>3. \A t \in Using(x) : call'[t] = call[t] /\ pc'[t] = pc[t]
      BY <1>1, <3>1 DEF Using
    <3>4. QED
      BY <1>4, <1>9, <2>2, <3>2, <3>3, QueueKept DEF IInv
  <2>3. QED
    BY <2>1, <2>2
<1>13. Delivers'
  <2>1. \A t \in Threads : /\ InCall(t)' => InCall(t)
                           /\ InCall(t) \/ pc[t] = "astray" => InCall(t)' \/ pc'[t] = "astray"
    BY <1>3, <1>9
  <2>2. QED
    BY <1>1, <1>4, <1>9, <2>1, DeliversKept DEF IInv, Types, history
<1>14. WorkersApart'
  BY <1>1 DEF IInv, WorkersApart, history
<1>15. Stops'
  <2>1. \A v \in Workers : /\ HasCancel(v)' <=> HasCancel(v)
                           /\ pc'[v] \in {"exit", "gone"} => pc[v] \in {"exit", "gone"}
    BY <1>1, <1>3, ThreadFacts DEF HasCancel
  <2>2. \A t \in Threads : Lost(t)' => Lost(t) /\ call[t].ring \in Workers
    BY <1>3 DEF Lost, IInv, Types, Calls
  <2>3. QED
    BY <1>1, <1>9, <2>1, <2>2, StopsKept, ThreadFacts DEF IInv
<1>16. QED
  BY <1>8, <1>10, <1>11, <1>12, <1>13, <1>14, <1>15 DEF IInv

\* The kernel completes a request it works on, which is no cancel request.
LEMMA CompletesKeeps ==
    ASSUME IInv, NEW w \in Workers, Completes(w)
    PROVE  IInv'
<1>1. PICK k \in kernel[w] : /\ cq' = [cq EXCEPT ![w] = Append(cq[w], k[2])]
                             /\ kernel' = [kernel EXCEPT ![w] = kernel[w] \ {k}]
  BY DEF Completes
<1>2. UNCHANGED <<io_array, running_io, pc, call, visited, sq, history>>
  BY DEF Completes
<1>3. k[2] \in Requests /\ k[2] # Cancel /\ k[2] \in Values
  BY ThreadFacts DEF IInv, Types, Values
<1>4. /\ cq[w] \in Seq(Values) /\ Append(cq[w], k[2]) \in Seq(Values)
      /\ cq'[w] = Append(cq[w], k[2]) /\ \A v \in Workers \ {w} : cq'[v] = cq[v]
  BY <1>1, <1>3 DEF IInv, Types
<1>5. \A v \in Workers : HasCancel(v)' => HasCancel(v)
  <2>1. \A i \in 1..Len(Append(cq[w], k[2])) : Append(cq[w], k[2])[i] = Cancel =>
            i \in 1..Len(cq[w]) /\ cq[w][i] = Cancel
    BY <1>3, <1>4
  <2>2. QED
    BY <1>4, <2>1 DEF HasCancel
<1>6. /\ \A r \in Workers : Queue(r)'
      /\ Delivers' /\ WorkersApart' /\ \A t \in Threads : InCall(t)' <=> InCall(t)
  BY <1>2, QuietKeeps DEF history
<1>7. Types'
  <2>1. cq' \in [Workers -> Seq(Values)]
    BY <1>1, <1>4 DEF IInv, Types
  <2>2. kernel' \in [Workers -> SUBSET (Nat \X Requests)]
    BY <1>1 DEF IInv, Types
  <2>3. QED
    BY <1>2, <2>1, <2>2 DEF IInv, Types, history
<1>8. Roles' /\ Starts'
  BY <1>2, <1>6, ThreadFacts
     DEF IInv, Roles, Starts, Running, Registered, Starting, Cleared
<1>9. Stops'
  <2>1. (StopBegun' <=> StopBegun) /\ (Cleared' <=> Cleared)
    BY <1>2 DEF StopBegun, RunReturned, Cleared
  <2>2. \A v \in Workers : Clashed(v)' <=> Clashed(v)
    BY <1>2 DEF Clashed, history
  <2>3. \A t \in Threads : Lost(t)' => Lost(t) /\ call[t].ring \in Workers
    BY <1>2 DEF Lost, IInv, Types, Calls
  <2>4. QED
    BY <1>2, <1>5, <1>6, <2>1, <2>2, <2>3, StopsKept, ThreadFacts DEF IInv
<1>10. QED
  BY <1>6, <1>7, <1>8, <1>9 DEF IInv

\* stop() goes on to the next ring (io_service.cpp:277-283).
LEMMA StopVisitsKeeps ==
    ASSUME IInv, StopVisits
    PROVE  IInv'
<1>1. /\ pc[Main] = "stop" /\ Main \in Threads /\ ~InCall(Main) /\ visited < Len(io_array)
      /\ visited' = visited + 1 /\ visited \in Nat
      /\ UNCHANGED <<io_array, running_io, sq, kernel, cq, history>>
  BY ThreadFacts DEF StopVisits, InCall, IInv, Types
<1>2. PICK r \in Workers : r = io_array[visited'] /\ visited' \in DOMAIN io_array
  BY <1>1 DEF IInv, Types
<1>3. Begins(Main, r, Cancel) /\ Cancel \in Values
  BY <1>1, <1>2 DEF Values, StopVisits
<1>4. /\ call' \in [Threads -> Calls] /\ pc' \in [Threads -> Labels]
      /\ pc'[Main] = "get" /\ call'[Main].ring = r /\ call'[Main].req = Cancel
      /\ \A s \in Threads \ {Main} : pc'[s] = pc[s] /\ call'[s] = call[s]
      /\ InCall(Main)' /\ \A s \in Threads \ {Main} : InCall(s)' <=> InCall(s)
  BY <1>1, <1>3, BeginsFacts DEF IInv
<1>5. \A w \in Workers : pc'[w] = pc[w] /\ call'[w] = call[w] /\ (InCall(w)' <=> InCall(w))
  BY <1>4, ThreadFacts
<1>6. Types'
  BY <1>1, <1>4 DEF IInv, Types, history
<1>7. Roles'
  BY <1>4, <1>5, ThreadFacts DEF IInv, Roles, MainLabels, CallLabels
<1>8. /\ ~Starting /\ ~Cleared /\ ~Starting' /\ ~Cleared' /\ StopBegun /\ StopBegun'
  BY <1>1, <1>4 DEF Starting, Cleared, StopBegun, RunReturned
<1>9. Starts'
  <2>1. Running' = Running /\ Registered' = Registered
    BY <1>1, <1>5 DEF Running, Registered
  <2>2. QED
    BY <1>1, <1>4, <1>5, <1>8, <2>1 DEF IInv, Starts
<1>10. \A x \in Workers : Queue(x)'
  BY <1>1, <1>3, BeginsQueues DEF IInv, history
<1>11. call[Main].req = Cancel
  BY <1>1 DEF IInv, Delivers
<1>12. Delivers'
  <2>1. \A q \in Requests : Calling(q)' <=> Calling(q)
    BY <1>1, <1>4, <1>11, ThreadFacts DEF Calling
  <2>2. \A v, x : OnRing(v, x)' <=> OnRing(v, x)
    BY <1>1 DEF OnRing, history
  <2>3. \A s \in Threads : OnRing(call[s].req, call[s].ring)'
    <3>1. OnRing(call[Main].req, call[Main].ring)'
      BY <1>4 DEF OnRing
    <3>2. \A s \in Threads \ {Main} : OnRing(call[s].req, call[s].ring)'
      BY <1>1, <1>4 DEF IInv, Delivers, OnRing, history
    <3>3. QED
      BY <3>1, <3>2
  <2>4. \A x \in Workers : \A i \in 0 .. Entries - 1 : OnRing(sq[x].slots[i], x)'
    BY <1>1 DEF IInv, Delivers, OnRing, history
  <2>5. \A s \in Threads : IF call'[s].req = Cancel THEN InCall(s)' => s = Main
                           ELSE s # Main /\ (InCall(s)' \/ pc'[s] = "astray")
    BY <1>4 DEF IInv, Delivers
  <2>6. \A s, t \in Threads : call'[s].req = call'[t].req /\ call'[s].req # Cancel => s = t
    BY <1>4 DEF IInv, Delivers
  <2>7. \A q \in DOMAIN issued' : ~Clashed(issued[q])' =>
            delivered'[q] = IF Calling(q)' THEN 0 ELSE 1
    <3>1. \A q \in DOMAIN issued : q \in Requests
      BY IoServiceAssumption DEF IInv, Types, Requests
    <3>2. QED
      BY <1>1, <2>1, <3>1 DEF IInv, Delivers, Clashed, history
  <2>8. \A q \in Requests : q \notin DOMAIN issued' => delivered'[q] = 0
    BY <1>1 DEF IInv, Delivers, history
  <2>9. QED
    BY <2>3, <2>4, <2>5, <2>6, <2>7, <2>8 DEF Delivers
<1>13. WorkersApart'
  BY <1>1 DEF IInv, WorkersApart, history
<1>14. Stops'
  <2>1. \A i \in 1..visited : i \in DOMAIN io_array /\ i \in 1..visited' /\ i # visited'
    BY <1>1 DEF IInv, Types
  <2>2. \A w \in Workers : Visited(w) => Visited(w)'
    <3>1. SUFFICES ASSUME NEW w \in Workers, Visited(w) PROVE Visited(w)'
      OBVIOUS
    <3>2. PICK i \in 1..visited : io_array[i] = w
      BY <1>8, <3>1 DEF Visited
    <3>3. w # r
      BY <1>2, <2>1, <3>2 DEF IInv, Starts
    <3>4. i \in 1..visited' /\ io_array'[i] = w
      BY <1>1, <2>1, <3>2
    <3>5. QED
      BY <1>4, <1>8, <3>3, <3>4 DEF Visited
  <2>3. \A w \in Workers : pc'[w] \in {"exit", "gone"} \/ HasCancel(w)' =>
            Clashed(w)' \/ Visited(w)'
    BY <1>1, <1>5, <2>2 DEF IInv, Stops, HasCancel, Clashed, history
  <2>4. Len(io_array) = Cardinality(Workers) /\ Len(io_array) \in Nat
    BY <1>8, ArrayFull DEF IInv, Types
  <2>5. visited' <= Cardinality(Workers) /\ visited' <= Len(io_array') /\ visited' >= 1
    BY <1>1, <2>4
  <2>6. \A t \in Threads : Lost(t)' => Clashed(call[t].ring)' \/ (t \in Users /\ StopBegun')
    <3>1. SUFFICES ASSUME NEW t \in Threads, Lost(t)'
                   PROVE  Clashed(call[t].ring)' \/ (t \in Users /\ StopBegun')
      OBVIOUS
    <3>2. Lost(t) /\ call'[t] = call[t]
      BY <1>4, <3>1 DEF Lost
    <3>3. Clashed(call[t].ring) \/ (t \in Users /\ StopBegun)
      BY <3>2 DEF IInv, Stops
    <3>4. QED
      BY <1>1, <1>8, <3>2, <3>3 DEF Clashed, history
  <2>7. QED
    BY <1>1, <1>2, <1>4, <2>3, <2>5, <2>6 DEF Stops
<1>15. QED
  BY <1>6, <1>7, <1>9, <1>10, <1>12, <1>13, <1>14 DEF IInv

\* stop() empties io_array when it has been everywhere (io_service.cpp:284).
LEMMA StopClearsKeeps ==
    ASSUME IInv, StopClears
    PROVE  IInv'
<1>1. /\ pc[Main] = "stop" /\ Main \in Threads /\ visited = Len(io_array) /\ io_array' = <<>>
      /\ UNCHANGED <<running_io, call, visited, sq, kernel, cq, history>>
  BY ThreadFacts DEF StopClears
<1>2. Walks(Main, "stop", "join")
  BY <1>1, GotoWalks DEF IInv, StopClears
<1>3. /\ pc'[Main] = "join" /\ \A s \in Threads \ {Main} : pc'[s] = pc[s]
      /\ \A w \in Workers : pc'[w] = pc[w]
  BY <1>2, ThreadFacts DEF Walks
<1>4. /\ \A r \in Workers : Queue(r)'
      /\ Delivers' /\ WorkersApart' /\ \A t \in Threads : InCall(t)' <=> InCall(t)
  <2>1. \A t \in Threads : pc'[t] # pc[t] =>
            {pc[t], pc'[t]} \cap CallLabels = {} /\ pc[t] # "astray"
    BY <1>1, <1>3 DEF CallLabels
  <2>2. QED
    BY <1>1, <2>1, QuietKeeps DEF history
<1>5. Types'
  <2>1. pc' \in [Threads -> Labels]
    BY DEF IInv, Types, StopClears, Goto, Labels, MainLabels
  <2>2. QED
    BY <1>1, <2>1 DEF IInv, Types, history
<1>6. Roles'
  BY <1>1, <1>3, <1>4, ThreadFacts DEF IInv, Roles, MainLabels
<1>7. Cleared' /\ StopBegun' /\ StopBegun /\ ~Starting /\ ~Starting' /\ ~InCall(Main)'
  BY <1>1, <1>3, <1>4 DEF Cleared, StopBegun, RunReturned, Starting, InCall
<1>8. Starts'
  <2>1. Running' = Running
    BY <1>3 DEF Running
  <2>2. QED
    BY <1>1, <1>3, <1>7, <2>1 DEF IInv, Starts
<1>9. Stops'
  <2>1. \A w \in Workers : Visited(w)'
    BY <1>7 DEF Visited
  <2>2. \A t \in Threads : Lost(t)' => Clashed(call[t].ring)' \/ (t \in Users /\ StopBegun')
    <3>1. SUFFICES ASSUME NEW t \in Threads, Lost(t)'
                   PROVE  Clashed(call[t].ring)' \/ (t \in Users /\ StopBegun')
      OBVIOUS
    <3>2. Lost(t)
      BY <1>3, <3>1 DEF Lost
    <3>3. Clashed(call[t].ring) \/ (t \in Users /\ StopBegun)
      BY <3>2 DEF IInv, Stops
    <3>4. QED
      BY <1>1, <1>7, <3>3 DEF Clashed, history
  <2>3. QED
    BY <1>1, <1>7, <2>1, <2>2 DEF IInv, Stops
<1>10. QED
  BY <1>4, <1>5, <1>6, <1>8, <1>9 DEF IInv

-----------------------------------------------------------------------------
(* submit() goes on.                                                       *)

\* Where a step of a call can take its thread.
GoesTo(t, b) == \/ b \in CallLabels
                \/ t = Main /\ b \in {"stop", "crashed", "astray"}
                \/ t \in Workers /\ b = "wait"
                \/ t \in Users /\ b \in {"idle", "astray"}

\* What is the same for all the steps of a call: where it stands and what comes next.
LEMMA CallStep ==
    ASSUME IInv, NEW t \in Threads, InCall(t), NEW b, Goto(t, b), GoesTo(t, b),
           io_array' = io_array, running_io' = running_io,
           \A w \in Workers : sq'[w].alive = sq[w].alive,
           \A s \in Threads : InCall(s)' => call'[s].ring = call[s].ring
    PROVE  /\ pc' \in [Threads -> Labels] /\ Roles' /\ Starts'
           /\ pc'[t] = b /\ \A s \in Threads \ {t} : pc'[s] = pc[s]
           /\ \A s \in Threads : InCall(s)' => InCall(s)
           /\ (StopBegun' <=> StopBegun) /\ (Cleared' <=> Cleared)
<1>0. PICK a \in CallLabels : a = pc[t]
  BY DEF InCall, CallLabels
<1>1. Walks(t, a, b)
  BY <1>0, GotoWalks DEF IInv
<1>2. b \in Labels
  BY DEF GoesTo, CallLabels, Labels, MainLabels, WorkerLabels, UserLabels
<1>3. pc' \in [Threads -> Labels]
  BY <1>2 DEF IInv, Types, Goto
<1>4. pc'[t] = b /\ \A s \in Threads \ {t} : pc'[s] = pc[s]
  BY <1>1 DEF Walks
<1>5. \A s \in Threads : InCall(s)' => InCall(s)
  BY <1>4 DEF InCall
<1>6. Roles'
  <2>1. /\ t = Main => b \in MainLabels
        /\ t \in Workers => b \in WorkerLabels
        /\ t \in Users => b \in UserLabels
    BY ThreadFacts DEF GoesTo, MainLabels, WorkerLabels, UserLabels
  <2>2. \A w \in Workers : InCall(w)' => call'[w].ring = w
    BY <1>5, ThreadFacts DEF IInv, Roles
  <2>3. QED
    BY <1>4, <2>1, <2>2, ThreadFacts DEF IInv, Roles
<1>7. Starts'
  <2>1. t \in Workers => {a, b} \subseteq {"wait", "exit"} \cup CallLabels
    BY ThreadFacts DEF GoesTo
  <2>2. t = Main => {a, b} \subseteq {"stop", "crashed", "astray"} \cup CallLabels
    BY ThreadFacts DEF GoesTo
  <2>3. QED
    BY <1>1, <2>1, <2>2, StartsKept DEF IInv
<1>8. (StopBegun' <=> StopBegun) /\ (Cleared' <=> Cleared)
  <2>1. CASE t = Main
    BY <1>0, <1>4, <2>1, ThreadFacts
       DEF GoesTo, CallLabels, StopBegun, RunReturned, Cleared
  <2>2. CASE t # Main
    BY <1>4, <2>2, ThreadFacts DEF StopBegun, RunReturned, Cleared
  <2>3. QED
    BY <2>1, <2>2
<1>9. QED
  BY <1>3, <1>4, <1>5, <1>6, <1>7, <1>8

\* A step of a call that puts no cancel request into a queue of completions.
LEMMA CallStops ==
    ASSUME IInv, NEW t \in Threads, InCall(t), GoesTo(t, pc'[t]),
           \A s \in Threads \ {t} : pc'[s] = pc[s] /\ call'[s].ring = call[s].ring,
           InCall(t)' => call'[t].ring = call[t].ring,
           Lost(t)' => Clashed(call[t].ring)' \/ (t \in Users /\ StopBegun),
           StopBegun' <=> StopBegun, Cleared' <=> Cleared,
           \A w \in Workers : Clashed(w) => Clashed(w)',
           \A w \in Workers : HasCancel(w)' => HasCancel(w),
           io_array' = io_array, visited' = visited
    PROVE  Stops'
<1>1. InCall(Main)' => InCall(Main) /\ call'[Main].ring = call[Main].ring
  BY ThreadFacts DEF InCall
<1>2. \A w \in Workers : pc'[w] \in {"exit", "gone"} => pc[w] \in {"exit", "gone"}
  BY ThreadFacts DEF GoesTo, CallLabels
<1>3. \A s \in Threads : Lost(s)' =>
          \/ Lost(s) /\ call'[s].ring = call[s].ring /\ call[s].ring \in Workers
          \/ Clashed(call[s].ring)'
          \/ s \in Users /\ StopBegun'
  BY DEF Lost, IInv, Types, Calls
<1>4. QED
  BY <1>1, <1>2, <1>3, StopsKept DEF IInv

\* The call of a thread, and the queue it is about.
LEMMA CallFields ==
    ASSUME Types, NEW t \in Threads
    PROVE  /\ call[t] \in Calls /\ call[t].ring \in Workers /\ call[t].req \in Values
           /\ call[t].tail \in Nat
           /\ \A r \in Workers : /\ sq[r] \in Queues /\ sq[r].tail \in Nat
                                 /\ sq[r].head \in Nat
                                 /\ sq[r].slots \in [0 .. Entries - 1 -> Values]
BY DEF Types, Calls, Queues

\* The end of a call: its thread has none any more.
LEMMA EndsFacts ==
    ASSUME IInv, NEW t \in Threads, EndsCall(t)
    PROVE  /\ \E b \in {"idle", "wait", "stop"} : Goto(t, b) /\ GoesTo(t, b)
           /\ call' \in [Threads -> Calls] /\ call'[t].req = Cancel
           /\ \A s \in Threads \ {t} : call'[s] = call[s]
<1>1. NoCall \in Calls /\ NoCall.req = Cancel
  <2>1. (CHOOSE w \in Workers : TRUE) \in Workers
    BY IoServiceAssumption
  <2>2. QED
    BY <2>1 DEF NoCall, Calls, Values
<1>2. /\ call' \in [Threads -> Calls] /\ call'[t].req = Cancel
      /\ \A s \in Threads \ {t} : call'[s] = call[s]
  BY <1>1 DEF EndsCall, IInv, Types
<1>3. CASE t \in Users
  BY <1>2, <1>3 DEF EndsCall, GoesTo
<1>4. CASE t \in Workers
  BY <1>2, <1>4, ThreadFacts DEF EndsCall, GoesTo
<1>5. CASE t = Main
  BY <1>2, <1>5, ThreadFacts DEF EndsCall, GoesTo
<1>6. QED
  BY <1>3, <1>4, <1>5, ThreadFacts

\* A call ends that has changed nothing about the requests of other rings, and on its own,
\* if no calls have met there, has delivered its request.
LEMMA EndsDelivers ==
    ASSUME IInv, NEW t \in Threads, InCall(t), EndsCall(t),
           issued' = issued,
           \A x \in Workers : sq'[x].slots = sq[x].slots,
           \A x \in Workers : Clashed(x) => Clashed(x)',
           \A s \in Threads \ {t} : pc'[s] = pc[s],
           pc'[t] \in {"idle", "wait", "stop"},
           NEW r \in Workers, r = call[t].ring,
           \A p \in Requests : ~OnRing(p, r) => delivered'[p] = delivered[p],
           ~Clashed(r)' => \A p \in Requests :
               delivered'[p] = IF p = call[t].req THEN delivered[p] + 1 ELSE delivered[p]
    PROVE  Delivers'
<1>1. /\ call'[t].req = Cancel /\ \A s \in Threads \ {t} : call'[s] = call[s]
  BY EndsFacts
<1>2. Delivers /\ \A q \in DOMAIN issued : q \in Requests /\ issued[q] \in Workers
  BY IoServiceAssumption DEF IInv, Types, Requests
<1>3. \A v, x : OnRing(v, x)' <=> OnRing(v, x)
  BY DEF OnRing
<1>4. \A s \in Threads : OnRing(call[s].req, call[s].ring)'
  BY <1>1, <1>2 DEF Delivers, OnRing
<1>5. \A s \in Threads : IF call'[s].req = Cancel THEN InCall(s)' => s = Main
                         ELSE s # Main /\ (InCall(s)' \/ pc'[s] = "astray")
  BY <1>1, <1>2 DEF Delivers, InCall
<1>6. \A s, u \in Threads : call'[s].req = call'[u].req /\ call'[s].req # Cancel => s = u
  BY <1>1, <1>2 DEF Delivers
<1>7. \A x \in Workers : \A i \in 0 .. Entries - 1 : OnRing(sq[x].slots[i], x)'
  BY <1>2 DEF Delivers, OnRing
<1>8. \A q \in Requests : q \notin DOMAIN issued' => delivered'[q] = 0
  BY <1>2, ThreadFacts DEF Delivers, OnRing
<1>9. ASSUME NEW q \in DOMAIN issued, ~Clashed(issued[q])'
      PROVE  delivered'[q] = IF Calling(q)' THEN 0 ELSE 1
  <2>1. q \in Requests /\ q # Cancel /\ ~Clashed(issued[q])
    BY <1>2, <1>9, ThreadFacts
  <2>2. delivered[q] = IF Calling(q) THEN 0 ELSE 1
    BY <1>2, <2>1 DEF Delivers
  <2>3. CASE q = call[t].req
    <3>1. issued[q] = r /\ Calling(q)
      BY <1>2, <2>1, <2>3 DEF Delivers, OnRing, Calling
    <3>2. ~Calling(q)'
      BY <1>1, <1>2, <2>1, <2>3 DEF Calling, Delivers
    <3>3. QED
      BY <1>9, <2>1, <2>2, <2>3, <3>1, <3>2
  <2>4. CASE q # call[t].req
    <3>1. Calling(q)' <=> Calling(q)
      BY <1>1, <2>1, <2>4 DEF Calling
    <3>2. delivered'[q] = delivered[q]
      BY <1>9, <2>1, <2>4 DEF OnRing
    <3>3. QED
      BY <2>2, <3>1, <3>2
  <2>5. QED
    BY <2>3, <2>4
<1>10. QED
  BY <1>4, <1>5, <1>6, <1>7, <1>8, <1>9 DEF Delivers

\* io_uring_get_sqe reads the tail; or it finds the queue full, which it is only where
\* calls have met (io_service.cpp:278, 319-324).
LEMMA GetsSqeKeeps ==
    ASSUME IInv, NEW t \in Threads, GetsSqe(t)
    PROVE  IInv'
<1>1. PICK r \in Workers : r = call[t].ring
  BY CallFields DEF IInv
<1>2. /\ pc[t] = "get" /\ InCall(t) /\ sq[r].alive /\ t \notin Using(r)
      /\ clashes' = clashes \cup {[ring |-> r, workers |-> {s, t} \cap Workers] : s \in Using(r)}
      /\ UNCHANGED <<io_array, running_io, visited, sq, kernel, cq, issued, delivered>>
  BY <1>1 DEF GetsSqe, InCall, Using
<1>3. call[t] \in Calls /\ call[t].ring = r /\ sq[r].tail \in Nat /\ sq[r].head \in Nat
  BY <1>1, CallFields DEF IInv
<1>4. /\ \A x \in Workers : Clashed(x) => Clashed(x)'
      /\ \A x \in Workers : x # r => (Clashed(x)' <=> Clashed(x))
      /\ ~Clashed(r)' => Using(r) = {} /\ ~Clashed(r)
      /\ clashes' \subseteq [ring : Workers, workers : SUBSET Workers]
  <2>1. \A s \in Using(r) : [ring |-> r, workers |-> {s, t} \cap Workers]
                                \in [ring : Workers, workers : SUBSET Workers]
    OBVIOUS
  <2>2. clashes' \subseteq [ring : Workers, workers : SUBSET Workers]
    BY <1>2, <2>1 DEF IInv, Types
  <2>3. \A x \in Workers : x # r => (Clashed(x)' <=> Clashed(x))
    BY <1>2 DEF Clashed
  <2>4. \A x \in Workers : Clashed(x) => Clashed(x)'
    BY <1>2 DEF Clashed
  <2>5. ASSUME NEW s \in Using(r) PROVE Clashed(r)'
    <3>1. [ring |-> r, workers |-> {s, t} \cap Workers] \in clashes'
      BY <1>2
    <3>2. [ring |-> r, workers |-> {s, t} \cap Workers].ring = r
      OBVIOUS
    <3>3. QED
      BY <3>1, <3>2 DEF Clashed
  <2>6. QED
    BY <2>2, <2>3, <2>4, <2>5
<1>5. WorkersApart'
  <2>1. ASSUME NEW s \in Using(r) PROVE {s, t} \cap Workers \subseteq {r}
    <3>1. InCall(s) /\ call[s].ring = r
      BY DEF Using, InCall
    <3>2. QED
      BY <1>2, <1>3, <3>1 DEF IInv, Roles
  <2>2. \A c \in clashes' : \/ c \in clashes
                            \/ \E s \in Using(r) : c = [ring |-> r, workers |-> {s, t} \cap Workers]
    BY <1>2
  <2>3. QED
    BY <2>1, <2>2 DEF IInv, WorkersApart
<1>6. ~Clashed(r)' => sq[r].tail = sq[r].head
  BY <1>2, <1>4 DEF IInv, Queue
<1>7. \A w \in Workers : /\ HasCancel(w)' <=> HasCancel(w)
                         /\ sq'[w].alive = sq[w].alive
  BY <1>2 DEF HasCancel
<1>8. CASE call' = [call EXCEPT ![t].tail = sq[r].tail] /\ Goto(t, "advance")
  <2>1. /\ call' \in [Threads -> Calls] /\ call'[t].tail = sq[r].tail
        /\ call'[t].ring = r /\ call'[t].req = call[t].req
        /\ \A s \in Threads \ {t} : call'[s] = call[s]
    <3>1. [call[t] EXCEPT !.tail = sq[r].tail] \in Calls
      BY <1>3 DEF Calls
    <3>2. call \in [Threads -> Calls]
      BY DEF IInv, Types
    <3>3. QED
      BY <1>3, <1>8, <3>1, <3>2 DEF Calls
  <2>2. GoesTo(t, "advance") /\ \A s \in Threads : call'[s].ring = call[s].ring
    BY <1>3, <2>1 DEF GoesTo, CallLabels
  <2>3. /\ pc' \in [Threads -> Labels] /\ Roles' /\ Starts'
        /\ pc'[t] = "advance" /\ \A s \in Threads \ {t} : pc'[s] = pc[s]
        /\ (StopBegun' <=> StopBegun) /\ (Cleared' <=> Cleared)
    BY <1>2, <1>7, <1>8, <2>2, CallStep
  <2>4. Types'
    BY <1>2, <1>4, <2>1, <2>3 DEF IInv, Types
  <2>5. \A s \in Threads : InCall(s)' <=> InCall(s)
    BY <1>2, <2>3 DEF InCall
  <2>6. Delivers'
    <3>1. \A s \in Threads : /\ InCall(s)' => InCall(s)
                             /\ InCall(s) \/ pc[s] = "astray" => InCall(s)' \/ pc'[s] = "astray"
      BY <1>2, <2>3, <2>5
    <3>2. \A s \in Threads : call'[s].ring = call[s].ring /\ call'[s].req = call[s].req
      BY <1>3, <2>1
    <3>3. QED
      BY <1>2, <1>4, <3>1, <3>2, DeliversKept DEF IInv, Types
  <2>7. ASSUME NEW x \in Workers PROVE Queue(x)'
    <3>1. CASE x # r
      <4>1. Using(x)' = Using(x)
        BY <1>2, <1>3, <2>1, <2>3, <3>1 DEF Using
      <4>2. \A s \in Using(x) : call'[s] = call[s] /\ pc'[s] = pc[s]
        BY <1>3, <2>1, <2>3, <3>1 DEF Using
      <4>3. QED
        BY <1>2, <1>4, <4>1, <4>2, QueueKept DEF IInv
    <3>2. CASE x = r
      <4>1. ~Clashed(r)' => Using(r)' = {t}
        BY <1>2, <1>4, <2>1, <2>3 DEF Using
      <4>2. QED
        BY <1>2, <1>6, <2>1, <2>3, <3>2, <4>1 DEF Queue
    <3>3. QED
      BY <3>1, <3>2
  <2>8. Stops'
    <3>1. \A s \in Threads \ {t} : pc'[s] = pc[s] /\ call'[s].ring = call[s].ring
      BY <2>1, <2>3
    <3>2. ~Lost(t)'
      BY <2>3 DEF Lost
    <3>3. QED
      BY <1>2, <1>3, <1>4, <1>7, <2>1, <2>2, <2>3, <3>1, <3>2, CallStops
  <2>9. QED
    BY <1>5, <2>3, <2>4, <2>6, <2>7, <2>8 DEF IInv
<1>9. CASE sq[r].tail - sq[r].head >= Entries /\ FindsFull(t)
  <2>1. Clashed(r)'
    BY <1>3, <1>6, <1>9, ThreadFacts
  <2>2. PICK b : /\ Goto(t, b) /\ GoesTo(t, b) /\ b \notin CallLabels
                 /\ \/ b \in {"idle", "wait", "stop"} /\ EndsCall(t)
                    \/ b = "crashed" /\ t = Main /\ call' = call
    <3>1. CASE t = Main
      BY <1>9, <3>1 DEF FindsFull, GoesTo, CallLabels
    <3>2. CASE t # Main
      <4>1. EndsCall(t)
        BY <1>9, <3>2 DEF FindsFull
      <4>2. PICK b \in {"idle", "wait", "stop"} : Goto(t, b) /\ GoesTo(t, b)
        BY <4>1, EndsFacts
      <4>3. b \notin CallLabels
        BY DEF CallLabels
      <4>4. QED
        BY <4>1, <4>2, <4>3
    <3>3. QED
      BY <3>1, <3>2
  <2>3. call' \in [Threads -> Calls] /\ \A s \in Threads \ {t} : call'[s] = call[s]
    BY <2>2, EndsFacts DEF IInv, Types
  <2>4. ~InCall(t)' /\ \A s \in Threads \ {t} : pc'[s] = pc[s]
    <3>1. pc'[t] = b /\ \A s \in Threads \ {t} : pc'[s] = pc[s]
      BY <2>2 DEF Goto, IInv, Types
    <3>2. QED
      BY <2>2, <3>1 DEF InCall, CallLabels
  <2>5. /\ pc' \in [Threads -> Labels] /\ Roles' /\ Starts' /\ pc'[t] = b
        /\ (StopBegun' <=> StopBegun) /\ (Cleared' <=> Cleared)
    <3>1. \A s \in Threads : InCall(s)' => call'[s].ring = call[s].ring
      BY <2>3, <2>4
    <3>2. QED
      BY <1>2, <1>7, <2>2, <3>1, CallStep
  <2>6. Types'
    BY <1>2, <1>4, <2>3, <2>5 DEF IInv, Types
  <2>7. Delivers'
    <3>1. CASE EndsCall(t) /\ b \in {"idle", "wait", "stop"}
      <4>1. \A p \in Requests : delivered'[p] = delivered[p]
        BY <1>2
      <4>2. QED
        BY <1>2, <1>3, <1>4, <2>1, <2>4, <2>5, <3>1, <4>1, EndsDelivers
    <3>2. CASE t = Main /\ call' = call
      <4>1. call[t].req = Cancel
        BY <3>2 DEF IInv, Delivers
      <4>2. \A v, x : OnRing(v, x)' <=> OnRing(v, x)
        BY <1>2 DEF OnRing
      <4>3. \A q : Calling(q)' <=> Calling(q)
        BY <3>2 DEF Calling
      <4>4. \A s \in Threads : IF call'[s].req = Cancel THEN InCall(s)' => s = Main
                               ELSE s # Main /\ (InCall(s)' \/ pc'[s] = "astray")
        BY <2>4, <3>2, <4>1 DEF IInv, Delivers, InCall
      <4>5. \A q \in DOMAIN issued : issued[q] \in Workers
        BY DEF IInv, Types
      <4>6. \A q \in DOMAIN issued' : ~Clashed(issued[q])' =>
                delivered'[q] = IF Calling(q)' THEN 0 ELSE 1
        BY <1>2, <1>4, <4>3, <4>5 DEF IInv, Delivers
      <4>7. \A s \in Threads : OnRing(call[s].req, call[s].ring)'
        BY <1>2, <3>2 DEF IInv, Delivers, OnRing
      <4>8. \A x \in Workers : \A i \in 0 .. Entries - 1 : OnRing(sq[x].slots[i], x)'
        BY <1>2 DEF IInv, Delivers, OnRing
      <4>9. /\ \A q \in Requests : q \notin DOMAIN issued' => delivered'[q] = 0
            /\ \A s, u \in Threads : call'[s].req = call'[u].req /\ call'[s].req # Cancel => s = u
        BY <1>2, <3>2 DEF IInv, Delivers
      <4>10. QED
        BY <4>4, <4>6, <4>7, <4>8, <4>9 DEF Delivers
    <3>3. QED
      BY <2>2, <3>1, <3>2
  <2>8. ASSUME NEW x \in Workers PROVE Queue(x)'
    <3>1. CASE x # r
      <4>1. Using(x)' = Using(x)
        BY <1>2, <1>3, <2>3, <2>4, <3>1 DEF Using, InCall
      <4>2. \A s \in Using(x) : call'[s] = call[s] /\ pc'[s] = pc[s]
        BY <1>3, <2>3, <2>4, <3>1 DEF Using
      <4>3. QED
        BY <1>2, <1>4, <4>1, <4>2, QueueKept DEF IInv
    <3>2. CASE x = r
      BY <2>1, <3>2 DEF Queue
    <3>3. QED
      BY <3>1, <3>2
  <2>9. Stops'
    <3>1. \A s \in Threads \ {t} : pc'[s] = pc[s] /\ call'[s].ring = call[s].ring
      BY <2>3, <2>4
    <3>2. Lost(t)' => Clashed(call[t].ring)'
      <4>1. SUFFICES ASSUME Lost(t)' PROVE Clashed(call[t].ring)'
        OBVIOUS
      <4>2. call' = call
        BY <2>2, <2>5, <4>1 DEF Lost
      <4>3. QED
        BY <1>3, <2>1, <4>2 DEF Clashed
    <3>3. QED
      BY <1>2, <1>4, <1>7, <2>2, <2>4, <2>5, <3>1, <3>2, CallStops
  <2>10. QED
    BY <1>5, <2>5, <2>6, <2>7, <2>8, <2>9 DEF IInv
<1>10. CASE sq[r].tail - sq[r].head < Entries
  BY <1>1, <1>8, <1>10 DEF GetsSqe
<1>11. CASE ~(sq[r].tail - sq[r].head < Entries)
  <2>1. sq[r].tail - sq[r].head >= Entries
    BY <1>3, <1>11, ThreadFacts
  <2>2. QED
    BY <1>1, <1>9, <1>11, <2>1 DEF GetsSqe
<1>12. QED
  BY <1>10, <1>11

\* A step inside a call that has its entry on ring r, on this ring alone.
LEMMA CallGoesOn ==
    ASSUME IInv, NEW t \in Threads, NEW r \in Workers, r = call[t].ring,
           pc[t] \in {"advance", "fill"}, NEW b \in {"fill", "flush"}, Goto(t, b),
           UNCHANGED <<io_array, running_io, call, visited, kernel, cq, history>>,
           sq' \in [Workers -> Queues],
           \A x \in Workers : sq'[x].alive = sq[x].alive,
           \A x \in Workers \ {r} : sq'[x] = sq[x],
           \A i \in 0 .. Entries - 1 : OnRing(sq'[r].slots[i], r),
           sq[r].alive /\ ~Clashed(r) /\ Queue(r) =>
               /\ sq'[r].tail = sq'[r].head + 1 /\ sq'[r].head = sq[r].head
               /\ b = "flush" => sq'[r].slots[call[t].tail % Entries] = call[t].req
    PROVE  IInv'
<1>1. InCall(t) /\ GoesTo(t, b) /\ t \in Using(r)
  BY DEF InCall, GoesTo, CallLabels, Using
<1>2. /\ pc' \in [Threads -> Labels] /\ Roles' /\ Starts'
      /\ pc'[t] = b /\ \A s \in Threads \ {t} : pc'[s] = pc[s]
      /\ \A s \in Threads : InCall(s)' => InCall(s)
      /\ (StopBegun' <=> StopBegun) /\ (Cleared' <=> Cleared)
  BY <1>1, CallStep
<1>3. /\ \A x \in Workers : Clashed(x)' <=> Clashed(x)
      /\ \A x \in Workers : HasCancel(x)' <=> HasCancel(x)
  BY DEF Clashed, HasCancel, history
<1>4. Types'
  BY <1>2 DEF IInv, Types, history
<1>5. \A s \in Threads : InCall(s)' <=> InCall(s)
  BY <1>1, <1>2 DEF InCall
<1>6. \A x \in Workers : Using(x)' = Using(x)
  BY <1>2 DEF Using
<1>7. ASSUME NEW x \in Workers PROVE Queue(x)'
  <2>1. CASE x # r
    <3>1. \A s \in Using(x) : call'[s] = call[s] /\ pc'[s] = pc[s]
      BY <1>2, <2>1 DEF Using
    <3>2. QED
      BY <1>3, <1>6, <2>1, <3>1, QueueKept DEF IInv
  <2>2. CASE x = r
    <3>1. SUFFICES ASSUME sq[r].alive, ~Clashed(r) PROVE Queue(r)'
      BY <1>3, <2>2 DEF Queue
    <3>2. Queue(r) /\ Using(r)' = {t}
      BY <1>1, <1>6, <3>1 DEF IInv, Queue
    <3>3. call'[t].tail = sq'[r].head
      BY <1>1, <3>1, <3>2 DEF Queue
    <3>4. QED
      BY <1>2, <3>1, <3>2, <3>3 DEF Queue
  <2>3. QED
    BY <2>1, <2>2
<1>8. Delivers'
  <2>1. \A v, x : OnRing(v, x)' <=> OnRing(v, x)
    BY DEF OnRing, history
  <2>2. \A q : Calling(q)' <=> Calling(q)
    BY DEF Calling
  <2>3. \A x \in Workers : \A i \in 0 .. Entries - 1 : OnRing(sq[x].slots[i], x)'
    <3>1. \A i \in 0 .. Entries - 1 : OnRing(sq[r].slots[i], r)'
      BY DEF OnRing, history
    <3>2. \A x \in Workers \ {r} : \A i \in 0 .. Entries - 1 : OnRing(sq[x].slots[i], x)'
      BY DEF IInv, Delivers, OnRing, history
    <3>3. QED
      BY <3>1, <3>2
  <2>4. \A s \in Threads : IF call'[s].req = Cancel THEN InCall(s)' => s = Main
                           ELSE s # Main /\ (InCall(s)' \/ pc'[s] = "astray")
    BY <1>1, <1>2, <1>5 DEF IInv, Delivers
  <2>5. \A s \in Threads : OnRing(call[s].req, call[s].ring)'
    BY DEF IInv, Delivers, OnRing, history
  <2>6. /\ \A q \in Requests : q \notin DOMAIN issued' => delivered'[q] = 0
        /\ \A s, u \in Threads : call'[s].req = call'[u].req /\ call'[s].req # Cancel => s = u
    BY DEF IInv, Delivers, history
  <2>7. \A q \in DOMAIN issued : issued[q] \in Workers
    BY DEF IInv, Types
  <2>8. \A q \in DOMAIN issued' : ~Clashed(issued[q])' =>
            delivered'[q] = IF Calling(q)' THEN 0 ELSE 1
    BY <1>3, <2>2, <2>7 DEF IInv, Delivers, history
  <2>9. QED
    BY <2>3, <2>4, <2>5, <2>6, <2>8 DEF Delivers
<1>9. WorkersApart'
  BY DEF IInv, WorkersApart, history
<1>10. Stops'
  <2>1. ~Lost(t)'
    BY <1>2 DEF Lost
  <2>2. QED
    BY <1>1, <1>2, <1>3, <2>1, CallStops
<1>11. QED
  BY <1>2, <1>4, <1>7, <1>8, <1>9, <1>10 DEF IInv

\* io_uring_get_sqe moves the tail.
LEMMA AdvancesKeeps ==
    ASSUME IInv, NEW t \in Threads, Advances(t)
    PROVE  IInv'
<1>1. /\ pc[t] = "advance" /\ Goto(t, "fill")
      /\ UNCHANGED <<io_array, running_io, call, visited, kernel, cq, history>>
  BY DEF Advances
<1>2. PICK r \in Workers : r = call[t].ring
  BY CallFields DEF IInv
<1>3. call[t].tail \in Nat /\ sq[r] \in Queues /\ sq[r].head \in Nat
  BY CallFields DEF IInv
<1>4. /\ sq' \in [Workers -> Queues] /\ sq'[r].tail = call[t].tail + 1
      /\ sq'[r].head = sq[r].head /\ sq'[r].slots = sq[r].slots
      /\ \A x \in Workers : sq'[x].alive = sq[x].alive
      /\ \A x \in Workers \ {r} : sq'[x] = sq[x]
  <2>1. sq' = [sq EXCEPT ![r].tail = call[t].tail + 1]
    BY <1>2 DEF Advances
  <2>2. [sq[r] EXCEPT !.tail = call[t].tail + 1] \in Queues
    BY <1>3 DEF Queues
  <2>3. sq \in [Workers -> Queues]
    BY DEF IInv, Types
  <2>4. QED
    BY <1>3, <2>1, <2>2, <2>3 DEF Queues
<1>5. \A i \in 0 .. Entries - 1 : OnRing(sq'[r].slots[i], r)
  BY <1>4 DEF IInv, Delivers
<1>6. sq[r].alive /\ ~Clashed(r) /\ Queue(r) =>
          sq'[r].tail = sq'[r].head + 1 /\ sq'[r].head = sq[r].head
  BY <1>1, <1>2, <1>4 DEF Queue, Using
<1>7. QED
  BY <1>1, <1>2, <1>4, <1>5, <1>6, CallGoesOn

\* The request is written into the entry (io_service.cpp:326-367).
LEMMA FillsKeeps ==
    ASSUME IInv, NEW t \in Threads, Fills(t)
    PROVE  IInv'
<1>1. /\ pc[t] = "fill" /\ Goto(t, "flush")
      /\ UNCHANGED <<io_array, running_io, call, visited, kernel, cq, history>>
  BY DEF Fills
<1>2. PICK r \in Workers : r = call[t].ring
  BY CallFields DEF IInv
<1>3. PICK i \in 0 .. Entries - 1 : i = call[t].tail % Entries
  BY CallFields, ThreadFacts DEF IInv
<1>4. /\ sq' \in [Workers -> Queues] /\ sq'[r].tail = sq[r].tail
      /\ sq'[r].head = sq[r].head /\ sq'[r].slots = [sq[r].slots EXCEPT ![i] = call[t].req]
      /\ \A x \in Workers : sq'[x].alive = sq[x].alive
      /\ \A x \in Workers \ {r} : sq'[x] = sq[x]
  <2>1. sq' = [sq EXCEPT ![r].slots[i] = call[t].req]
    BY <1>2, <1>3 DEF Fills
  <2>2. call[t].req \in Values /\ sq[r] \in Queues /\ sq \in [Workers -> Queues]
    BY CallFields DEF IInv, Types
  <2>3. [sq[r].slots EXCEPT ![i] = call[t].req] \in [0 .. Entries - 1 -> Values]
    BY <2>2 DEF Queues
  <2>4. [sq[r] EXCEPT !.slots = [sq[r].slots EXCEPT ![i] = call[t].req]] \in Queues
    BY <2>2, <2>3 DEF Queues
  <2>5. sq'[r] = [sq[r] EXCEPT !.slots = [sq[r].slots EXCEPT ![i] = call[t].req]]
    BY <2>1, <2>2
  <2>6. QED
    BY <2>1, <2>2, <2>4, <2>5 DEF Queues
<1>5. sq[r].slots \in [0 .. Entries - 1 -> Values] /\ OnRing(call[t].req, r)
  BY <1>2, CallFields DEF IInv, Delivers
<1>6. \A j \in 0 .. Entries - 1 : OnRing(sq'[r].slots[j], r)
  <2>1. \A j \in 0 .. Entries - 1 : OnRing(sq[r].slots[j], r)
    BY DEF IInv, Delivers
  <2>2. \A j \in 0 .. Entries - 1 : sq'[r].slots[j] = IF j = i THEN call[t].req ELSE sq[r].slots[j]
    BY <1>4, <1>5
  <2>3. QED
    BY <1>5, <2>1, <2>2
<1>7. sq'[r].slots[call[t].tail % Entries] = call[t].req
  BY <1>3, <1>4, <1>5
<1>8. sq[r].alive /\ ~Clashed(r) /\ Queue(r) =>
          sq'[r].tail = sq'[r].head + 1 /\ sq'[r].head = sq[r].head
  BY <1>1, <1>2, <1>4 DEF Queue, Using
<1>9. QED
  BY <1>1, <1>2, <1>4, <1>6, <1>7, <1>8, CallGoesOn

\* What the kernel takes from a queue is a sequence of what the slots hold.
LEMMA TakenFacts ==
    ASSUME NEW q \in Queues
    PROVE  /\ Taken(q) \in Seq(Values) /\ Len(Taken(q)) \in Nat
           /\ DOMAIN Taken(q) = 1..Len(Taken(q))
           /\ \A i \in DOMAIN Taken(q) : /\ Taken(q)[i] \in Values
                                         /\ \E j \in 0 .. Entries - 1 : Taken(q)[i] = q.slots[j]
           /\ \A v : LET S == {i \in DOMAIN Taken(q) : Taken(q)[i] = v}
                     IN  IsFiniteSet(S) /\ Cardinality(S) \in Nat
<1> DEFINE n == IF q.tail >= q.head THEN q.tail - q.head ELSE Entries
           m == IF n < Entries THEN n ELSE Entries
<1>1. q.tail \in Nat /\ q.head \in Nat /\ q.slots \in [0 .. Entries - 1 -> Values]
  BY DEF Queues
<1>2. n \in Nat /\ m \in Nat
  BY <1>1, ThreadFacts
<1>3. \A i \in 1..m : (q.head + i - 1) % Entries \in 0 .. Entries - 1
  <2>1. \A i \in 1..m : q.head + i - 1 \in Nat
    BY <1>1, <1>2
  <2>2. QED
    BY <2>1, ThreadFacts
<1>4. Taken(q) = [i \in 1..m |-> q.slots[(q.head + i - 1) % Entries]]
  BY DEF Taken
<1> HIDE DEF m, n
<1>5. Taken(q) \in [1..m -> Values]
  BY <1>1, <1>3, <1>4
<1>6. Taken(q) \in Seq(Values) /\ Len(Taken(q)) = m /\ DOMAIN Taken(q) = 1..m
  BY <1>2, <1>5
<1>7. ASSUME NEW v
      PROVE  LET S == {i \in DOMAIN Taken(q) : Taken(q)[i] = v}
             IN  IsFiniteSet(S) /\ Cardinality(S) \in Nat
  <2>1. IsFiniteSet(1..m)
    BY <1>2, FS_Interval
  <2>2. IsFiniteSet({i \in DOMAIN Taken(q) : Taken(q)[i] = v})
    BY <1>6, <2>1, FS_Subset
  <2>3. QED
    BY <2>2, FS_CardinalityType
<1>8. \A i \in 1..m : \E j \in 0 .. Entries - 1 : Taken(q)[i] = q.slots[j]
  BY <1>3, <1>4
<1>9. QED
  BY <1>2, <1>5, <1>6, <1>7, <1>8

\* When one entry has been added, the kernel takes this one.
LEMMA TakenOne ==
    ASSUME NEW q \in Queues, q.tail = q.head + 1
    PROVE  /\ Len(Taken(q)) = 1 /\ DOMAIN Taken(q) = {1}
           /\ Taken(q)[1] = q.slots[q.head % Entries]
<1>1. q.head \in Nat /\ q.tail >= q.head /\ q.tail - q.head = 1 /\ q.head + 1 - 1 = q.head
  BY DEF Queues
<1>2. (IF 1 < Entries THEN 1 ELSE Entries) = 1
  BY ThreadFacts
<1>3. Taken(q) = [i \in 1..1 |-> q.slots[(q.head + i - 1) % Entries]]
  BY <1>1, <1>2 DEF Taken
<1>4. QED
  BY <1>1, <1>3

\* What a call of io_uring_submit does, whatever has been put between head and tail: it
\* delivers requests of its ring only.
LEMMA FlushTypes ==
    ASSUME IInv, NEW t \in Threads, Flushes(t), NEW r \in Workers, r = call[t].ring
    PROVE  /\ Types' /\ Roles' /\ Starts'
           /\ pc[t] = "flush" /\ GoesTo(t, pc'[t]) /\ pc'[t] \in {"idle", "wait", "stop"}
           /\ \A s \in Threads \ {t} : pc'[s] = pc[s] /\ call'[s] = call[s]
           /\ (StopBegun' <=> StopBegun) /\ (Cleared' <=> Cleared)
           /\ sq'[r].tail = sq[r].tail /\ sq'[r].alive = sq[r].alive
           /\ sq'[r].head = sq[r].head + Len(Taken(sq[r]))
           /\ \A x \in Workers : sq'[x].slots = sq[x].slots
           /\ \A x \in Workers \ {r} : sq'[x] = sq[x] /\ cq'[x] = cq[x]
           /\ \A p \in Requests : ~OnRing(p, r) => delivered'[p] = delivered[p]
<1> DEFINE taken == Taken(sq[r])
           Of(q) == {i \in DOMAIN taken : taken[i] = q}
<1>1. /\ pc[t] = "flush" /\ InCall(t) /\ EndsCall(t)
      /\ sq' = [sq EXCEPT ![r].head = @ + Len(taken)]
      /\ kernel' = [kernel EXCEPT ![r] =
             @ \cup {<<sq[r].head + i, taken[i]>> : i \in DOMAIN taken \ Of(Cancel)}]
      /\ cq' = [cq EXCEPT ![r] = cq[r] \o [i \in 1 .. Cardinality(Of(Cancel)) |-> Cancel]]
      /\ delivered' = [q \in Requests |-> delivered[q] + Cardinality(Of(q))]
      /\ UNCHANGED <<io_array, running_io, visited, issued, clashes>>
  BY DEF Flushes, InCall
<1>2. /\ sq[r] \in Queues /\ sq[r].head \in Nat /\ sq \in [Workers -> Queues]
  BY CallFields DEF IInv, Types
<1>3. /\ Len(taken) \in Nat /\ DOMAIN taken = 1..Len(taken)
      /\ \A i \in DOMAIN taken : /\ taken[i] \in Values
                                 /\ \E j \in 0 .. Entries - 1 : taken[i] = sq[r].slots[j]
      /\ \A q : Cardinality(Of(q)) \in Nat
  BY <1>2, TakenFacts
<1>4. DOMAIN taken \ Of(Cancel) = {i \in DOMAIN taken : taken[i] # Cancel}
  OBVIOUS
<1>5. ASSUME NEW p \in Requests, ~OnRing(p, r) PROVE Cardinality(Of(p)) = 0
  <2>1. \A i \in DOMAIN taken : OnRing(taken[i], r)
    BY <1>3 DEF IInv, Delivers
  <2>2. Of(p) = {}
    BY <1>5, <2>1
  <2>3. QED
    BY <2>2, FS_EmptySet
<1> HIDE DEF taken, Of
<1>6. /\ sq' \in [Workers -> Queues] /\ sq'[r].tail = sq[r].tail
      /\ sq'[r].head = sq[r].head + Len(taken) /\ sq'[r].alive = sq[r].alive
      /\ sq'[r].slots = sq[r].slots
      /\ \A x \in Workers \ {r} : sq'[x] = sq[x]
  <2>1. [sq[r] EXCEPT !.head = sq[r].head + Len(taken)] \in Queues
    BY <1>2, <1>3 DEF Queues
  <2>2. sq'[r] = [sq[r] EXCEPT !.head = sq[r].head + Len(taken)]
    BY <1>1, <1>2
  <2>3. QED
    BY <1>1, <1>2, <2>1, <2>2 DEF Queues
<1>7. PICK b \in {"idle", "wait", "stop"} : Goto(t, b) /\ GoesTo(t, b)
  BY <1>1, EndsFacts
<1>8. /\ call' \in [Threads -> Calls] /\ \A s \in Threads \ {t} : call'[s] = call[s]
  BY <1>1, EndsFacts
<1>9. /\ pc' \in [Threads -> Labels] /\ Roles' /\ Starts'
      /\ pc'[t] = b /\ \A s \in Threads \ {t} : pc'[s] = pc[s]
      /\ (StopBegun' <=> StopBegun) /\ (Cleared' <=> Cleared)
  <2>1. \A w \in Workers : sq'[w].alive = sq[w].alive
    BY <1>6
  <2>2. pc'[t] = b
    BY <1>7 DEF Goto, IInv, Types
  <2>3. \A s \in Threads : InCall(s)' => call'[s].ring = call[s].ring
    BY <1>8, <2>2 DEF InCall
  <2>4. QED
    BY <1>1, <1>7, <2>1, <2>3, CallStep
<1>10. kernel' \in [Workers -> SUBSET (Nat \X Requests)]
  <2>1. \A i \in DOMAIN taken \ Of(Cancel) : <<sq[r].head + i, taken[i]>> \in Nat \X Requests
    <3>1. SUFFICES ASSUME NEW i \in DOMAIN taken \ Of(Cancel)
                   PROVE  <<sq[r].head + i, taken[i]>> \in Nat \X Requests
      OBVIOUS
    <3>2. taken[i] \in Requests
      BY <1>3, <1>4 DEF Values
    <3>3. sq[r].head + i \in Nat
      BY <1>2, <1>3
    <3>4. QED
      BY <3>2, <3>3
  <2>2. {<<sq[r].head + i, taken[i]>> : i \in DOMAIN taken \ Of(Cancel)}
            \subseteq Nat \X Requests
    BY <2>1
  <2>3. QED
    BY <1>1, <2>2 DEF IInv, Types
<1>11. cq' \in [Workers -> Seq(Values)]
  <2>1. [i \in 1 .. Cardinality(Of(Cancel)) |-> Cancel] \in Seq(Values)
    BY <1>3 DEF Values
  <2>2. cq[r] \in Seq(Values)
    BY DEF IInv, Types
  <2>3. cq[r] \o [i \in 1 .. Cardinality(Of(Cancel)) |-> Cancel] \in Seq(Values)
    BY <2>1, <2>2
  <2>4. QED
    BY <1>1, <2>3 DEF IInv, Types
<1>12. delivered' \in [Requests -> Nat]
  <2>1. \A q \in Requests : delivered[q] + Cardinality(Of(q)) \in Nat
    BY <1>3 DEF IInv, Types
  <2>2. QED
    BY <1>1, <2>1
<1>13. Types'
  BY <1>1, <1>6, <1>8, <1>9, <1>10, <1>11, <1>12 DEF IInv, Types
<1>14. \A p \in Requests : ~OnRing(p, r) => delivered'[p] = delivered[p]
  BY <1>1, <1>5 DEF IInv, Types
<1>15. \A x \in Workers \ {r} : cq'[x] = cq[x]
  BY <1>1 DEF IInv, Types
<1>16. sq'[r].head = sq[r].head + Len(Taken(sq[r]))
  BY <1>6 DEF taken
<1>17. QED
  BY <1>1, <1>6, <1>7, <1>8, <1>9, <1>13, <1>14, <1>15, <1>16

\* Where no calls have met, io_uring_submit gives the kernel the caller's request and
\* nothing else (io_service.cpp:282, 368).
LEMMA FlushOne ==
    ASSUME IInv, NEW t \in Threads, Flushes(t), NEW r \in Workers, r = call[t].ring,
           ~Clashed(r)
    PROVE  /\ Len(Taken(sq[r])) = 1
           /\ \A p \in Requests : delivered'[p] = IF p = call[t].req THEN delivered[p] + 1
                                                  ELSE delivered[p]
           /\ t # Main => cq' = cq
           /\ \A s \in Using(r) : s = t
           /\ sq[r].tail = sq[r].head + 1
<1>1. PICK q \in Values : q = call[t].req
  BY CallFields DEF IInv
<1> DEFINE taken == Taken(sq[r])
           Of(v) == {i \in DOMAIN taken : taken[i] = v}
<1>2. /\ cq' = [cq EXCEPT ![r] = cq[r] \o [i \in 1 .. Cardinality(Of(Cancel)) |-> Cancel]]
      /\ delivered' = [p \in Requests |-> delivered[p] + Cardinality(Of(p))]
      /\ pc[t] = "flush" /\ sq[r].alive
  BY DEF Flushes
<1>3. t \in Using(r) /\ Queue(r) /\ sq[r] \in Queues
  BY <1>2, CallFields DEF Using, IInv
<1>4. sq[r].tail = sq[r].head + 1 /\ sq[r].slots[sq[r].head % Entries] = q
  BY <1>1, <1>2, <1>3 DEF Queue
<1>5. Len(taken) = 1 /\ DOMAIN taken = {1} /\ taken[1] = q
  BY <1>3, <1>4, TakenOne
<1> HIDE DEF taken
<1>6. \A v : Cardinality(Of(v)) = IF v = q THEN 1 ELSE 0
  <2>1. \A v : Of(v) = IF v = q THEN {1} ELSE {}
    BY <1>5
  <2>2. Cardinality({1}) = 1 /\ Cardinality({}) = 0
    BY FS_Singleton, FS_EmptySet
  <2>3. QED
    BY <2>1, <2>2
<1> HIDE DEF Of
<1>7. \A p \in Requests : delivered'[p] = IF p = q THEN delivered[p] + 1 ELSE delivered[p]
  BY <1>2, <1>6 DEF IInv, Types
<1>8. ASSUME t # Main PROVE cq' = cq
  <2>1. q # Cancel
    BY <1>1, <1>2, <1>8 DEF IInv, Delivers, InCall
  <2>2. Cardinality(Of(Cancel)) = 0
    BY <1>6, <2>1
  <2>3. cq[r] \in Seq(Values) /\ cq \in [Workers -> Seq(Values)]
    BY DEF IInv, Types
  <2>4. cq[r] \o [i \in 1..0 |-> Cancel] = cq[r]
    <3>1. [i \in 1..0 |-> Cancel] = <<>>
      OBVIOUS
    <3>2. QED
      BY <2>3, <3>1
  <2>5. QED
    BY <1>2, <2>2, <2>3, <2>4
<1>9. \A s \in Using(r) : s = t
  BY <1>2, <1>3 DEF Queue
<1>10. Len(Taken(sq[r])) = 1
  BY <1>5 DEF taken
<1>11. QED
  BY <1>1, <1>4, <1>7, <1>8, <1>9, <1>10

\* And so there nothing is lost, taken twice or taken too early.
LEMMA FlushesKeeps ==
    ASSUME IInv, NEW t \in Threads, Flushes(t)
    PROVE  IInv'
<1>1. PICK r \in Workers : r = call[t].ring
  BY CallFields DEF IInv
<1>2. /\ Types' /\ Roles' /\ Starts'
      /\ pc[t] = "flush" /\ GoesTo(t, pc'[t]) /\ pc'[t] \in {"idle", "wait", "stop"}
      /\ \A s \in Threads \ {t} : pc'[s] = pc[s] /\ call'[s] = call[s]
      /\ (StopBegun' <=> StopBegun) /\ (Cleared' <=> Cleared)
      /\ sq'[r].tail = sq[r].tail /\ sq'[r].alive = sq[r].alive
      /\ sq'[r].head = sq[r].head + Len(Taken(sq[r]))
      /\ \A x \in Workers : sq'[x].slots = sq[x].slots
      /\ \A x \in Workers \ {r} : sq'[x] = sq[x] /\ cq'[x] = cq[x]
      /\ \A p \in Requests : ~OnRing(p, r) => delivered'[p] = delivered[p]
  BY <1>1, FlushTypes
<1>3. /\ InCall(t) /\ ~InCall(t)' /\ ~Lost(t)' /\ t \in Using(r)
      /\ EndsCall(t)
      /\ UNCHANGED <<io_array, running_io, visited, issued, clashes>>
  BY <1>1, <1>2 DEF InCall, Lost, Using, Flushes
<1>4. \A x \in Workers : Clashed(x)' <=> Clashed(x)
  BY <1>3 DEF Clashed
<1>5. ~Clashed(r) => /\ Len(Taken(sq[r])) = 1
                     /\ \A p \in Requests : delivered'[p] = IF p = call[t].req
                                                            THEN delivered[p] + 1
                                                            ELSE delivered[p]
                     /\ t # Main => cq' = cq
                     /\ \A s \in Using(r) : s = t
                     /\ sq[r].tail = sq[r].head + 1
  BY <1>1, FlushOne
<1>6. ASSUME NEW x \in Workers PROVE Queue(x)'
  <2>1. CASE x # r
    <3>1. Using(x)' = Using(x)
      BY <1>1, <1>2, <1>3, <2>1 DEF Using, InCall
    <3>2. \A s \in Using(x) : call'[s] = call[s] /\ pc'[s] = pc[s]
      BY <1>1, <1>2, <2>1 DEF Using
    <3>3. QED
      BY <1>2, <1>4, <2>1, <3>1, <3>2, QueueKept DEF IInv
  <2>2. CASE x = r
    <3>1. SUFFICES ASSUME ~Clashed(r) PROVE Queue(r)'
      BY <1>4, <2>2 DEF Queue
    <3>2. Using(r)' = {}
      BY <1>2, <1>3, <1>5, <3>1 DEF Using, InCall
    <3>3. sq'[r].tail = sq'[r].head
      BY <1>2, <1>5, <3>1
    <3>4. QED
      BY <3>2, <3>3 DEF Queue
  <2>3. QED
    BY <2>1, <2>2
<1>7. Delivers'
  BY <1>1, <1>2, <1>3, <1>4, <1>5, EndsDelivers
<1>8. WorkersApart'
  BY <1>3 DEF IInv, WorkersApart
<1>9. Stops'
  <2>1. CASE Clashed(r) \/ t # Main
    <3>1. ASSUME NEW w \in Workers, HasCancel(w)' PROVE Clashed(w) \/ HasCancel(w)
      BY <1>2, <1>5, <2>1, <3>1 DEF HasCancel
    <3>2. \A w \in Workers : Visited(w) => Visited(w)'
      BY <1>2, <1>3, ThreadFacts DEF Visited, InCall
    <3>3. \A w \in Workers : pc'[w] \in {"exit", "gone"} => pc[w] \in {"exit", "gone"}
      BY <1>2, ThreadFacts
    <3>4. \A w \in Workers : pc'[w] \in {"exit", "gone"} \/ HasCancel(w)' =>
              Clashed(w)' \/ Visited(w)'
      BY <1>4, <3>1, <3>2, <3>3 DEF IInv, Stops
    <3>5. InCall(Main)' => InCall(Main) /\ call'[Main] = call[Main]
      BY <1>2, <1>3, ThreadFacts DEF InCall
    <3>6. \A s \in Threads : Lost(s)' => Clashed(call[s].ring)' \/ (s \in Users /\ StopBegun')
      <4>1. SUFFICES ASSUME NEW s \in Threads, Lost(s)'
                     PROVE  Clashed(call[s].ring)' \/ (s \in Users /\ StopBegun')
        OBVIOUS
      <4>2. Lost(s) /\ call'[s] = call[s]
        BY <1>2, <1>3, <4>1 DEF Lost
      <4>3. Clashed(call[s].ring) \/ (s \in Users /\ StopBegun)
        BY <4>2 DEF IInv, Stops
      <4>4. QED
        BY <1>2, <1>3, <4>2, <4>3 DEF Clashed
    <3>7. QED
      BY <1>2, <1>3, <3>4, <3>5, <3>6 DEF IInv, Stops
  <2>2. CASE t = Main
    <3>1. visited >= 1 /\ r = io_array[visited] /\ StopBegun /\ visited \in Nat
      BY <1>1, <1>2, <1>3, <2>2 DEF IInv, Stops, Types, StopBegun, RunReturned
    <3>2. Visited(r)'
      BY <1>2, <1>3, <2>2, <3>1 DEF Visited
    <3>3. \A w \in Workers : Visited(w) => Visited(w)'
      BY <1>2, <1>3, <2>2 DEF Visited
    <3>4. \A w \in Workers : HasCancel(w)' => w = r \/ HasCancel(w)
      BY <1>2 DEF HasCancel
    <3>5. \A w \in Workers : pc'[w] = pc[w]
      BY <1>2, <2>2, ThreadFacts
    <3>6. \A w \in Workers : pc'[w] \in {"exit", "gone"} \/ HasCancel(w)' =>
              Clashed(w)' \/ Visited(w)'
      BY <1>4, <3>2, <3>3, <3>4, <3>5 DEF IInv, Stops
    <3>7. \A s \in Threads : Lost(s)' => Clashed(call[s].ring)' \/ (s \in Users /\ StopBegun')
      <4>1. SUFFICES ASSUME NEW s \in Threads, Lost(s)'
                     PROVE  Clashed(call[s].ring)' \/ (s \in Users /\ StopBegun')
        OBVIOUS
      <4>2. Lost(s) /\ call'[s] = call[s]
        BY <1>2, <1>3, <4>1 DEF Lost
      <4>3. Clashed(call[s].ring) \/ (s \in Users /\ StopBegun)
        BY <4>2 DEF IInv, Stops
      <4>4. QED
        BY <1>2, <1>3, <4>2, <4>3 DEF Clashed
    <3>8. QED
      BY <1>2, <1>3, <2>2, <3>6, <3>7 DEF IInv, Stops
  <2>3. QED
    BY <2>1, <2>2
<1>10. QED
  BY <1>2, <1>6, <1>7, <1>8, <1>9 DEF IInv

\* A call comes upon a ring that is gone: one where calls have met, or a user's, and then
\* stop() has been there (io_service.cpp:278-282, 316-319).
LEMMA FindsGoneKeeps ==
    ASSUME IInv, NEW t \in Threads, FindsGone(t)
    PROVE  IInv'
<1>1. PICK r \in Workers : r = call[t].ring
  BY CallFields DEF IInv
<1>2. /\ InCall(t) /\ ~sq[r].alive /\ Goto(t, "astray")
      /\ UNCHANGED <<io_array, running_io, call, visited, sq, kernel, cq, history>>
  BY <1>1 DEF FindsGone
<1>3. pc[r] = "gone" /\ (Clashed(r) \/ Visited(r))
  BY <1>2 DEF IInv, Starts, Stops
<1>4. Clashed(r) \/ (t \in Users /\ StopBegun)
  <2>1. CASE t = Main
    BY <1>1, <1>2, <1>3, <2>1 DEF Visited
  <2>2. CASE t \in Workers
    <3>1. t = r
      BY <1>1, <1>2, <2>2 DEF IInv, Roles
    <3>2. QED
      BY <1>2, <1>3, <3>1 DEF InCall
  <2>3. CASE t \in Users
    BY <1>3, <2>3 DEF Visited
  <2>4. QED
    BY <2>1, <2>2, <2>3, ThreadFacts
<1>5. GoesTo(t, "astray")
  <2>1. t \notin Workers
    BY <1>1, <1>2, <1>3 DEF IInv, Roles, InCall
  <2>2. QED
    BY <2>1, ThreadFacts DEF GoesTo
<1>6. /\ pc' \in [Threads -> Labels] /\ Roles' /\ Starts'
      /\ pc'[t] = "astray" /\ \A s \in Threads \ {t} : pc'[s] = pc[s]
      /\ \A s \in Threads : InCall(s)' => InCall(s)
      /\ (StopBegun' <=> StopBegun) /\ (Cleared' <=> Cleared)
  BY <1>2, <1>5, CallStep
<1>7. Types'
  BY <1>2, <1>6 DEF IInv, Types, history
<1>8. /\ \A x \in Workers : Clashed(x)' <=> Clashed(x)
      /\ \A x \in Workers : HasCancel(x)' <=> HasCancel(x)
  BY <1>2 DEF Clashed, HasCancel, history
<1>9. ASSUME NEW x \in Workers PROVE Queue(x)'
  <2>1. CASE x # r
    <3>1. Using(x)' = Using(x)
      BY <1>1, <1>2, <1>6, <2>1 DEF Using
    <3>2. \A s \in Using(x) : call'[s] = call[s] /\ pc'[s] = pc[s]
      BY <1>1, <1>2, <1>6, <2>1 DEF Using
    <3>3. QED
      BY <1>2, <1>8, <3>1, <3>2, QueueKept DEF IInv
  <2>2. CASE x = r
    BY <1>2, <2>2 DEF Queue
  <2>3. QED
    BY <2>1, <2>2
<1>10. Delivers'
  <2>1. \A s \in Threads : InCall(s) \/ pc[s] = "astray" => InCall(s)' \/ pc'[s] = "astray"
    BY <1>6 DEF InCall
  <2>2. QED
    BY <1>2, <1>6, <1>8, <2>1, DeliversKept DEF IInv, Types, history
<1>11. WorkersApart'
  BY <1>2 DEF IInv, WorkersApart, history
<1>12. Stops'
  <2>1. Clashed(call[t].ring)' \/ (t \in Users /\ StopBegun)
    BY <1>1, <1>2, <1>4 DEF Clashed, history
  <2>2. QED
    BY <1>2, <1>5, <1>6, <1>8, <2>1, CallStops
<1>13. QED
  BY <1>6, <1>7, <1>9, <1>10, <1>11, <1>12 DEF IInv

-----------------------------------------------------------------------------
(* The theorems.                                                           *)

\* Every action keeps the invariant, and so does a step that changes nothing.
LEMMA NextPreserves ==
    ASSUME IInv, [Next]_vars
    PROVE  IInv'
<1>1. CASE MainSteps \/ StopBegins
  BY <1>1, SpawnsKeeps, RunReturnsKeeps, StopVisitsKeeps, StopClearsKeeps, StopJoinsKeeps,
     StopBeginsKeeps DEF MainSteps
<1>2. ASSUME NEW w \in Workers, WorkerSteps(w) \/ Completes(w) PROVE IInv'
  BY <1>2, RegistersKeeps, CountsKeeps, HandlesKeeps, BreaksKeeps, ExitsKeeps,
     CompletesKeeps DEF WorkerSteps
<1>3. ASSUME NEW u \in Users, UserSubmits(u) \/ FindsNone(u) PROVE IInv'
  BY <1>3, UserSubmitsKeeps, FindsNoneKeeps
<1>4. ASSUME NEW t \in Threads, Submits(t) PROVE IInv'
  BY <1>4, GetsSqeKeeps, AdvancesKeeps, FillsKeeps, FlushesKeeps, FindsGoneKeeps DEF Submits
<1>5. CASE UNCHANGED vars
  <2>1. /\ \A r \in Workers : Queue(r)'
        /\ Delivers' /\ WorkersApart' /\ \A t \in Threads : InCall(t)' <=> InCall(t)
    BY <1>5, QuietKeeps DEF vars, history
  <2>2. Types' /\ Roles'
    BY <1>5, <2>1, ThreadFacts DEF vars, history, IInv, Types, Roles
  <2>3. Starts'
    BY <1>5 DEF vars, IInv, Starts, Running, Registered, Starting, Cleared
  <2>4. Stops' <=> Stops
    BY <1>5 DEF vars, history, Stops, InCall, HasCancel, Visited, Cleared, Clashed, Lost,
                StopBegun, RunReturned
  <2>5. QED
    BY <2>1, <2>2, <2>3, <2>4 DEF IInv
<1>6. QED
  BY <1>1, <1>2, <1>3, <1>4, <1>5 DEF Next

\* The invariant holds always, for any number of workers and users, whoever calls when.
THEOREM Invariance == Spec => []IInv
<1>1. Init => IInv
  BY InitEstablishes
<1>2. IInv /\ [Next]_vars => IInv'
  BY NextPreserves
<1>3. QED
  BY <1>1, <1>2, PTL DEF Spec

\* The members of the service and the rings keep their types, and running_io never counts
\* a worker twice nor goes below zero, whatever the program does.
THEOREM TypeCorrect == Spec => []TypeOK
<1>1. ASSUME IInv PROVE TypeOK
  <2>1. running_io \in 0 .. Cardinality(Workers)
    BY <1>1, RunningFinite DEF IInv, Starts
  <2>2. \A r \in Workers : /\ sq[r].slots \in [0 .. Entries - 1 -> Requests \cup {Cancel}]
                           /\ sq[r].tail \in Nat /\ sq[r].head \in Nat
    BY <1>1 DEF IInv, Types, Queues, Values
  <2>3. visited \in 0 .. Cardinality(Workers)
    BY <1>1, RunningFinite DEF IInv, Types, Stops
  <2>4. pc \in [Threads -> {"run", "poll", "up", "stop", "join", "done", "idle", "new",
                            "start", "count", "wait", "exit", "gone",
                            "get", "advance", "fill", "flush", "crashed", "astray"}]
    BY <1>1 DEF IInv, Types, Labels, MainLabels, WorkerLabels, UserLabels, CallLabels
  <2>5. QED
    BY <1>1, <2>1, <2>2, <2>3, <2>4 DEF IInv, Types, TypeOK, Calls, Values
<1>2. QED
  BY <1>1, Invariance, PTL

\* run() returns when every ring is in io_array, once (io_service.cpp:263-274), whatever
\* the program does.
THEOREM ReadyWhenRunReturns == Spec => []RunReady
<1>1. ASSUME IInv, pc[Main] = "up"
      PROVE  Registered = Workers /\ Len(io_array) = Cardinality(Workers)
  BY <1>1, ArrayFull DEF IInv, Starting, Cleared
<1>2. IInv => RunReady
  BY <1>1 DEF RunReady
<1>3. QED
  BY <1>2, Invariance, PTL

\* Every request submitted to a ring whose calls have not met reaches the kernel once
\* (io_service.cpp:313-371), whatever happens on the other rings.
THEOREM DeliversOnce == Spec => []DeliveredOnce
<1>1. ASSUME IInv, NEW q \in DOMAIN issued, ~Clashed(issued[q])
      PROVE  delivered[q] = IF \E t \in Threads : /\ InCall(t) \/ pc[t] = "astray"
                                                  /\ call[t].req = q
                            THEN 0 ELSE 1
  <2>1. q # Cancel
    BY <1>1, IoServiceAssumption DEF IInv, Types, Cancel
  <2>2. Calling(q) <=> \E t \in Threads : /\ InCall(t) \/ pc[t] = "astray"
                                          /\ call[t].req = q
    BY <1>1, <2>1 DEF IInv, Delivers, Calling
  <2>3. QED
    BY <1>1, <2>2 DEF IInv, Delivers
<1>2. IInv => DeliveredOnce
  BY <1>1 DEF DeliveredOnce
<1>3. QED
  BY <1>2, Invariance, PTL

\* The calls of two workers never meet on a ring: thread_ring keeps each to its own
\* (io_service.cpp:314-317).
THEOREM WorkersKeptApart == Spec => []WorkersApart
<1>1. IInv => WorkersApart
  BY DEF IInv
<1>2. QED
  BY <1>1, Invariance, PTL

\* No worker leaves its loop before stop() unless calls have met on its ring; and only
\* there, or in a user's submit() during or after stop(), does a thread come upon a ring
\* that is gone, an empty io_array or, in stop(), a full queue (io_service.cpp:276-287,
\* 316-319, 399-411).
THEOREM RingsAlive == Spec => []RingAlive
<1>1. IInv => RingAlive
  BY DEF IInv, Stops, Lost, Visited, RingAlive
<1>2. QED
  BY <1>1, Invariance, PTL

=============================================================================
