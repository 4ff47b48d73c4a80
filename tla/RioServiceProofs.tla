------------------------- MODULE RioServiceProofs --------------------------
(***************************************************************************)
(* Proofs about RioService, for any number of workers, connections and     *)
(* SOCKET values.  The three promises have little to do with each other,   *)
(* and so have the three parts of the invariant behind them:               *)
(*   - Queues: the end of io_array counts at most the workers that are     *)
(*     past push_back, all of them if no two were in it at once;           *)
(*   - OwnNumbers: a socket that no thread is about to mark, and whose     *)
(*     socket_handler is not INVALID_SOCKET, owns that number;             *)
(*   - FrontQueued: a send request under way is part of what is queued.    *)
(* Typed and Placed say what kind of values and which labels the threads   *)
(* have, and that nothing happens to a connection before it is accepted.   *)
(***************************************************************************)
EXTENDS RioService, FiniteSetTheorems, TLAPS

WorkerLabels == {"create", "append", "poll", "notify", "handle", "close", "mark", "unlock",
                 "gone"}
UserLabels == {"idle", "handle", "close", "mark", "unlock", "spin"}
MainLabels == {"run", "up", "closed", "stop", "join", "down"}
AcceptorLabels == {"idle", "accept", "flag", "assign", "queue", "receive", "gone"}
Labels == WorkerLabels \cup UserLabels \cup MainLabels \cup AcceptorLabels

RequestType == [st : {"none", "pending", "done", "lost"}, n : Nat]

OwnType == [conn : Conns \cup {NoConn}, handle : Handles \cup {INVALID}, end : Nat,
            then : {"none", "idle", "unlock", "notify"}]

SocketType == [handle : Handles \cup {INVALID}, connected : BOOLEAN, assigned : BOOLEAN,
               graceful : BOOLEAN, queued : Int, recv : Workers \cup {NoThread},
               send : Workers \cup {NoThread}, registered : BOOLEAN, notified : BOOLEAN]

ArrayType == [end : Nat, slot : [1..Cardinality(Workers) -> Workers \cup {NoThread}]]

HistoryType == [case : Cases, raced : BOOLEAN, overlap : BOOLEAN, foreign : BOOLEAN,
                clobbered : BOOLEAN, calls : Nat, data : Nat]

\* The variables have their types.
Typed ==
    /\ io_array \in ArrayType
    /\ running_io \in Int /\ stopped \in BOOLEAN
    /\ pc \in [Threads -> Labels]
    /\ own \in [Threads -> OwnType]
    /\ sock \in [Conns -> SocketType]
    /\ lock \in [Conns -> Threads \cup {NoThread}]
    /\ owner \in [Handles -> Conns \cup {NoConn}]
    /\ read \in [Conns -> RequestType] /\ write \in [Conns -> RequestType]
    /\ peer \in [Conns -> {"away", "there", "gone"}]
    /\ hist \in HistoryType

\* A thread that closes a socket or makes one active.
Busy(t) == pc[t] \in {"handle", "close", "mark", "unlock", "notify",
                      "flag", "assign", "queue", "receive"}

\* Each thread is where its code can be, with a connection that was accepted; of one that
\* was not, nobody knows.
Placed ==
    /\ \A w \in Workers : pc[w] \in WorkerLabels
    /\ pc[User] \in UserLabels /\ pc[Main] \in MainLabels /\ pc[Acceptor] \in AcceptorLabels
    /\ \A t \in Threads : Busy(t) => own[t].conn \in Conns /\ Known(own[t].conn)
    /\ \A t \in Threads : pc[t] \in {"handle", "close", "mark"} =>
          own[t].then \in (IF t \in Workers THEN {"notify", "unlock"} ELSE {"idle", "unlock"})
    /\ \A c \in Conns : ~Known(c) => /\ sock[c].handle = INVALID
                                     /\ read[c] = NoRequest /\ write[c] = NoRequest

\* The workers that are out of push_back.
Past == {w \in Workers : pc[w] \notin {"create", "append"}}

\* As long as no two workers met in push_back, its end counts those that came out, the
\* slots before it hold their queues, and the one behind it that of the worker inside.
Gathered ==
    /\ io_array.end = Cardinality(Past)
    /\ {io_array.slot[i] : i \in 1..io_array.end} = Past
    /\ \A v, w \in Workers : At(v, "append") /\ At(w, "append") => v = w
    /\ \A w \in Workers : At(w, "append") => /\ own[w].end = io_array.end
                                             /\ io_array.slot[io_array.end + 1] = w

\* Even if they did, its end counts no more than those that came out, and one once one has,
\* and the first slot is never left empty.
Counted ==
    /\ io_array.end <= Cardinality(Past)
    /\ \A w \in Workers : At(w, "append") => own[w].end <= Cardinality(Past)
    /\ Past # {} => io_array.end >= 1
    /\ io_array.end >= 1 \/ (\E w \in Workers : At(w, "append")) =>
          io_array.slot[1] \in Workers

\* running_io counts the workers that are out of push_back, and run() waits for all.
Queues ==
    /\ ~stopped => /\ running_io = Cardinality(Past)
                   /\ \A w \in Workers : pc[w] # "gone"
    /\ stopped => pc[Main] \in {"join", "down"}
    /\ pc[Main] # "run" => Past = Workers
    /\ ~stopped => Counted
    /\ ~stopped /\ ~hist.raced => Gathered

\* A thread has read the number of c and has not yet marked the member.
Closes(t, c) == pc[t] \in {"close", "mark"} /\ own[t].conn = c

\* As long as no two threads close one socket at the same time: what one has read is what
\* the member holds, and the number in a member is that of its connection, until
\* closesocket().
Numbered ==
    /\ ~hist.foreign
    /\ \A s, t \in Threads : \A c \in Conns : Closes(s, c) /\ Closes(t, c) => s = t
    /\ \A t \in Threads : pc[t] = "close" => own[t].handle = sock[own[t].conn].handle
    /\ \A c \in Conns :
          /\ sock[c].handle # INVALID
          /\ \A t \in Threads : ~(pc[t] = "mark" /\ own[t].conn = c)
          => owner[sock[c].handle] = c

OwnNumbers == ~hist.overlap => Numbered

\* A send request that the system has, or has completed, is about bytes at the front of
\* what is queued; while it has it, about at least one.
FrontQueued ==
    /\ ~hist.clobbered
    /\ \A c \in Conns : /\ sock[c].queued >= 0
                        /\ write[c].st \in {"pending", "done"} =>
                              sock[c].queued >= 1 /\ write[c].n <= sock[c].queued
                        /\ write[c].st = "pending" => write[c].n >= 1

IInv == Typed /\ Placed /\ Queues /\ OwnNumbers /\ FrontQueued

USE RioServiceAssumption DEF Threads, Conns, NoConn, INVALID

-----------------------------------------------------------------------------
(* Types.                                                                  *)

\* What the code assigns to the members of a tcp_socket leaves it one.
LEMMA SocketFields ==
    ASSUME NEW s \in SocketType
    PROVE  /\ \A v \in Handles \cup {INVALID} : [s EXCEPT !.handle = v] \in SocketType
           /\ [s EXCEPT !.connected = TRUE] \in SocketType
           /\ [s EXCEPT !.connected = FALSE] \in SocketType
           /\ [s EXCEPT !.assigned = TRUE] \in SocketType
           /\ [s EXCEPT !.graceful = TRUE] \in SocketType
           /\ \A v \in Int : [s EXCEPT !.queued = v] \in SocketType
           /\ \A v, w \in Workers :
                 [s EXCEPT !.recv = v, !.send = w, !.registered = TRUE] \in SocketType
           /\ [s EXCEPT !.registered = FALSE, !.notified = TRUE] \in SocketType
  BY DEF SocketType

\* The same for the local variables of a thread.
LEMMA OwnFields ==
    ASSUME NEW o \in OwnType
    PROVE  /\ Nothing \in OwnType
           /\ \A c \in Conns : [o EXCEPT !.conn = c] \in OwnType
           /\ \A h \in Handles \cup {INVALID} : [o EXCEPT !.handle = h] \in OwnType
           /\ \A e \in Nat : [o EXCEPT !.end = e] \in OwnType
           /\ \A c \in Conns : \A label \in {"idle", "unlock", "notify"} :
                 [Nothing EXCEPT !.conn = c, !.then = label] \in OwnType
  BY DEF OwnType, Nothing

\* One more call, or one more packet.
LEMMA HistoryFields ==
    ASSUME NEW h \in HistoryType
    PROVE  /\ [h EXCEPT !.calls = h.calls + 1] \in HistoryType
           /\ [h EXCEPT !.data = h.data + 1] \in HistoryType
<1>1. h.calls + 1 \in Nat /\ h.data + 1 \in Nat
  BY DEF HistoryType
<1>2. QED
  BY <1>1 DEF HistoryType

\* A thread that begins to close, in io_shutdown, on_send_complete or a call of close().
LEMMA BeginsClosingTyped ==
    ASSUME Typed, NEW t \in Threads, NEW c \in Conns,
           NEW label \in {"idle", "unlock", "notify"}, BeginsClosing(t, c, label)
    PROVE  /\ own' \in [Threads -> OwnType] /\ pc' \in [Threads -> Labels]
           /\ own'[t].conn = c /\ own'[t].then = label /\ pc'[t] = "handle"
           /\ \A s \in Threads \ {t} : own'[s] = own[s] /\ pc'[s] = pc[s]
<1> DEFINE o == [Nothing EXCEPT !.conn = c, !.then = label]
<1>1. o \in OwnType /\ o.conn = c /\ o.then = label
  BY OwnFields DEF OwnType, Nothing
<1>2. own' = [own EXCEPT ![t] = o]
  BY DEF BeginsClosing
<1> HIDE DEF o
<1>3. /\ own' \in [Threads -> OwnType] /\ own'[t] = o
      /\ \A s \in Threads \ {t} : own'[s] = own[s]
  BY <1>1, <1>2 DEF Typed
<1>4. /\ pc' \in [Threads -> Labels] /\ pc'[t] = "handle"
      /\ \A s \in Threads \ {t} : pc'[s] = pc[s]
  BY DEF Typed, BeginsClosing, Goto, Labels, WorkerLabels
<1>5. QED
  BY <1>1, <1>3, <1>4

\* submit_sending() takes at least one byte of what is queued, and at most Size.
LEMMA SendingTyped ==
    ASSUME Typed, NEW c \in Conns, NEW n \in Nat, n >= 1, Sending(c, n)
    PROVE  /\ write' \in [Conns -> RequestType] /\ hist' \in HistoryType
           /\ \A d \in Conns \ {c} : write'[d] = write[d]
           /\ write'[c].st \in {"pending", "lost"}
           /\ write'[c].st = "pending" => write'[c].n \in 1..n
           /\ hist'.clobbered = (hist.clobbered \/ write[c].st = "pending")
           /\ hist'.raced = hist.raced /\ hist'.overlap = hist.overlap
           /\ hist'.foreign = hist.foreign
<1> DEFINE k == IF n > Size THEN Size ELSE n
<1>1. k \in 1..n
  OBVIOUS
<1> HIDE DEF k
<1>2. PICK r \in {[st |-> "pending", n |-> k], [st |-> "lost", n |-> 0]} :
         write' = [write EXCEPT ![c] = r]
  BY DEF Sending, k
<1>3. r \in RequestType /\ r.st \in {"pending", "lost"} /\ (r.st = "pending" => r.n = k)
  BY <1>1, <1>2 DEF RequestType
<1>4. /\ write' \in [Conns -> RequestType] /\ write'[c] = r
      /\ \A d \in Conns \ {c} : write'[d] = write[d]
  BY <1>2, <1>3 DEF Typed
<1>5. PICK m \in Nat : hist' = [hist EXCEPT !.clobbered = @ \/ write[c].st = "pending",
                                            !.calls = m]
  <2>1. hist.calls \in Nat /\ hist.calls + 1 \in Nat
    BY DEF Typed, HistoryType
  <2>2. QED
    BY <2>1 DEF Sending
<1>6. /\ hist' \in HistoryType
      /\ hist'.clobbered = (hist.clobbered \/ write[c].st = "pending")
      /\ hist'.raced = hist.raced /\ hist'.overlap = hist.overlap
      /\ hist'.foreign = hist.foreign
  BY <1>5 DEF Typed, HistoryType
<1>7. QED
  BY <1>1, <1>3, <1>4, <1>6

\* submit_receiving() makes a request or does not.
LEMMA ReceivingTyped ==
    ASSUME NEW c
    PROVE  Receiving(c) \in RequestType
  BY DEF Receiving, RequestType

\* Each action of a thread, of the system or of a peer leaves every variable in its type:
\* the numbers that closing threads carry are values of SOCKET, the ends of io_array are
\* counts, and nothing but workers gets into its slots.
LEMMA TypedKept == ASSUME Typed, Placed, FrontQueued, Next PROVE Typed'
<1>1. ASSUME NEW w \in Workers, Appends(w) PROVE Typed'
  <2>1. io_array' \in ArrayType /\ io_array.end \in Nat
    BY <1>1 DEF Appends, Typed, ArrayType
  <2>2. own' \in [Threads -> OwnType]
    <3>1. [own[w] EXCEPT !.end = io_array.end] \in OwnType
      BY <1>1, <2>1, OwnFields DEF Typed
    <3>2. own' = [own EXCEPT ![w] = [own[w] EXCEPT !.end = io_array.end]]
      BY <1>1 DEF Appends
    <3>3. QED
      BY <1>1, <3>1, <3>2 DEF Typed
  <2>3. pc' \in [Threads -> Labels]
    BY <1>1 DEF Typed, Appends, Goto, Labels, WorkerLabels, UserLabels,
             MainLabels, AcceptorLabels
  <2>4. hist' \in HistoryType
    BY <1>1 DEF Typed, Appends, HistoryType
  <2>5. QED
    BY <1>1, <2>1, <2>2, <2>3, <2>4 DEF Typed, Appends
<1>2. ASSUME NEW w \in Workers, MovesEnd(w) PROVE Typed'
  <2>1. PICK e \in {own[w].end, io_array.end} : io_array' = [io_array EXCEPT !.end = e + 1]
    BY <1>2 DEF MovesEnd
  <2>2. e \in Nat
    BY DEF Typed, ArrayType, OwnType
  <2>3. io_array' \in ArrayType
    <3>1. e + 1 \in Nat
      BY <2>2
    <3>2. [io_array EXCEPT !.end = e + 1] \in ArrayType
      BY <3>1 DEF Typed, ArrayType
    <3>3. QED
      BY <2>1, <3>2
  <2>4. own' \in [Threads -> OwnType]
    BY <1>2, OwnFields DEF MovesEnd, Typed
  <2>5. pc' \in [Threads -> Labels]
    BY <1>2 DEF Typed, MovesEnd, Goto, Labels, WorkerLabels, UserLabels,
             MainLabels, AcceptorLabels
  <2>6. QED
    BY <1>2, <2>1, <2>2, <2>3, <2>4, <2>5 DEF Typed, MovesEnd
<1>3. ASSUME NEW w \in Workers, Exits(w) PROVE Typed'
    BY <1>3 DEF Exits, Goto, At, Typed, Placed, Busy, Labels, WorkerLabels, UserLabels,
        MainLabels, AcceptorLabels
<1>4. ASSUME NEW w \in Workers, Notifies(w) PROVE Typed'
  <2>1. own[w].conn \in Conns
    BY <1>4 DEF Notifies, At, Placed, Busy
  <2>2. sock' \in [Conns -> SocketType]
    <3>1. [sock[own[w].conn] EXCEPT !.registered = FALSE, !.notified = TRUE] \in SocketType
      BY <1>4, <2>1, SocketFields DEF Typed
    <3>2. sock' = [sock EXCEPT ![own[w].conn] =
                     [sock[own[w].conn] EXCEPT !.registered = FALSE, !.notified = TRUE]]
      BY <1>4, <2>1 DEF Notifies
    <3>3. QED
      BY <1>4, <2>1, <3>1, <3>2 DEF Typed
  <2>3. own' \in [Threads -> OwnType]
    BY <1>4, OwnFields DEF Notifies, Typed
  <2>4. pc' \in [Threads -> Labels]
    BY <1>4 DEF Typed, Notifies, Goto, Labels, WorkerLabels, UserLabels,
             MainLabels, AcceptorLabels
  <2>5. QED
    BY <1>4, <2>1, <2>2, <2>3, <2>4 DEF Typed, Notifies
<1>5. ASSUME NEW t \in Workers \cup {User}, ReadsHandle(t) PROVE Typed'
  <2>1. own[t].conn \in Conns /\ t \in Threads
    BY <1>5 DEF ReadsHandle, At, Placed, Busy
  <2>2. own' \in [Threads -> OwnType]
    <3>0. sock[own[t].conn].handle \in Handles \cup {INVALID}
      BY <2>1 DEF Typed, SocketType
    <3>1. [own[t] EXCEPT !.handle = sock[own[t].conn].handle] \in OwnType
      BY <1>5, <2>1, <3>0, OwnFields DEF Typed
    <3>2. own' = [own EXCEPT ![t] = [own[t] EXCEPT !.handle = sock[own[t].conn].handle]]
      BY <1>5, <2>1 DEF ReadsHandle
    <3>3. QED
      BY <1>5, <2>1, <3>1, <3>2 DEF Typed
  <2>3. pc' \in [Threads -> Labels]
    BY <1>5 DEF Typed, ReadsHandle, Goto, Labels, WorkerLabels, UserLabels,
             MainLabels, AcceptorLabels
  <2>4. hist' \in HistoryType
    BY <1>5 DEF Typed, ReadsHandle, HistoryType
  <2>5. QED
    BY <1>5, <2>1, <2>2, <2>3, <2>4 DEF Typed, ReadsHandle
<1>6. ASSUME NEW t \in Workers \cup {User}, ClosesHandle(t) PROVE Typed'
  <2>1. own[t].conn \in Conns /\ t \in Threads
    BY <1>6 DEF ClosesHandle, At, Placed, Busy
  <2>2. owner' \in [Handles -> Conns \cup {NoConn}]
    BY <1>6 DEF Typed, ClosesHandle
  <2>3. hist' \in HistoryType
    BY <1>6 DEF Typed, ClosesHandle, HistoryType
  <2>4. pc' \in [Threads -> Labels]
    BY <1>6 DEF Typed, ClosesHandle, Goto, Labels, WorkerLabels, UserLabels,
             MainLabels, AcceptorLabels
  <2>5. QED
    BY <1>6, <2>1, <2>2, <2>3, <2>4 DEF Typed, ClosesHandle
<1>7. ASSUME NEW t \in Workers \cup {User}, Marks(t) PROVE Typed'
  <2>1. own[t].conn \in Conns /\ t \in Threads
    BY <1>7 DEF Marks, At, Placed, Busy
  <2>2. sock' \in [Conns -> SocketType]
    <3>1. [sock[own[t].conn] EXCEPT !.handle = INVALID] \in SocketType
      BY <1>7, <2>1, SocketFields DEF Typed
    <3>2. sock' = [sock EXCEPT ![own[t].conn] = [sock[own[t].conn] EXCEPT !.handle = INVALID]]
      BY <1>7, <2>1 DEF Marks
    <3>3. QED
      BY <1>7, <2>1, <3>1, <3>2 DEF Typed
  <2>3. own[t].then \in Labels
    BY <1>7 DEF Marks, At, Placed, Labels, WorkerLabels, UserLabels
  <2>4. pc' \in [Threads -> Labels]
    BY <1>7, <2>1, <2>3 DEF Typed, Marks, Goto
  <2>5. QED
    BY <1>7, <2>1, <2>2, <2>3, <2>4 DEF Typed, Marks
<1>8. ASSUME NEW t \in Workers \cup {User}, Unlocks(t) PROVE Typed'
  <2>1. own[t].conn \in Conns /\ t \in Threads
    BY <1>8 DEF Unlocks, At, Placed, Busy
  <2>2. lock' \in [Conns -> Threads \cup {NoThread}]
    BY <1>8 DEF Typed, Unlocks
  <2>3. own' \in [Threads -> OwnType]
    BY <1>8, OwnFields DEF Typed, Unlocks
  <2>4. pc' \in [Threads -> Labels]
    BY <1>8 DEF Typed, Unlocks, Home, Goto, Labels, WorkerLabels, UserLabels,
             MainLabels, AcceptorLabels
  <2>5. QED
    BY <1>8, <2>1, <2>2, <2>3, <2>4 DEF Typed, Unlocks
<1>9. ASSUME NEW w \in Workers, NEW c \in Conns, TakesData(w, c) PROVE Typed'
    BY <1>9, ReceivingTyped DEF Typed, TakesData
<1>10. ASSUME NEW w \in Workers, NEW c \in Conns, TakesEnd(w, c) PROVE Typed'
  <2>1. read' \in [Conns -> RequestType]
    BY <1>10 DEF Typed, TakesEnd, RequestType, NoRequest
  <2>2. sock' \in [Conns -> SocketType]
    <3>1. [sock[c] EXCEPT !.connected = FALSE] \in SocketType
      BY <1>10, SocketFields DEF Typed
    <3>2. sock' = [sock EXCEPT ![c] = [sock[c] EXCEPT !.connected = FALSE]]
      BY <1>10 DEF TakesEnd
    <3>3. QED
      BY <1>10, <3>1, <3>2 DEF Typed
  <2>3. own' \in [Threads -> OwnType] /\ pc' \in [Threads -> Labels]
    <3>1. CASE BeginsClosing(w, c, "notify")
      BY <3>1, BeginsClosingTyped
    <3>2. CASE ~BeginsClosing(w, c, "notify")
      <4>1. own' = [own EXCEPT ![w] = [own[w] EXCEPT !.conn = c]]
        BY <1>10, <3>2 DEF TakesEnd
      <4>2. [own[w] EXCEPT !.conn = c] \in OwnType
        BY OwnFields DEF Typed
      <4>3. pc' \in [Threads -> Labels]
        BY <1>10, <3>2 DEF Typed, TakesEnd, Goto, Labels, WorkerLabels
      <4>4. QED
        BY <4>1, <4>2, <4>3 DEF Typed
    <3>3. QED
      BY <3>1, <3>2
  <2>4. QED
    BY <1>10, <2>1, <2>2, <2>3 DEF Typed, TakesEnd
<1>11. ASSUME NEW w \in Workers, NEW c \in Conns, TakesSent(w, c) PROVE Typed'
  <2> DEFINE rest == sock[c].queued - write[c].n
  <2>1. rest \in Nat
    BY <1>11 DEF TakesSent, Polls, FrontQueued, Typed, SocketType, RequestType
  <2> HIDE DEF rest
  <2>2. /\ sock' = [sock EXCEPT ![c].queued = rest]
        /\ \/ rest > 0 /\ Sending(c, rest) /\ UNCHANGED <<pc, own, lock>>
           \/ /\ write' = [write EXCEPT ![c] = NoRequest]
              /\ UNCHANGED hist
              /\ \/ BeginsClosing(w, c, "unlock") /\ lock' = [lock EXCEPT ![c] = w]
                 \/ UNCHANGED <<pc, own, lock>>
    BY <1>11 DEF TakesSent, rest
  <2>3. sock' \in [Conns -> SocketType]
    <3>1. [sock[c] EXCEPT !.queued = rest] \in SocketType
      <4>1. rest \in Int /\ sock[c] \in SocketType
        BY <2>1 DEF Typed
      <4>2. QED
        BY <4>1, SocketFields
    <3>2. sock' = [sock EXCEPT ![c] = [sock[c] EXCEPT !.queued = rest]]
      BY <2>2
    <3>3. QED
      BY <3>1, <3>2 DEF Typed
  <2>4. NoRequest \in RequestType
    BY DEF NoRequest, RequestType
  <2>5. write' \in [Conns -> RequestType] /\ hist' \in HistoryType
    <3>1. CASE rest > 0 /\ Sending(c, rest)
      BY <2>1, <3>1, SendingTyped
    <3>2. CASE write' = [write EXCEPT ![c] = NoRequest] /\ UNCHANGED hist
      BY <2>4, <3>2 DEF Typed
    <3>3. QED
      BY <2>2, <3>1, <3>2
  <2>6. own' \in [Threads -> OwnType] /\ pc' \in [Threads -> Labels]
    BY <2>2, BeginsClosingTyped DEF Typed
  <2>7. lock' \in [Conns -> Threads \cup {NoThread}]
    BY <2>2 DEF Typed
  <2>8. QED
    BY <1>11, <2>3, <2>5, <2>6, <2>7 DEF Typed, TakesSent
<1>12. ASSUME ActivateFlag PROVE Typed'
  <2>1. Activating \in Conns
    BY <1>12 DEF ActivateFlag, At, Placed, Busy, Activating
  <2>2. sock' \in [Conns -> SocketType]
    <3>1. [sock[Activating] EXCEPT !.connected = TRUE] \in SocketType
      BY <1>12, <2>1, SocketFields DEF Typed
    <3>2. sock' = [sock EXCEPT ![Activating] = [sock[Activating] EXCEPT !.connected = TRUE]]
      BY <1>12, <2>1 DEF ActivateFlag
    <3>3. QED
      BY <1>12, <2>1, <3>1, <3>2 DEF Typed
  <2>3. pc' \in [Threads -> Labels]
    BY <1>12 DEF Typed, ActivateFlag, Goto, Labels, WorkerLabels, UserLabels,
             MainLabels, AcceptorLabels
  <2>4. QED
    BY <1>12, <2>1, <2>2, <2>3 DEF Typed, ActivateFlag
<1>13. ASSUME ActivateAssign PROVE Typed'
  <2>1. Activating \in Conns
    BY <1>13 DEF ActivateAssign, At, Placed, Busy, Activating
  <2>2. sock' \in [Conns -> SocketType]
    <3>1. [sock[Activating] EXCEPT !.assigned = TRUE] \in SocketType
      BY <1>13, <2>1, SocketFields DEF Typed
    <3>2. sock' = [sock EXCEPT ![Activating] = [sock[Activating] EXCEPT !.assigned = TRUE]]
      BY <1>13, <2>1 DEF ActivateAssign
    <3>3. QED
      BY <1>13, <2>1, <3>1, <3>2 DEF Typed
  <2>3. pc' \in [Threads -> Labels]
    BY <1>13 DEF Typed, ActivateAssign, Goto, Labels, WorkerLabels, UserLabels,
             MainLabels, AcceptorLabels
  <2>4. QED
    BY <1>13, <2>1, <2>2, <2>3 DEF Typed, ActivateAssign
<1>14. ASSUME ActivateQueue PROVE Typed'
  <2>1. Activating \in Conns
    BY <1>14 DEF ActivateQueue, At, Placed, Busy, Activating
  <2>2. sock' \in [Conns -> SocketType]
    <3>1. CASE UNCHANGED sock
      BY <3>1 DEF Typed
    <3>2. CASE ~UNCHANGED sock
      <4>1. PICK v, u \in Workers :
               sock' = [sock EXCEPT ![Activating].recv = v, ![Activating].send = u,
                                    ![Activating].registered = TRUE]
        BY <1>14, <3>2 DEF ActivateQueue
      <4>2. [sock[Activating] EXCEPT !.recv = v, !.send = u, !.registered = TRUE]
               \in SocketType
        BY <2>1, SocketFields DEF Typed
      <4>3. sock' = [sock EXCEPT ![Activating] =
                       [sock[Activating] EXCEPT !.recv = v, !.send = u, !.registered = TRUE]]
        BY <2>1, <4>1 DEF Typed
      <4>4. QED
        BY <2>1, <4>2, <4>3 DEF Typed
    <3>3. QED
      BY <3>1, <3>2
  <2>3. pc' \in [Threads -> Labels]
    BY <1>14 DEF Typed, ActivateQueue, Goto, Labels, WorkerLabels, UserLabels,
             MainLabels, AcceptorLabels
  <2>4. QED
    BY <1>14, <2>1, <2>2, <2>3 DEF Typed, ActivateQueue
<1>15. ASSUME ActivateReceive PROVE Typed'
  <2>1. Activating \in Conns
    BY <1>15 DEF ActivateReceive, At, Placed, Busy, Activating
  <2>2. read' \in [Conns -> RequestType]
    BY <1>15, ReceivingTyped DEF Typed, ActivateReceive
  <2>3. own' \in [Threads -> OwnType]
    BY <1>15, OwnFields DEF Typed, ActivateReceive
  <2>4. pc' \in [Threads -> Labels]
    BY <1>15 DEF Typed, ActivateReceive, Goto, Labels, WorkerLabels, UserLabels,
             MainLabels, AcceptorLabels
  <2>5. QED
    BY <1>15, <2>1, <2>2, <2>3, <2>4 DEF Typed, ActivateReceive
<1>16. ASSUME RunReturns PROVE Typed'
    BY <1>16 DEF RunReturns, Goto, At, Typed, Placed, Busy, Labels, WorkerLabels,
        UserLabels, MainLabels, AcceptorLabels
<1>17. ASSUME ServerStops PROVE Typed'
    BY <1>17 DEF ServerStops, Goto, At, Typed, Placed, Busy, Labels, WorkerLabels,
        UserLabels, MainLabels, AcceptorLabels
<1>29. ASSUME AcceptorJoins PROVE Typed'
    BY <1>29 DEF AcceptorJoins, Goto, At, Typed, Placed, Busy, Labels, WorkerLabels,
        UserLabels, MainLabels, AcceptorLabels
<1>18. ASSUME ServiceStops PROVE Typed'
  <2>1. [io_array EXCEPT !.end = 0] \in ArrayType
    BY DEF Typed, ArrayType
  <2>2. io_array' \in ArrayType
    BY <1>18, <2>1 DEF ServiceStops
  <2>3. pc' \in [Threads -> Labels]
    BY <1>18 DEF Typed, ServiceStops, Goto, Labels, WorkerLabels, UserLabels,
             MainLabels, AcceptorLabels
  <2>4. QED
    BY <1>18, <2>1, <2>2, <2>3 DEF Typed, ServiceStops
<1>19. ASSUME Joins PROVE Typed'
    BY <1>19 DEF Joins, Goto, At, Typed, Placed, Busy, Labels, WorkerLabels, UserLabels,
        MainLabels, AcceptorLabels
<1>20. ASSUME NEW c \in Conns, Accepts(c) PROVE Typed'
  <2>1. PICK h \in Handles : /\ owner' = [owner EXCEPT ![h] = c]
                            /\ sock' = [sock EXCEPT ![c].handle = h]
    BY <1>20 DEF Accepts
  <2>2. owner' \in [Handles -> Conns \cup {NoConn}]
    BY <2>1 DEF Typed
  <2>3. sock' \in [Conns -> SocketType]
    <3>1. [sock[c] EXCEPT !.handle = h] \in SocketType
      BY SocketFields DEF Typed
    <3>2. sock' = [sock EXCEPT ![c] = [sock[c] EXCEPT !.handle = h]]
      BY <2>1
    <3>3. QED
      BY <3>1, <3>2 DEF Typed
  <2>4. peer' \in [Conns -> {"away", "there", "gone"}]
    BY <1>20 DEF Typed, Accepts
  <2>5. own' \in [Threads -> OwnType]
    <3>1. [own[Acceptor] EXCEPT !.conn = c] \in OwnType
      BY <1>20, OwnFields DEF Typed
    <3>2. own' = [own EXCEPT ![Acceptor] = [own[Acceptor] EXCEPT !.conn = c]]
      BY <1>20 DEF Accepts
    <3>3. QED
      BY <1>20, <3>1, <3>2 DEF Typed
  <2>6. pc' \in [Threads -> Labels]
    BY <1>20 DEF Typed, Accepts, Goto, Labels, WorkerLabels, UserLabels,
             MainLabels, AcceptorLabels
  <2>7. QED
    BY <1>20, <2>1, <2>2, <2>3, <2>4, <2>5, <2>6 DEF Typed, Accepts
<1>21. ASSUME NEW c \in Conns, KernelReceives(c) PROVE Typed'
  <2>1. \A n \in {0, 1} : [st |-> "done", n |-> n] \in RequestType
    BY DEF RequestType
  <2>2. read' \in [Conns -> RequestType]
    BY <1>21, <2>1 DEF Typed, KernelReceives
  <2>3. [hist EXCEPT !.data = hist.data + 1] \in HistoryType
    BY HistoryFields DEF Typed
  <2>4. hist' \in HistoryType
    BY <1>21, <2>3 DEF Typed, KernelReceives
  <2>5. QED
    BY <1>21, <2>2, <2>4 DEF Typed, KernelReceives
<1>22. ASSUME NEW c \in Conns, KernelSends(c) PROVE Typed'
  <2>1. ASSUME NEW n \in {write[c].n, 0}
        PROVE  [write[c] EXCEPT !.st = "done", !.n = n] \in RequestType
    <3>1. n \in Nat /\ write[c] \in RequestType
      BY DEF Typed, RequestType
    <3>2. QED
      BY <3>1 DEF RequestType
  <2>2. PICK n \in {write[c].n, 0} :
           write' = [write EXCEPT ![c] = [write[c] EXCEPT !.st = "done", !.n = n]]
    BY <1>22 DEF KernelSends
  <2>3. write' \in [Conns -> RequestType]
    BY <2>1, <2>2 DEF Typed
  <2>4. QED
    BY <1>22, <2>3 DEF Typed, KernelSends
<1>23. ASSUME NEW c \in Conns, PeerLeaves(c) PROVE Typed'
    BY <1>23 DEF PeerLeaves, Typed, Placed, Busy, Labels, WorkerLabels, UserLabels,
        MainLabels, AcceptorLabels
<1>24. ASSUME NEW c \in Conns, CloseForce(c) PROVE Typed'
  <2>1. [hist EXCEPT !.calls = hist.calls + 1] \in HistoryType
    BY HistoryFields DEF Typed
  <2>2. own' \in [Threads -> OwnType] /\ pc' \in [Threads -> Labels]
    BY <1>24, BeginsClosingTyped DEF CloseForce
  <2>3. hist' \in HistoryType
    BY <1>24, <2>1 DEF CloseForce
  <2>4. QED
    BY <1>24, <2>2, <2>3 DEF Typed, CloseForce
<1>25. ASSUME NEW c \in Conns, CloseGraceful(c) PROVE Typed'
  <2>1. [hist EXCEPT !.calls = hist.calls + 1] \in HistoryType
    BY HistoryFields DEF Typed
  <2>2. \/ /\ BeginsClosing(User, c, "unlock") /\ UNCHANGED sock
           /\ lock' = [lock EXCEPT ![c] = User]
        \/ sock' = [sock EXCEPT ![c].graceful = TRUE] /\ UNCHANGED <<pc, own, lock>>
    BY <1>25 DEF CloseGraceful
  <2>3. own' \in [Threads -> OwnType] /\ pc' \in [Threads -> Labels]
    BY <2>2, BeginsClosingTyped DEF Typed
  <2>4. lock' \in [Conns -> Threads \cup {NoThread}]
    BY <2>2 DEF Typed
  <2>5. [sock[c] EXCEPT !.graceful = TRUE] \in SocketType
    BY SocketFields DEF Typed
  <2>6. sock' \in {sock, [sock EXCEPT ![c] = [sock[c] EXCEPT !.graceful = TRUE]]}
    BY <2>2
  <2>7. sock' \in [Conns -> SocketType]
    BY <2>5, <2>6 DEF Typed
  <2>8. hist' \in HistoryType
    BY <1>25, <2>1 DEF CloseGraceful
  <2>9. QED
    BY <1>25, <2>3, <2>4, <2>7, <2>8 DEF Typed, CloseGraceful
<1>26. ASSUME NEW c \in Conns, Sends(c) PROVE Typed'
  <2>1. [hist EXCEPT !.calls = hist.calls + 1] \in HistoryType
    BY HistoryFields DEF Typed
  <2>2. sock[c].queued \in Nat /\ sock[c].queued + 1 \in Int
    <3>1. sock[c] \in SocketType /\ sock[c].queued >= 0
      BY DEF Typed, FrontQueued
    <3>2. sock[c].queued \in Nat
      BY <3>1 DEF SocketType
    <3>3. QED
      BY <3>2
  <2>3. sock' \in [Conns -> SocketType]
    <3>1. [sock[c] EXCEPT !.queued = sock[c].queued + 1] \in SocketType
      BY <1>26, <2>2, SocketFields DEF Typed
    <3>2. sock' = [sock EXCEPT ![c] = [sock[c] EXCEPT !.queued = sock[c].queued + 1]]
      BY <1>26 DEF Sends
    <3>3. QED
      BY <1>26, <3>1, <3>2 DEF Typed
  <2>4. write' \in [Conns -> RequestType] /\ hist' \in HistoryType
    <3>1. CASE sock[c].queued = 0
      BY <1>26, <3>1, SendingTyped DEF Sends
    <3>2. CASE sock[c].queued # 0
      BY <1>26, <2>1, <3>2 DEF Typed, Sends
    <3>3. QED
      BY <3>1, <3>2
  <2>5. QED
    BY <1>26, <2>3, <2>4 DEF Typed, Sends
<1>27. ASSUME NEW c \in Conns, SendSpins(c) PROVE Typed'
    BY <1>27 DEF SendSpins, MaySend, Calls, Goto, At, Typed, Placed, Busy, Labels,
        WorkerLabels, UserLabels, MainLabels, AcceptorLabels
<1>28. QED BY <1>1, <1>2, <1>3, <1>4, <1>5, <1>6, <1>7, <1>8, <1>9, <1>10, <1>11, <1>12,
        <1>13, <1>14, <1>15, <1>16, <1>17, <1>18, <1>19, <1>20, <1>21, <1>22, <1>23, <1>24,
        <1>25, <1>26, <1>27, <1>29
      DEF Next, Runs, Closing, Activates, Kernel

\* Threads go from label to label of their code, carry connections that were accepted, and
\* nothing is done to one before WSAAccept returns it.
LEMMA PlacedKept == ASSUME Typed, Placed, FrontQueued, Next PROVE Placed'
<1>1. ASSUME NEW w \in Workers, Appends(w) PROVE Placed'
    BY <1>1 DEF Appends, Goto, At, Typed, Placed, Busy, Known, WorkerLabels, UserLabels,
        MainLabels, AcceptorLabels, OwnType
<1>2. ASSUME NEW w \in Workers, MovesEnd(w) PROVE Placed'
    BY <1>2 DEF MovesEnd, Goto, At, Typed, Placed, Busy, Known, WorkerLabels, UserLabels,
        MainLabels, AcceptorLabels, OwnType
<1>3. ASSUME NEW w \in Workers, Exits(w) PROVE Placed'
    BY <1>3 DEF Exits, Goto, At, Typed, Placed, Busy, Known, WorkerLabels, UserLabels,
        MainLabels, AcceptorLabels, OwnType
<1>4. ASSUME NEW w \in Workers, Notifies(w) PROVE Placed'
    BY <1>4 DEF Notifies, Goto, At, Typed, Placed, Busy, Known, WorkerLabels, UserLabels,
        MainLabels, AcceptorLabels, OwnType
<1>5. ASSUME NEW t \in Workers \cup {User}, ReadsHandle(t) PROVE Placed'
    BY <1>5 DEF ReadsHandle, Goto, At, Typed, Placed, Busy, Known, WorkerLabels,
        UserLabels, MainLabels, AcceptorLabels, OwnType
<1>6. ASSUME NEW t \in Workers \cup {User}, ClosesHandle(t) PROVE Placed'
    BY <1>6 DEF ClosesHandle, Goto, At, Typed, Placed, Busy, Known, WorkerLabels,
        UserLabels, MainLabels, AcceptorLabels, OwnType
<1>7. ASSUME NEW t \in Workers \cup {User}, Marks(t) PROVE Placed'
    BY <1>7 DEF Marks, Goto, At, Typed, Placed, Busy, Known, WorkerLabels, UserLabels,
        MainLabels, AcceptorLabels, OwnType
<1>8. ASSUME NEW t \in Workers \cup {User}, Unlocks(t) PROVE Placed'
    BY <1>8 DEF Unlocks, Home, Goto, At, Typed, Placed, Busy, Known, WorkerLabels,
        UserLabels, MainLabels, AcceptorLabels, OwnType
<1>9. ASSUME NEW w \in Workers, NEW c \in Conns, TakesData(w, c) PROVE Placed'
  <2>1. Known(c)
    BY <1>9 DEF TakesData, Polls, Placed, NoRequest
  <2>2. \A d \in Conns \ {c} : read'[d] = read[d]
    BY <1>9 DEF TakesData, Typed
  <2>3. QED
    BY <1>9, <2>1, <2>2 DEF TakesData, Placed, Busy, Known
<1>10. ASSUME NEW w \in Workers, NEW c \in Conns, TakesEnd(w, c) PROVE Placed'
  <2>1. Known(c)
    BY <1>10 DEF TakesEnd, Polls, Placed, NoRequest
  <2>2. /\ \A d \in Conns \ {c} : read'[d] = read[d] /\ sock'[d] = sock[d]
        /\ UNCHANGED <<write, peer>>
    BY <1>10 DEF TakesEnd, Typed
  <2>3. /\ own'[w].conn = c
        /\ pc'[w] = "notify" \/ (pc'[w] = "handle" /\ own'[w].then = "notify")
    <3>1. CASE BeginsClosing(w, c, "notify")
      BY <3>1, BeginsClosingTyped
    <3>2. CASE ~BeginsClosing(w, c, "notify")
      BY <1>10, <3>2 DEF TakesEnd, Goto, Typed, OwnType
    <3>3. QED
      BY <3>1, <3>2
  <2>4. \A t \in Threads \ {w} : own'[t] = own[t] /\ pc'[t] = pc[t]
    BY <1>10 DEF TakesEnd, BeginsClosing, Goto, Typed
  <2>5. QED
    BY <2>1, <2>2, <2>3, <2>4 DEF Placed, Busy, Known, WorkerLabels
<1>11. ASSUME NEW w \in Workers, NEW c \in Conns, TakesSent(w, c) PROVE Placed'
  <2>1. Known(c)
    BY <1>11 DEF TakesSent, Polls, Placed, NoRequest
  <2>2. /\ \A d \in Conns \ {c} : write'[d] = write[d] /\ sock'[d] = sock[d]
        /\ UNCHANGED <<read, peer>>
    BY <1>11 DEF TakesSent, Sending, Typed
  <2>3. \/ pc' = pc /\ own' = own
        \/ /\ own'[w].conn = c /\ pc'[w] = "handle" /\ own'[w].then = "unlock"
           /\ \A t \in Threads \ {w} : own'[t] = own[t] /\ pc'[t] = pc[t]
    BY <1>11, BeginsClosingTyped DEF TakesSent
  <2>4. QED
    BY <2>1, <2>2, <2>3 DEF Placed, Busy, Known, WorkerLabels
<1>12. ASSUME ActivateFlag PROVE Placed'
    BY <1>12 DEF ActivateFlag, Activating, Goto, At, Typed, Placed, Busy, Known,
        WorkerLabels, UserLabels, MainLabels, AcceptorLabels, OwnType
<1>13. ASSUME ActivateAssign PROVE Placed'
    BY <1>13 DEF ActivateAssign, Activating, Goto, At, Typed, Placed, Busy, Known,
        WorkerLabels, UserLabels, MainLabels, AcceptorLabels, OwnType
<1>14. ASSUME ActivateQueue PROVE Placed'
  <2>1. Activating \in Conns /\ Known(Activating)
    BY <1>14 DEF ActivateQueue, At, Activating, Placed, Busy
  <2>2. \A d \in Conns : sock'[d].handle = sock[d].handle
    <3>1. \A d \in Conns \ {Activating} : sock'[d] = sock[d]
      BY <1>14 DEF ActivateQueue, Typed
    <3>2. sock'[Activating].handle = sock[Activating].handle
      <4>1. CASE UNCHANGED sock
        BY <4>1
      <4>2. CASE ~UNCHANGED sock
        <5>1. PICK v, u \in Workers :
                 sock' = [sock EXCEPT ![Activating].recv = v, ![Activating].send = u,
                                      ![Activating].registered = TRUE]
          BY <1>14, <4>2 DEF ActivateQueue
        <5>2. sock[Activating] \in SocketType
          BY <2>1 DEF Typed
        <5>3. QED
          BY <2>1, <5>1, <5>2 DEF Typed, SocketType
      <4>3. QED
        BY <4>1, <4>2
    <3>3. QED
      BY <3>1, <3>2
  <2>3. /\ \A t \in Threads \ {Acceptor} : pc'[t] = pc[t]
        /\ pc[Acceptor] = "queue" /\ pc'[Acceptor] = "receive"
    BY <1>14 DEF ActivateQueue, At, Goto, Typed
  <2>4. UNCHANGED <<own, read, write, peer>>
    BY <1>14 DEF ActivateQueue
  <2>5. QED
    BY <2>2, <2>3, <2>4 DEF Placed, Busy, Known, AcceptorLabels
<1>15. ASSUME ActivateReceive PROVE Placed'
    BY <1>15 DEF ActivateReceive, Receiving, Activating, Goto, At, Typed, Placed, Busy,
        Known, WorkerLabels, UserLabels, MainLabels, AcceptorLabels, OwnType
<1>16. ASSUME RunReturns PROVE Placed'
    BY <1>16 DEF RunReturns, Goto, At, Typed, Placed, Busy, Known, WorkerLabels,
        UserLabels, MainLabels, AcceptorLabels, OwnType
<1>17. ASSUME ServerStops PROVE Placed'
    BY <1>17 DEF ServerStops, Goto, At, Typed, Placed, Busy, Known, WorkerLabels,
        UserLabels, MainLabels, AcceptorLabels, OwnType
<1>29. ASSUME AcceptorJoins PROVE Placed'
    BY <1>29 DEF AcceptorJoins, Goto, At, Typed, Placed, Busy, Known, WorkerLabels,
        UserLabels, MainLabels, AcceptorLabels, OwnType
<1>18. ASSUME ServiceStops PROVE Placed'
    BY <1>18 DEF ServiceStops, Goto, At, Typed, Placed, Busy, Known, WorkerLabels,
        UserLabels, MainLabels, AcceptorLabels, OwnType
<1>19. ASSUME Joins PROVE Placed'
    BY <1>19 DEF Joins, Goto, At, Typed, Placed, Busy, Known, WorkerLabels, UserLabels,
        MainLabels, AcceptorLabels, OwnType
<1>20. ASSUME NEW c \in Conns, Accepts(c) PROVE Placed'
    BY <1>20 DEF Accepts, Goto, At, Typed, Placed, Busy, Known, WorkerLabels, UserLabels,
        MainLabels, AcceptorLabels, OwnType
<1>21. ASSUME NEW c \in Conns, KernelReceives(c) PROVE Placed'
  <2>1. Known(c)
    BY <1>21 DEF KernelReceives, Placed, NoRequest
  <2>2. \A d \in Conns \ {c} : read'[d] = read[d]
    BY <1>21 DEF KernelReceives, Typed
  <2>3. QED
    BY <1>21, <2>1, <2>2 DEF KernelReceives, Placed, Busy, Known
<1>22. ASSUME NEW c \in Conns, KernelSends(c) PROVE Placed'
  <2>1. Known(c)
    BY <1>22 DEF KernelSends, Placed, NoRequest
  <2>2. \A d \in Conns \ {c} : write'[d] = write[d]
    BY <1>22 DEF KernelSends, Typed
  <2>3. QED
    BY <1>22, <2>1, <2>2 DEF KernelSends, Placed, Busy, Known
<1>23. ASSUME NEW c \in Conns, PeerLeaves(c) PROVE Placed'
    BY <1>23 DEF PeerLeaves, Typed, Placed, Busy, Known, WorkerLabels, UserLabels,
        MainLabels, AcceptorLabels, OwnType
<1>24. ASSUME NEW c \in Conns, CloseForce(c) PROVE Placed'
    BY <1>24 DEF CloseForce, BeginsClosing, Calls, Goto, At, Typed, Placed, Busy, Known,
        WorkerLabels, UserLabels, MainLabels, AcceptorLabels, OwnType
<1>25. ASSUME NEW c \in Conns, CloseGraceful(c) PROVE Placed'
  <2>1. Known(c) /\ pc[User] = "idle" /\ UNCHANGED <<read, write, peer>>
    BY <1>25 DEF CloseGraceful, Calls, At
  <2>2. \A d \in Conns : sock'[d].handle = sock[d].handle
    <3>1. \A d \in Conns \ {c} : sock'[d] = sock[d]
      BY <1>25 DEF CloseGraceful, Typed
    <3>2. sock[c] \in SocketType
      BY DEF Typed
    <3>3. sock'[c].handle = sock[c].handle
      BY <1>25, <3>2 DEF CloseGraceful, Typed, SocketType
    <3>4. QED
      BY <3>1, <3>3
  <2>3. \/ pc' = pc /\ own' = own
        \/ /\ own'[User].conn = c /\ pc'[User] = "handle" /\ own'[User].then = "unlock"
           /\ \A t \in Threads \ {User} : own'[t] = own[t] /\ pc'[t] = pc[t]
    BY <1>25, BeginsClosingTyped DEF CloseGraceful
  <2>4. QED
    BY <2>1, <2>2, <2>3 DEF Placed, Busy, Known, UserLabels
<1>26. ASSUME NEW c \in Conns, Sends(c) PROVE Placed'
    BY <1>26 DEF Sends, Sending, MaySend, Calls, Typed, Placed, Busy, Known, WorkerLabels,
        UserLabels, MainLabels, AcceptorLabels, OwnType
<1>27. ASSUME NEW c \in Conns, SendSpins(c) PROVE Placed'
    BY <1>27 DEF SendSpins, MaySend, Calls, Goto, At, Typed, Placed, Busy, Known,
        WorkerLabels, UserLabels, MainLabels, AcceptorLabels, OwnType
<1>28. QED BY <1>1, <1>2, <1>3, <1>4, <1>5, <1>6, <1>7, <1>8, <1>9, <1>10, <1>11, <1>12,
        <1>13, <1>14, <1>15, <1>16, <1>17, <1>18, <1>19, <1>20, <1>21, <1>22, <1>23, <1>24,
        <1>25, <1>26, <1>27, <1>29
      DEF Next, Runs, Closing, Activates, Kernel

-----------------------------------------------------------------------------
(* push_back of the workers (io_service.cpp).                              *)

\* Counting the workers that are out of push_back.
LEMMA PastCounts ==
    /\ Past \subseteq Workers
    /\ Cardinality(Past) \in Nat /\ Cardinality(Workers) \in Nat
    /\ Cardinality(Past) >= Cardinality(Workers) => Past = Workers
    /\ \A w \in Workers \ Past : /\ Cardinality(Past \cup {w}) = Cardinality(Past) + 1
                                 /\ Cardinality(Past) + 1 <= Cardinality(Workers)
<1>1. Past \subseteq Workers
  BY DEF Past
<1>2. IsFiniteSet(Past) /\ Cardinality(Past) <= Cardinality(Workers)
  BY <1>1, FS_Subset
<1>3. Cardinality(Past) = Cardinality(Workers) => Past = Workers
  BY <1>1, FS_Subset
<1>4. Cardinality(Past) \in Nat /\ Cardinality(Workers) \in Nat
  BY <1>2, FS_CardinalityType
<1>5. ASSUME NEW w \in Workers \ Past
      PROVE  /\ Cardinality(Past \cup {w}) = Cardinality(Past) + 1
             /\ Cardinality(Past) + 1 <= Cardinality(Workers)
  <2>1. Cardinality(Past \cup {w}) = Cardinality(Past) + 1
    BY <1>2, <1>5, FS_AddElement
  <2>2. Cardinality(Past \cup {w}) <= Cardinality(Workers)
    <3>1. Past \cup {w} \in SUBSET Workers
      BY <1>1
    <3>2. QED
      BY <3>1, FS_Subset
  <2>3. QED
    BY <2>1, <2>2
<1>6. QED
  BY <1>1, <1>2, <1>3, <1>4, <1>5

\* What the other steps leave alone: io_array, and who is in or out of push_back.
Apart == /\ UNCHANGED <<io_array, running_io, stopped>>
         /\ hist'.raced = hist.raced /\ pc'[Main] = pc[Main]
         /\ \A w \in Workers : pc[w] \in {"create", "append", "gone"} =>
                pc'[w] = pc[w] /\ own'[w] = own[w]
         /\ \A w \in Workers : pc'[w] \in {"create", "append", "gone"} => pc'[w] = pc[w]

\* They keep what is said about it.
LEMMA ApartKeepsQueues == ASSUME Queues, Apart PROVE Queues'
<1>1. Past' = Past
  BY DEF Past, Apart
<1>2. Gathered => Gathered'
  BY <1>1 DEF Gathered, Apart, At
<1>3. Counted => Counted'
  BY <1>1 DEF Counted, Apart, At
<1>4. QED
  BY <1>1, <1>2, <1>3 DEF Queues, Apart

\* RIOCreateCompletionQueue, and the element of push_back.
LEMMA AppendsKeepsQueues ==
    ASSUME Typed, Placed, Queues, NEW w \in Workers, Appends(w)
    PROVE  Queues'
<1>1. /\ pc[w] = "create" /\ pc'[w] = "append"
      /\ \A t \in Threads \ {w} : pc'[t] = pc[t] /\ own'[t] = own[t]
      /\ UNCHANGED <<running_io, stopped>>
  BY DEF Appends, At, Goto, Typed
<1>2. Past' = Past /\ w \notin Past
  BY <1>1 DEF Past
<1>3. pc[Main] = "run" /\ ~stopped
  BY <1>2 DEF Queues
<1>4. own'[w].end = io_array.end
  BY DEF Appends, Typed, OwnType
<1>8. Counted'
  <2>1. Counted /\ io_array.end \in Nat /\ io_array.end + 1 \in 1..Cardinality(Workers)
    BY <1>2, <1>3, PastCounts DEF Queues, Counted, Typed, ArrayType
  <2>2. /\ io_array'.end = io_array.end
        /\ io_array'.slot = [io_array.slot EXCEPT ![io_array.end + 1] = w]
        /\ io_array.slot \in [1..Cardinality(Workers) -> Workers \cup {NoThread}]
    BY DEF Appends, Typed, ArrayType
  <2>0. 1 \in 1..Cardinality(Workers)
    BY <2>1, PastCounts
  <2>3. io_array'.slot[1] \in Workers
    <3>1. CASE io_array.end = 0
      <4>1. io_array'.slot = [io_array.slot EXCEPT ![1] = w]
        BY <2>2, <3>1
      <4>2. QED
        BY <2>0, <2>2, <4>1
    <3>2. CASE io_array.end >= 1
      <4>1. io_array.slot[1] \in Workers /\ 1 # io_array.end + 1
        BY <2>1, <3>2 DEF Counted
      <4>2. QED
        BY <2>0, <2>2, <4>1
    <3>3. QED
      BY <2>1, <3>1, <3>2
  <2>4. \A v \in Workers : pc'[v] = "append" => own'[v].end <= Cardinality(Past)
    BY <1>1, <1>4, <2>1 DEF Counted, At
  <2>5. QED
    BY <1>2, <2>1, <2>2, <2>3, <2>4 DEF Counted, At
<1>5. ASSUME ~hist'.raced PROVE Gathered'
  <2>1. ~hist.raced /\ \A v \in Workers : pc[v] # "append"
    BY <1>5 DEF Appends, Typed, HistoryType, At
  <2>2. Gathered
    BY <1>3, <2>1 DEF Queues
  <2>3. io_array.end \in Nat /\ io_array.end + 1 \in 1..Cardinality(Workers)
    BY <1>2, <2>2, PastCounts DEF Gathered
  <2>4. /\ io_array'.end = io_array.end
        /\ io_array'.slot = [io_array.slot EXCEPT ![io_array.end + 1] = w]
    BY DEF Appends, Typed, ArrayType
  <2>5. /\ io_array'.slot[io_array.end + 1] = w
        /\ \A i \in 1..io_array.end : io_array'.slot[i] = io_array.slot[i]
    <3>1. io_array.slot \in [1..Cardinality(Workers) -> Workers \cup {NoThread}]
      BY DEF Typed, ArrayType
    <3>2. \A i \in 1..io_array.end : i # io_array.end + 1 /\ i \in 1..Cardinality(Workers)
      BY <2>3, PastCounts
    <3>3. QED
      BY <2>3, <2>4, <3>1, <3>2
  <2>6. {io_array'.slot[i] : i \in 1..io_array'.end} = Past'
    BY <1>2, <2>2, <2>4, <2>5 DEF Gathered
  <2>7. \A v \in Workers : pc'[v] = "append" => v = w
    BY <1>1, <2>1
  <2>8. QED
    BY <1>2, <1>4, <2>2, <2>4, <2>5, <2>6, <2>7 DEF Gathered, At
<1>6. \A v \in Workers : pc'[v] # "gone"
  BY <1>1, <1>3 DEF Queues
<1>7. QED
  BY <1>1, <1>2, <1>3, <1>5, <1>6, <1>8 DEF Queues

\* The end of push_back, and ++running_io.
LEMMA MovesEndKeepsQueues ==
    ASSUME Typed, Placed, Queues, NEW w \in Workers, MovesEnd(w)
    PROVE  Queues'
<1>1. /\ pc[w] = "append" /\ pc'[w] = "poll" /\ w \in Threads
      /\ \A t \in Threads \ {w} : pc'[t] = pc[t] /\ own'[t] = own[t]
      /\ running_io' = running_io + 1 /\ stopped' = stopped /\ hist' = hist
  BY DEF MovesEnd, At, Goto, Typed
<1>2. Past' = Past \cup {w} /\ w \in Workers \ Past
  BY <1>1 DEF Past
<1>3. pc[Main] = "run" /\ ~stopped
  BY <1>2 DEF Queues
<1>4. Cardinality(Past') = Cardinality(Past) + 1 /\ Cardinality(Past) \in Nat
  BY <1>2, PastCounts
<1>8. Counted'
  <2>1. PICK e \in {own[w].end, io_array.end} : io_array' = [io_array EXCEPT !.end = e + 1]
    BY DEF MovesEnd
  <2>2. Counted /\ pc[w] = "append" /\ e \in Nat /\ e <= Cardinality(Past)
    BY <1>1, <1>3 DEF Queues, Counted, At, Typed, ArrayType, OwnType
  <2>3. io_array'.end = e + 1 /\ io_array'.slot = io_array.slot
    BY <2>1 DEF Typed, ArrayType
  <2>4. /\ io_array'.end >= 1 /\ io_array'.end <= Cardinality(Past')
        /\ io_array'.slot[1] \in Workers
    BY <1>4, <2>2, <2>3 DEF Counted, At
  <2>5. ASSUME NEW v \in Workers, pc'[v] = "append"
        PROVE  own'[v].end <= Cardinality(Past')
    <3>1. v # w /\ own'[v] = own[v] /\ pc[v] = "append"
      BY <1>1, <2>5
    <3>2. own[v].end \in Nat /\ own[v].end <= Cardinality(Past)
      BY <2>2, <3>1 DEF Counted, At, Typed, OwnType
    <3>3. QED
      BY <1>4, <3>1, <3>2
  <2>6. QED
    BY <2>4, <2>5 DEF Counted, At
<1>5. ASSUME ~hist.raced PROVE Gathered'
  <2>1. Gathered
    BY <1>3, <1>5 DEF Queues
  <2>2. /\ own[w].end = io_array.end /\ io_array.slot[io_array.end + 1] = w
        /\ \A v \in Workers : pc[v] = "append" => v = w
    BY <1>1, <2>1 DEF Gathered, At
  <2>3. io_array'.end = io_array.end + 1 /\ io_array'.slot = io_array.slot
    BY <2>2 DEF MovesEnd, Typed, ArrayType
  <2>4. 1..(io_array.end + 1) = (1..io_array.end) \cup {io_array.end + 1}
    BY <1>4, <2>1 DEF Gathered
  <2>5. {io_array'.slot[i] : i \in 1..io_array'.end} = Past'
    BY <1>2, <2>1, <2>2, <2>3, <2>4 DEF Gathered
  <2>6. \A v \in Workers : pc'[v] # "append"
    BY <1>1, <2>2
  <2>7. QED
    BY <1>4, <2>1, <2>3, <2>5, <2>6 DEF Gathered, At
<1>6. \A v \in Workers : pc'[v] # "gone"
  BY <1>1, <1>3 DEF Queues
<1>7. QED
  BY <1>1, <1>2, <1>3, <1>4, <1>5, <1>6, <1>8 DEF Queues

\* run() and stop(): Main goes on when all workers are out of push_back, and the array is
\* cleared when they are told to end.
LEMMA MainKeepsQueues ==
    ASSUME Typed, Placed, Queues,
           RunReturns \/ ServerStops \/ AcceptorJoins \/ ServiceStops \/ Joins
    PROVE  Queues'
<1>1. /\ \A w \in Workers : pc'[w] = pc[w]
      /\ UNCHANGED <<running_io, own, hist>>
  BY DEF RunReturns, ServerStops, AcceptorJoins, ServiceStops, Joins, Goto, Typed
<1>2. Past' = Past
  BY <1>1 DEF Past
<1>3. CASE RunReturns
  <2>1. ~stopped /\ UNCHANGED <<stopped, io_array>>
    BY <1>3 DEF RunReturns, At, Queues
  <2>2. Past = Workers
    BY <1>3, <2>1, PastCounts DEF Queues, RunReturns
  <2>3. QED
    BY <1>1, <1>2, <2>1, <2>2 DEF Queues, Gathered, Counted, At
<1>4. CASE ServerStops \/ AcceptorJoins
  <2>1. pc[Main] \in {"up", "closed"} /\ UNCHANGED <<stopped, io_array>>
    BY <1>4 DEF ServerStops, AcceptorJoins, At
  <2>2. QED
    BY <1>1, <1>2, <2>1 DEF Queues, Gathered, Counted, At
<1>5. CASE ServiceStops
  <2>1. pc[Main] = "stop" /\ pc'[Main] = "join" /\ stopped'
    BY <1>5 DEF ServiceStops, At, Goto, Typed
  <2>2. QED
    BY <1>2, <2>1 DEF Queues
<1>6. CASE Joins
  <2>1. pc[Main] = "join" /\ pc'[Main] = "down" /\ UNCHANGED <<stopped, io_array>>
    BY <1>6 DEF Joins, At, Goto, Typed
  <2>2. QED
    BY <1>1, <1>2, <2>1 DEF Queues, Gathered, Counted, At
<1>7. QED
  BY <1>3, <1>4, <1>5, <1>6

\* A worker that ends was told to.
LEMMA ExitsKeepsQueues ==
    ASSUME Typed, Placed, Queues, NEW w \in Workers, Exits(w)
    PROVE  Queues'
<1>1. /\ pc[w] = "poll" /\ pc'[w] = "gone" /\ stopped /\ stopped'
      /\ \A t \in Threads \ {w} : pc'[t] = pc[t]
  BY DEF Exits, At, Goto, Typed
<1>2. Past' = Past /\ pc'[Main] = pc[Main]
  BY <1>1 DEF Past
<1>3. QED
  BY <1>1, <1>2 DEF Queues

\* All steps together.
LEMMA QueuesKept == ASSUME Typed, Placed, FrontQueued, Queues, Next PROVE Queues'
<1>1. ASSUME NEW w \in Workers, Appends(w) PROVE Queues'
    BY <1>1, AppendsKeepsQueues
<1>2. ASSUME NEW w \in Workers, MovesEnd(w) PROVE Queues'
    BY <1>2, MovesEndKeepsQueues
<1>3. ASSUME NEW w \in Workers, Exits(w) PROVE Queues'
    BY <1>3, ExitsKeepsQueues
<1>4. ASSUME NEW w \in Workers, Notifies(w) PROVE Queues'
  <2>1. Apart
    BY <1>4 DEF Apart, Notifies, Goto, At, Typed, HistoryType, Placed, Busy
  <2>2. QED
    BY <2>1, ApartKeepsQueues
<1>5. ASSUME NEW t \in Workers \cup {User}, ReadsHandle(t) PROVE Queues'
  <2>1. Apart
    BY <1>5 DEF Apart, ReadsHandle, Goto, At, Typed, HistoryType, Placed, Busy
  <2>2. QED
    BY <2>1, ApartKeepsQueues
<1>6. ASSUME NEW t \in Workers \cup {User}, ClosesHandle(t) PROVE Queues'
  <2>1. Apart
    BY <1>6 DEF Apart, ClosesHandle, Goto, At, Typed, HistoryType, Placed, Busy
  <2>2. QED
    BY <2>1, ApartKeepsQueues
<1>7. ASSUME NEW t \in Workers \cup {User}, Marks(t) PROVE Queues'
  <2>1. Apart
    BY <1>7 DEF Apart, Marks, Goto, At, Typed, HistoryType, Placed, Busy
  <2>2. QED
    BY <2>1, ApartKeepsQueues
<1>8. ASSUME NEW t \in Workers \cup {User}, Unlocks(t) PROVE Queues'
  <2>1. Apart
    BY <1>8 DEF Apart, Unlocks, Home, Goto, At, Typed, HistoryType, Placed, Busy
  <2>2. QED
    BY <2>1, ApartKeepsQueues
<1>9. ASSUME NEW w \in Workers, NEW c \in Conns, TakesData(w, c) PROVE Queues'
  <2>1. Apart
    BY <1>9 DEF Apart, TakesData, Receiving, Polls, At, Typed, HistoryType, Placed, Busy
  <2>2. QED
    BY <2>1, ApartKeepsQueues
<1>10. ASSUME NEW w \in Workers, NEW c \in Conns, TakesEnd(w, c) PROVE Queues'
  <2>1. Apart
    BY <1>10 DEF Apart, TakesEnd, BeginsClosing, Polls, Goto, At, Typed, HistoryType,
             Placed,
             Busy
  <2>2. QED
    BY <2>1, ApartKeepsQueues
<1>11. ASSUME NEW w \in Workers, NEW c \in Conns, TakesSent(w, c) PROVE Queues'
  <2>1. Apart
    <3>1. /\ pc[w] = "poll" /\ UNCHANGED <<io_array, running_io, stopped>>
          /\ hist'.raced = hist.raced
      <4>1. sock[c].queued - write[c].n \in Nat
        BY <1>11 DEF TakesSent, Polls, FrontQueued, Typed, SocketType, RequestType
      <4>2. QED
        BY <1>11, <4>1, SendingTyped DEF TakesSent, Polls, At
    <3>2. \/ pc' = pc /\ own' = own
          \/ /\ pc'[w] = "handle"
             /\ \A t \in Threads \ {w} : own'[t] = own[t] /\ pc'[t] = pc[t]
      BY <1>11, BeginsClosingTyped DEF TakesSent
    <3>3. QED
      BY <3>1, <3>2 DEF Apart
  <2>2. QED
    BY <2>1, ApartKeepsQueues
<1>12. ASSUME ActivateFlag PROVE Queues'
  <2>1. Apart
    BY <1>12 DEF Apart, ActivateFlag, Activating, Goto, At, Typed, HistoryType, Placed, Busy
  <2>2. QED
    BY <2>1, ApartKeepsQueues
<1>13. ASSUME ActivateAssign PROVE Queues'
  <2>1. Apart
    BY <1>13 DEF Apart, ActivateAssign, Activating, Goto, At, Typed, HistoryType, Placed,
             Busy
  <2>2. QED
    BY <2>1, ApartKeepsQueues
<1>14. ASSUME ActivateQueue PROVE Queues'
  <2>1. Apart
    BY <1>14 DEF Apart, ActivateQueue, Activating, Goto, At, Typed, HistoryType, Placed,
             Busy
  <2>2. QED
    BY <2>1, ApartKeepsQueues
<1>15. ASSUME ActivateReceive PROVE Queues'
  <2>1. Apart
    BY <1>15 DEF Apart, ActivateReceive, Receiving, Activating, Goto, At, Typed,
             HistoryType,
             Placed, Busy
  <2>2. QED
    BY <2>1, ApartKeepsQueues
<1>16. ASSUME RunReturns PROVE Queues'
    BY <1>16, MainKeepsQueues
<1>17. ASSUME ServerStops PROVE Queues'
    BY <1>17, MainKeepsQueues
<1>29. ASSUME AcceptorJoins PROVE Queues'
    BY <1>29, MainKeepsQueues
<1>18. ASSUME ServiceStops PROVE Queues'
    BY <1>18, MainKeepsQueues
<1>19. ASSUME Joins PROVE Queues'
    BY <1>19, MainKeepsQueues
<1>20. ASSUME NEW c \in Conns, Accepts(c) PROVE Queues'
  <2>1. Apart
    BY <1>20 DEF Apart, Accepts, Goto, At, Typed, HistoryType, Placed, Busy
  <2>2. QED
    BY <2>1, ApartKeepsQueues
<1>21. ASSUME NEW c \in Conns, KernelReceives(c) PROVE Queues'
  <2>1. Apart
    BY <1>21 DEF Apart, KernelReceives, Typed, HistoryType, Placed, Busy
  <2>2. QED
    BY <2>1, ApartKeepsQueues
<1>22. ASSUME NEW c \in Conns, KernelSends(c) PROVE Queues'
  <2>1. Apart
    BY <1>22 DEF Apart, KernelSends, Typed, HistoryType, Placed, Busy
  <2>2. QED
    BY <2>1, ApartKeepsQueues
<1>23. ASSUME NEW c \in Conns, PeerLeaves(c) PROVE Queues'
  <2>1. Apart
    BY <1>23 DEF Apart, PeerLeaves, Typed, HistoryType, Placed, Busy
  <2>2. QED
    BY <2>1, ApartKeepsQueues
<1>24. ASSUME NEW c \in Conns, CloseForce(c) PROVE Queues'
  <2>1. Apart
    BY <1>24 DEF Apart, CloseForce, BeginsClosing, Calls, Goto, At, Typed, HistoryType,
             Placed,
             Busy
  <2>2. QED
    BY <2>1, ApartKeepsQueues
<1>25. ASSUME NEW c \in Conns, CloseGraceful(c) PROVE Queues'
  <2>1. Apart
    BY <1>25 DEF Apart, CloseGraceful, BeginsClosing, Calls, Goto, At, Typed, HistoryType,
             Placed, Busy
  <2>2. QED
    BY <2>1, ApartKeepsQueues
<1>26. ASSUME NEW c \in Conns, Sends(c) PROVE Queues'
  <2>1. Apart
    BY <1>26 DEF Apart, Sends, Sending, MaySend, Calls, Typed, HistoryType, Placed, Busy
  <2>2. QED
    BY <2>1, ApartKeepsQueues
<1>27. ASSUME NEW c \in Conns, SendSpins(c) PROVE Queues'
  <2>1. Apart
    BY <1>27 DEF Apart, SendSpins, MaySend, Calls, Goto, At, Typed, HistoryType, Placed,
             Busy
  <2>2. QED
    BY <2>1, ApartKeepsQueues
<1>28. QED BY <1>1, <1>2, <1>3, <1>4, <1>5, <1>6, <1>7, <1>8, <1>9, <1>10, <1>11, <1>12,
        <1>13, <1>14, <1>15, <1>16, <1>17, <1>18, <1>19, <1>20, <1>21, <1>22, <1>23, <1>24,
        <1>25, <1>26, <1>27, <1>29
      DEF Next, Runs, Closing, Activates, Kernel

-----------------------------------------------------------------------------
(* send_bind_buffer (tcp_socket.cpp, socket_object.cpp).                   *)

\* The bytes that wait and the request under way are the business of send() and io_sent.
LEMMA QueuedApart ==
    ASSUME FrontQueued, write' = write, hist'.clobbered = hist.clobbered,
           \A c \in Conns : sock'[c].queued = sock[c].queued
    PROVE  FrontQueued'
  BY DEF FrontQueued

\* A submitted send takes bytes at the front of what is queued, and finds no request under
\* way.
LEMMA SendingKeeps ==
    ASSUME Typed, FrontQueued, NEW c \in Conns, NEW n \in Nat, n >= 1, Sending(c, n),
           write[c].st # "pending", sock'[c].queued = n,
           \A d \in Conns \ {c} : sock'[d] = sock[d]
    PROVE  FrontQueued'
<1>1. /\ \A d \in Conns \ {c} : write'[d] = write[d]
      /\ write'[c].st \in {"pending", "lost"}
      /\ write'[c].st = "pending" => write'[c].n \in 1..n
      /\ hist'.clobbered = (hist.clobbered \/ write[c].st = "pending")
  BY SendingTyped
<1>2. ASSUME NEW d \in Conns
      PROVE  /\ sock'[d].queued >= 0
             /\ write'[d].st \in {"pending", "done"} =>
                   sock'[d].queued >= 1 /\ write'[d].n <= sock'[d].queued
             /\ write'[d].st = "pending" => write'[d].n >= 1
  <2>1. CASE d = c
    BY <1>1, <2>1
  <2>2. CASE d # c
    BY <1>1, <2>2 DEF FrontQueued
  <2>3. QED
    BY <2>1, <2>2
<1>3. ~hist'.clobbered
  BY <1>1 DEF FrontQueued
<1>4. QED
  BY <1>2, <1>3 DEF FrontQueued

\* send() submits when nothing was queued: then nothing is under way.
LEMMA SendsKeepsQueued ==
    ASSUME Typed, FrontQueued, NEW c \in Conns, Sends(c)
    PROVE  FrontQueued'
<1>1. sock[c] \in SocketType /\ sock[c].queued \in Nat
  BY DEF Typed, SocketType, FrontQueued
<1>2. /\ sock'[c].queued = sock[c].queued + 1
      /\ \A d \in Conns \ {c} : sock'[d] = sock[d]
  BY <1>1 DEF Sends, Typed, SocketType
<1>3. CASE sock[c].queued = 0
  <2>1. write[c].st # "pending"
    BY <1>3 DEF FrontQueued
  <2>2. Sending(c, 1)
    BY <1>3 DEF Sends
  <2>3. QED
    BY <1>2, <1>3, <2>1, <2>2, SendingKeeps
<1>4. CASE sock[c].queued # 0
  <2>1. write' = write /\ hist'.clobbered = hist.clobbered
    BY <1>4 DEF Sends, Typed, HistoryType
  <2>2. write[c] \in RequestType
    BY DEF Typed
  <2>3. QED
    BY <1>1, <1>2, <2>1, <2>2 DEF FrontQueued, RequestType
<1>5. QED
  BY <1>3, <1>4

\* io_sent: what was sent is popped; it was at the front.
LEMMA TakesSentKeepsQueued ==
    ASSUME Typed, FrontQueued, NEW w \in Workers, NEW c \in Conns, TakesSent(w, c)
    PROVE  FrontQueued'
<1> DEFINE rest == sock[c].queued - write[c].n
<1>1. rest \in Nat
  BY DEF TakesSent, Polls, FrontQueued, Typed, SocketType, RequestType
<1> HIDE DEF rest
<1>2. /\ write[c].st = "done"
      /\ sock' = [sock EXCEPT ![c].queued = rest]
      /\ \/ rest > 0 /\ Sending(c, rest)
         \/ rest = 0 /\ write' = [write EXCEPT ![c] = NoRequest] /\ UNCHANGED hist
  BY <1>1 DEF TakesSent, Polls, rest
<1>3. sock[c] \in SocketType
  BY DEF Typed
<1>4. sock'[c].queued = rest /\ \A d \in Conns \ {c} : sock'[d] = sock[d]
  BY <1>2, <1>3 DEF Typed, SocketType
<1>5. CASE rest > 0 /\ Sending(c, rest)
  BY <1>1, <1>2, <1>4, <1>5, SendingKeeps
<1>6. CASE rest = 0 /\ write' = [write EXCEPT ![c] = NoRequest] /\ UNCHANGED hist
  BY <1>4, <1>6 DEF FrontQueued, Typed, NoRequest
<1>7. QED
  BY <1>2, <1>5, <1>6

\* A completed request was about as many bytes as it was submitted with, or none.
LEMMA KernelSendsKeepsQueued ==
    ASSUME Typed, FrontQueued, NEW c \in Conns, KernelSends(c)
    PROVE  FrontQueued'
<1>1. write[c] \in RequestType /\ write[c].st = "pending" /\ UNCHANGED <<sock, hist>>
  BY DEF KernelSends, Typed
<1>2. PICK n \in {write[c].n, 0} :
         write' = [write EXCEPT ![c] = [write[c] EXCEPT !.st = "done", !.n = n]]
  BY DEF KernelSends
<1>3. /\ write'[c].st = "done" /\ write'[c].n = n
      /\ \A d \in Conns \ {c} : write'[d] = write[d]
  BY <1>1, <1>2 DEF Typed, RequestType
<1>4. n \in Nat /\ n <= sock[c].queued /\ sock[c].queued >= 1
  BY <1>1 DEF FrontQueued, Typed, SocketType, RequestType
<1>5. QED
  BY <1>1, <1>3, <1>4 DEF FrontQueued

\* All steps together.
LEMMA FrontQueuedKept == ASSUME Typed, Placed, FrontQueued, Next PROVE FrontQueued'
<1>1. ASSUME NEW w \in Workers, Appends(w) PROVE FrontQueued'
  <2>1. write' = write /\ hist'.clobbered = hist.clobbered
    BY <1>1 DEF Appends, Typed, HistoryType
  <2>2. sock' = sock
    BY <1>1 DEF Appends
  <2>3. QED
    BY <2>1, <2>2, QueuedApart
<1>2. ASSUME NEW w \in Workers, MovesEnd(w) PROVE FrontQueued'
  <2>1. write' = write /\ hist'.clobbered = hist.clobbered
    BY <1>2 DEF MovesEnd
  <2>2. sock' = sock
    BY <1>2 DEF MovesEnd
  <2>3. QED
    BY <2>1, <2>2, QueuedApart
<1>3. ASSUME NEW w \in Workers, Exits(w) PROVE FrontQueued'
  <2>1. write' = write /\ hist'.clobbered = hist.clobbered
    BY <1>3 DEF Exits
  <2>2. sock' = sock
    BY <1>3 DEF Exits
  <2>3. QED
    BY <2>1, <2>2, QueuedApart
<1>4. ASSUME NEW w \in Workers, Notifies(w) PROVE FrontQueued'
  <2>1. write' = write /\ hist'.clobbered = hist.clobbered
    BY <1>4 DEF Notifies
  <2>2. own[w].conn \in Conns
    BY <1>4 DEF Notifies, At, Placed, Busy
  <2>3. sock[own[w].conn] \in SocketType
    BY <2>2 DEF Typed
  <2>4. \A d \in Conns : sock'[d].queued = sock[d].queued
    BY <1>4, <2>2, <2>3 DEF Notifies, Typed, SocketType
  <2>5. QED
    BY <2>1, <2>4, QueuedApart
<1>5. ASSUME NEW t \in Workers \cup {User}, ReadsHandle(t) PROVE FrontQueued'
  <2>1. write' = write /\ hist'.clobbered = hist.clobbered
    BY <1>5 DEF ReadsHandle, Typed, HistoryType
  <2>2. sock' = sock
    BY <1>5 DEF ReadsHandle
  <2>3. QED
    BY <2>1, <2>2, QueuedApart
<1>6. ASSUME NEW t \in Workers \cup {User}, ClosesHandle(t) PROVE FrontQueued'
  <2>1. write' = write /\ hist'.clobbered = hist.clobbered
    BY <1>6 DEF ClosesHandle, Typed, HistoryType
  <2>2. sock' = sock
    BY <1>6 DEF ClosesHandle
  <2>3. QED
    BY <2>1, <2>2, QueuedApart
<1>7. ASSUME NEW t \in Workers \cup {User}, Marks(t) PROVE FrontQueued'
  <2>1. write' = write /\ hist'.clobbered = hist.clobbered
    BY <1>7 DEF Marks
  <2>2. own[t].conn \in Conns
    BY <1>7 DEF Marks, At, Placed, Busy
  <2>3. sock[own[t].conn] \in SocketType
    BY <2>2 DEF Typed
  <2>4. \A d \in Conns : sock'[d].queued = sock[d].queued
    BY <1>7, <2>2, <2>3 DEF Marks, Typed, SocketType
  <2>5. QED
    BY <2>1, <2>4, QueuedApart
<1>8. ASSUME NEW t \in Workers \cup {User}, Unlocks(t) PROVE FrontQueued'
  <2>1. write' = write /\ hist'.clobbered = hist.clobbered
    BY <1>8 DEF Unlocks
  <2>2. sock' = sock
    BY <1>8 DEF Unlocks
  <2>3. QED
    BY <2>1, <2>2, QueuedApart
<1>9. ASSUME NEW w \in Workers, NEW c \in Conns, TakesData(w, c) PROVE FrontQueued'
  <2>1. write' = write /\ hist'.clobbered = hist.clobbered
    BY <1>9 DEF TakesData
  <2>2. sock' = sock
    BY <1>9 DEF TakesData
  <2>3. QED
    BY <2>1, <2>2, QueuedApart
<1>10. ASSUME NEW w \in Workers, NEW c \in Conns, TakesEnd(w, c) PROVE FrontQueued'
  <2>1. write' = write /\ hist'.clobbered = hist.clobbered
    BY <1>10 DEF TakesEnd, BeginsClosing
  <2>2. c \in Conns
    OBVIOUS
  <2>3. sock[c] \in SocketType
    BY <2>2 DEF Typed
  <2>4. \A d \in Conns : sock'[d].queued = sock[d].queued
    BY <1>10, <2>2, <2>3 DEF TakesEnd, BeginsClosing, Typed, SocketType
  <2>5. QED
    BY <2>1, <2>4, QueuedApart
<1>11. ASSUME NEW w \in Workers, NEW c \in Conns, TakesSent(w, c) PROVE FrontQueued'
    BY <1>11, TakesSentKeepsQueued
<1>12. ASSUME ActivateFlag PROVE FrontQueued'
  <2>1. write' = write /\ hist'.clobbered = hist.clobbered
    BY <1>12 DEF ActivateFlag, Activating
  <2>2. Activating \in Conns
    BY <1>12 DEF ActivateFlag, Activating, At, Placed, Busy
  <2>3. sock[Activating] \in SocketType
    BY <2>2 DEF Typed
  <2>4. \A d \in Conns : sock'[d].queued = sock[d].queued
    BY <1>12, <2>2, <2>3 DEF ActivateFlag, Activating, Typed, SocketType
  <2>5. QED
    BY <2>1, <2>4, QueuedApart
<1>13. ASSUME ActivateAssign PROVE FrontQueued'
  <2>1. write' = write /\ hist'.clobbered = hist.clobbered
    BY <1>13 DEF ActivateAssign, Activating
  <2>2. Activating \in Conns
    BY <1>13 DEF ActivateAssign, Activating, At, Placed, Busy
  <2>3. sock[Activating] \in SocketType
    BY <2>2 DEF Typed
  <2>4. \A d \in Conns : sock'[d].queued = sock[d].queued
    BY <1>13, <2>2, <2>3 DEF ActivateAssign, Activating, Typed, SocketType
  <2>5. QED
    BY <2>1, <2>4, QueuedApart
<1>14. ASSUME ActivateQueue PROVE FrontQueued'
  <2>1. Activating \in Conns
    BY <1>14 DEF ActivateQueue, At, Activating, Placed, Busy
  <2>2. sock[Activating] \in SocketType
    BY <2>1 DEF Typed
  <2>3. \A d \in Conns \ {Activating} : sock'[d] = sock[d]
    BY <1>14 DEF ActivateQueue, Typed
  <2>4. sock'[Activating].queued = sock[Activating].queued
    <3>1. CASE UNCHANGED sock
      BY <3>1
    <3>2. CASE ~UNCHANGED sock
      <4>1. PICK v, u \in Workers :
               sock' = [sock EXCEPT ![Activating].recv = v, ![Activating].send = u,
                                    ![Activating].registered = TRUE]
        BY <1>14, <3>2 DEF ActivateQueue
      <4>2. QED
        BY <2>1, <2>2, <4>1 DEF Typed, SocketType
    <3>3. QED
      BY <3>1, <3>2
  <2>5. UNCHANGED <<write, hist>>
    BY <1>14 DEF ActivateQueue
  <2>6. QED
    BY <2>3, <2>4, <2>5, QueuedApart
<1>15. ASSUME ActivateReceive PROVE FrontQueued'
  <2>1. write' = write /\ hist'.clobbered = hist.clobbered
    BY <1>15 DEF ActivateReceive, Activating
  <2>2. sock' = sock
    BY <1>15 DEF ActivateReceive, Activating
  <2>3. QED
    BY <2>1, <2>2, QueuedApart
<1>16. ASSUME RunReturns PROVE FrontQueued'
  <2>1. write' = write /\ hist'.clobbered = hist.clobbered
    BY <1>16 DEF RunReturns
  <2>2. sock' = sock
    BY <1>16 DEF RunReturns
  <2>3. QED
    BY <2>1, <2>2, QueuedApart
<1>17. ASSUME ServerStops PROVE FrontQueued'
  <2>1. write' = write /\ hist'.clobbered = hist.clobbered
    BY <1>17 DEF ServerStops
  <2>2. sock' = sock
    BY <1>17 DEF ServerStops
  <2>3. QED
    BY <2>1, <2>2, QueuedApart
<1>29. ASSUME AcceptorJoins PROVE FrontQueued'
  <2>1. write' = write /\ hist'.clobbered = hist.clobbered
    BY <1>29 DEF AcceptorJoins
  <2>2. sock' = sock
    BY <1>29 DEF AcceptorJoins
  <2>3. QED
    BY <2>1, <2>2, QueuedApart
<1>18. ASSUME ServiceStops PROVE FrontQueued'
  <2>1. write' = write /\ hist'.clobbered = hist.clobbered
    BY <1>18 DEF ServiceStops
  <2>2. sock' = sock
    BY <1>18 DEF ServiceStops
  <2>3. QED
    BY <2>1, <2>2, QueuedApart
<1>19. ASSUME Joins PROVE FrontQueued'
  <2>1. write' = write /\ hist'.clobbered = hist.clobbered
    BY <1>19 DEF Joins
  <2>2. sock' = sock
    BY <1>19 DEF Joins
  <2>3. QED
    BY <2>1, <2>2, QueuedApart
<1>20. ASSUME NEW c \in Conns, Accepts(c) PROVE FrontQueued'
  <2>1. write' = write /\ hist'.clobbered = hist.clobbered
    BY <1>20 DEF Accepts
  <2>2. c \in Conns
    OBVIOUS
  <2>3. sock[c] \in SocketType
    BY <2>2 DEF Typed
  <2>4. \A d \in Conns : sock'[d].queued = sock[d].queued
    BY <1>20, <2>2, <2>3 DEF Accepts, Typed, SocketType
  <2>5. QED
    BY <2>1, <2>4, QueuedApart
<1>21. ASSUME NEW c \in Conns, KernelReceives(c) PROVE FrontQueued'
  <2>1. write' = write /\ hist'.clobbered = hist.clobbered
    BY <1>21 DEF KernelReceives, Typed, HistoryType
  <2>2. sock' = sock
    BY <1>21 DEF KernelReceives
  <2>3. QED
    BY <2>1, <2>2, QueuedApart
<1>22. ASSUME NEW c \in Conns, KernelSends(c) PROVE FrontQueued'
    BY <1>22, KernelSendsKeepsQueued
<1>23. ASSUME NEW c \in Conns, PeerLeaves(c) PROVE FrontQueued'
  <2>1. write' = write /\ hist'.clobbered = hist.clobbered
    BY <1>23 DEF PeerLeaves
  <2>2. sock' = sock
    BY <1>23 DEF PeerLeaves
  <2>3. QED
    BY <2>1, <2>2, QueuedApart
<1>24. ASSUME NEW c \in Conns, CloseForce(c) PROVE FrontQueued'
  <2>1. write' = write /\ hist'.clobbered = hist.clobbered
    BY <1>24 DEF CloseForce, BeginsClosing, Calls, Typed, HistoryType
  <2>2. sock' = sock
    BY <1>24 DEF CloseForce, BeginsClosing, Calls
  <2>3. QED
    BY <2>1, <2>2, QueuedApart
<1>25. ASSUME NEW c \in Conns, CloseGraceful(c) PROVE FrontQueued'
  <2>1. write' = write /\ hist'.clobbered = hist.clobbered
    BY <1>25 DEF CloseGraceful, BeginsClosing, Calls, Typed, HistoryType
  <2>2. c \in Conns
    OBVIOUS
  <2>3. sock[c] \in SocketType
    BY <2>2 DEF Typed
  <2>4. \A d \in Conns : sock'[d].queued = sock[d].queued
    BY <1>25, <2>2, <2>3 DEF CloseGraceful, BeginsClosing, Calls, Typed, SocketType
  <2>5. QED
    BY <2>1, <2>4, QueuedApart
<1>26. ASSUME NEW c \in Conns, Sends(c) PROVE FrontQueued'
    BY <1>26, SendsKeepsQueued
<1>27. ASSUME NEW c \in Conns, SendSpins(c) PROVE FrontQueued'
  <2>1. write' = write /\ hist'.clobbered = hist.clobbered
    BY <1>27 DEF SendSpins, Calls
  <2>2. sock' = sock
    BY <1>27 DEF SendSpins, Calls
  <2>3. QED
    BY <2>1, <2>2, QueuedApart
<1>28. QED BY <1>1, <1>2, <1>3, <1>4, <1>5, <1>6, <1>7, <1>8, <1>9, <1>10, <1>11, <1>12,
        <1>13, <1>14, <1>15, <1>16, <1>17, <1>18, <1>19, <1>20, <1>21, <1>22, <1>23, <1>24,
        <1>25, <1>26, <1>27, <1>29
      DEF Next, Runs, Closing, Activates, Kernel

-----------------------------------------------------------------------------
(* The numbers of sockets: closesocket( socket_handler ) and what follows. *)

\* What the other steps leave alone: the members, the table, and who is closing.
Aloof == /\ owner' = owner
         /\ hist'.overlap = hist.overlap /\ hist'.foreign = hist.foreign
         /\ \A c \in Conns : sock'[c].handle = sock[c].handle
         /\ \A t \in Threads : pc[t] \in {"close", "mark"} \/ pc'[t] \in {"close", "mark"} =>
                pc'[t] = pc[t] /\ own'[t] = own[t]

\* They keep what is said about them.
LEMMA AloofKeepsNumbers == ASSUME Placed, OwnNumbers, Aloof PROVE OwnNumbers'
<1>1. \A t \in Threads : \A c \in Conns : Closes(t, c)' <=> Closes(t, c)
  BY DEF Closes, Aloof
<1>2. SUFFICES ASSUME ~hist'.overlap
               PROVE  Numbered'
  BY DEF OwnNumbers, Numbered
<1>3. \A t \in Threads : pc'[t] = "close" => own'[t].handle = sock'[own'[t].conn].handle
  BY <1>2 DEF OwnNumbers, Numbered, Aloof, Placed, Busy
<1>4. ASSUME NEW c \in Conns, sock'[c].handle # INVALID,
             \A t \in Threads : ~(pc'[t] = "mark" /\ own'[t].conn = c)
      PROVE  owner'[sock'[c].handle] = c
  BY <1>2, <1>4 DEF OwnNumbers, Numbered, Aloof
<1>5. QED
  BY <1>1, <1>2, <1>3, <1>4 DEF OwnNumbers, Numbered, Aloof

\* The argument of closesocket() is evaluated.
LEMMA ReadsHandleKeepsNumbers ==
    ASSUME Typed, Placed, OwnNumbers, NEW t \in Workers \cup {User}, ReadsHandle(t)
    PROVE  OwnNumbers'
<1>1. /\ t \in Threads /\ pc[t] = "handle" /\ pc'[t] = "close"
      /\ \A s \in Threads \ {t} : pc'[s] = pc[s] /\ own'[s] = own[s]
      /\ UNCHANGED <<sock, owner>>
  BY DEF ReadsHandle, At, Goto, Typed
<1>2. own[t].conn \in Conns
  BY <1>1 DEF Placed, Busy
<1>3. own'[t].conn = own[t].conn /\ own'[t].handle = sock[own[t].conn].handle
  <2>1. own[t] \in OwnType
    BY <1>1 DEF Typed
  <2>2. QED
    BY <1>1, <2>1 DEF ReadsHandle, Typed, OwnType
<1>4. SUFFICES ASSUME ~hist'.overlap
               PROVE  Numbered'
  BY DEF OwnNumbers, Numbered
<1>5. /\ ~hist.overlap /\ hist'.foreign = hist.foreign
      /\ \A s \in Threads : ~Closes(s, own[t].conn)
  BY <1>4 DEF ReadsHandle, Typed, HistoryType, Closes
<1>6. \A s, u \in Threads : \A c \in Conns : Closes(s, c)' /\ Closes(u, c)' => s = u
  <2>1. \A s \in Threads \ {t} : \A c \in Conns : Closes(s, c)' <=> Closes(s, c)
    BY <1>1 DEF Closes
  <2>2. \A c \in Conns : Closes(t, c)' <=> c = own[t].conn
    BY <1>1, <1>3 DEF Closes
  <2>3. QED
    BY <1>5, <2>1, <2>2 DEF OwnNumbers, Numbered
<1>7. \A s \in Threads : pc'[s] = "close" => own'[s].handle = sock'[own'[s].conn].handle
  BY <1>1, <1>3, <1>5 DEF OwnNumbers, Numbered
<1>8. \A c \in Conns : /\ sock'[c].handle # INVALID
                       /\ \A s \in Threads : ~(pc'[s] = "mark" /\ own'[s].conn = c)
                       => owner'[sock'[c].handle] = c
  BY <1>1, <1>5 DEF OwnNumbers, Numbered
<1>9. QED
  BY <1>5, <1>6, <1>7, <1>8 DEF OwnNumbers, Numbered

\* closesocket(): the number is that of the connection, and from now on nobody's.
LEMMA ClosesHandleKeepsNumbers ==
    ASSUME Typed, Placed, OwnNumbers, NEW t \in Workers \cup {User}, ClosesHandle(t)
    PROVE  OwnNumbers'
<1> DEFINE c == own[t].conn
           h == own[t].handle
<1>1. /\ t \in Threads /\ pc[t] = "close" /\ pc'[t] = "mark"
      /\ \A s \in Threads \ {t} : pc'[s] = pc[s]
      /\ UNCHANGED <<sock, own>>
  BY DEF ClosesHandle, At, Goto, Typed
<1>2. c \in Conns /\ h \in Handles \cup {INVALID}
  BY <1>1 DEF Placed, Busy, Typed, OwnType
<1>3. hist'.overlap = hist.overlap
  BY DEF ClosesHandle, Typed, HistoryType
<1>4. SUFFICES ASSUME ~hist.overlap
               PROVE  Numbered'
  BY <1>3 DEF OwnNumbers, Numbered
<1>5. \A s \in Threads : Closes(s, c) => s = t
  BY <1>1, <1>2, <1>4 DEF OwnNumbers, Numbered, Closes
<1>6. sock[c].handle = h /\ (h # INVALID => owner[h] = c)
  BY <1>1, <1>2, <1>4, <1>5 DEF OwnNumbers, Numbered, Closes
<1>7. ~hist'.foreign
  <2>1. ~hist.foreign
    BY <1>4 DEF OwnNumbers, Numbered
  <2>2. CASE h = INVALID
    BY <2>1, <2>2 DEF ClosesHandle
  <2>3. CASE h # INVALID
    <3>1. hist' = [hist EXCEPT !.foreign = @ \/ owner[h] \notin {NoConn, c}]
      BY <2>3 DEF ClosesHandle
    <3>2. owner[h] \in {NoConn, c}
      BY <1>6, <2>3
    <3>3. QED
      BY <2>1, <3>1, <3>2 DEF Typed, HistoryType
  <2>4. QED
    BY <2>2, <2>3
<1>8. \A s \in Threads : \A d \in Conns : Closes(s, d)' <=> Closes(s, d)
  BY <1>1 DEF Closes
<1>9. \A k \in Handles : owner[k] # c => owner'[k] = owner[k]
  BY <1>2, <1>6 DEF ClosesHandle, Typed
<1>10. ASSUME NEW d \in Conns, sock'[d].handle # INVALID,
              \A s \in Threads : ~(pc'[s] = "mark" /\ own'[s].conn = d)
       PROVE  owner'[sock'[d].handle] = d
  <2>1. d # c
    BY <1>1, <1>10
  <2>2. \A s \in Threads : ~(pc[s] = "mark" /\ own[s].conn = d)
    BY <1>1, <1>10
  <2>3. owner[sock[d].handle] = d /\ sock[d].handle \in Handles
    BY <1>1, <1>4, <1>10, <2>2 DEF OwnNumbers, Numbered, Typed, SocketType
  <2>4. QED
    BY <1>1, <1>9, <2>1, <2>3
<1>11. QED
  BY <1>1, <1>4, <1>7, <1>8, <1>10 DEF OwnNumbers, Numbered

\* The member is marked: it holds no number any more.
LEMMA MarksKeepsNumbers ==
    ASSUME Typed, Placed, OwnNumbers, NEW t \in Workers \cup {User}, Marks(t)
    PROVE  OwnNumbers'
<1> DEFINE c == own[t].conn
<1>1. /\ t \in Threads /\ pc[t] = "mark" /\ pc'[t] \notin {"close", "mark"}
      /\ \A s \in Threads \ {t} : pc'[s] = pc[s]
      /\ UNCHANGED <<own, owner, hist>>
  BY DEF Marks, At, Goto, Typed, Placed
<1>2. c \in Conns /\ sock[c] \in SocketType
  BY <1>1 DEF Placed, Busy, Typed
<1>3. sock'[c].handle = INVALID /\ \A d \in Conns \ {c} : sock'[d] = sock[d]
  BY <1>2 DEF Marks, Typed, SocketType
<1>4. SUFFICES ASSUME ~hist.overlap
               PROVE  Numbered'
  BY <1>1 DEF OwnNumbers, Numbered
<1>5. \A s \in Threads : \A d \in Conns : Closes(s, d)' => Closes(s, d) /\ s # t
  BY <1>1 DEF Closes
<1>6. \A s \in Threads \ {t} : \A d \in Conns : Closes(s, d) => d # c
  BY <1>1, <1>2, <1>4 DEF OwnNumbers, Numbered, Closes
<1>7. ASSUME NEW s \in Threads, pc'[s] = "close"
      PROVE  own'[s].handle = sock'[own'[s].conn].handle
  <2>1. s # t /\ pc[s] = "close" /\ own[s].conn \in Conns
    BY <1>1, <1>7 DEF Placed, Busy
  <2>2. own[s].conn # c
    BY <1>6, <2>1 DEF Closes
  <2>3. QED
    BY <1>1, <1>3, <1>4, <2>1, <2>2 DEF OwnNumbers, Numbered
<1>8. ASSUME NEW d \in Conns, sock'[d].handle # INVALID,
             \A s \in Threads : ~(pc'[s] = "mark" /\ own'[s].conn = d)
      PROVE  owner'[sock'[d].handle] = d
  BY <1>1, <1>3, <1>4, <1>8 DEF OwnNumbers, Numbered
<1>9. QED
  BY <1>1, <1>4, <1>5, <1>7, <1>8 DEF OwnNumbers, Numbered

\* WSAAccept: a number that is free, for a connection nobody has worked on.
LEMMA AcceptsKeepsNumbers ==
    ASSUME Typed, Placed, OwnNumbers, NEW c \in Conns, Accepts(c)
    PROVE  OwnNumbers'
<1>1. PICK h \in Handles : /\ owner[h] = NoConn
                           /\ owner' = [owner EXCEPT ![h] = c]
                           /\ sock' = [sock EXCEPT ![c].handle = h]
  BY DEF Accepts
<1>2. sock[c] \in SocketType
  BY DEF Typed
<1>3. /\ sock'[c].handle = h /\ \A d \in Conns \ {c} : sock'[d] = sock[d]
      /\ owner'[h] = c /\ \A k \in Handles \ {h} : owner'[k] = owner[k]
  BY <1>1, <1>2 DEF Typed, SocketType
<1>4. /\ \A t \in Threads \ {Acceptor} : pc'[t] = pc[t] /\ own'[t] = own[t]
      /\ pc[Acceptor] = "accept" /\ pc'[Acceptor] = "flag" /\ hist' = hist /\ ~Known(c)
  BY DEF Accepts, At, Goto, Typed, Known
<1>5. SUFFICES ASSUME ~hist.overlap
               PROVE  Numbered'
  BY <1>4 DEF OwnNumbers, Numbered
<1>6. \A t \in Threads : \A d \in Conns : Closes(t, d)' => Closes(t, d)
  BY <1>4 DEF Closes
<1>7. ASSUME NEW t \in Threads, pc'[t] = "close"
      PROVE  own'[t].handle = sock'[own'[t].conn].handle
  <2>1. t # Acceptor /\ pc[t] = "close" /\ own[t].conn \in Conns /\ own[t].conn # c
    BY <1>4, <1>7 DEF Placed, Busy
  <2>2. QED
    BY <1>3, <1>4, <1>5, <2>1 DEF OwnNumbers, Numbered
<1>8. ASSUME NEW d \in Conns, sock'[d].handle # INVALID,
             \A s \in Threads : ~(pc'[s] = "mark" /\ own'[s].conn = d)
      PROVE  owner'[sock'[d].handle] = d
  <2>1. CASE d = c
    BY <1>3, <2>1
  <2>2. CASE d # c
    <3>1. \A s \in Threads : ~(pc[s] = "mark" /\ own[s].conn = d)
      BY <1>4, <1>8
    <3>2. sock'[d] = sock[d] /\ owner[sock[d].handle] = d
      BY <1>3, <1>5, <1>8, <2>2, <3>1 DEF OwnNumbers, Numbered
    <3>3. sock[d].handle \in Handles
      BY <1>8, <3>2 DEF Typed, SocketType
    <3>4. QED
      BY <1>1, <1>3, <3>2, <3>3
  <2>3. QED
    BY <2>1, <2>2
<1>9. QED
  BY <1>4, <1>5, <1>6, <1>7, <1>8 DEF OwnNumbers, Numbered

\* All steps together.
LEMMA OwnNumbersKept ==
    ASSUME Typed, Placed, FrontQueued, OwnNumbers, Next PROVE OwnNumbers'
<1>1. ASSUME NEW w \in Workers, Appends(w) PROVE OwnNumbers'
  <2>1. /\ owner' = owner
        /\ hist'.overlap = hist.overlap /\ hist'.foreign = hist.foreign
    BY <1>1 DEF Appends, Typed, HistoryType
  <2>2. sock' = sock
    BY <1>1 DEF Appends
  <2>3. \A s \in Threads : pc[s] \in {"close", "mark"} \/ pc'[s] \in {"close", "mark"} =>
            pc'[s] = pc[s] /\ own'[s] = own[s]
    BY <1>1 DEF Appends, At, Goto, Typed
  <2>4. Aloof
    BY <2>1, <2>2, <2>3 DEF Aloof
  <2>5. QED
    BY <2>4, AloofKeepsNumbers
<1>2. ASSUME NEW w \in Workers, MovesEnd(w) PROVE OwnNumbers'
  <2>1. /\ owner' = owner
        /\ hist'.overlap = hist.overlap /\ hist'.foreign = hist.foreign
    BY <1>2 DEF MovesEnd
  <2>2. sock' = sock
    BY <1>2 DEF MovesEnd
  <2>3. \A s \in Threads : pc[s] \in {"close", "mark"} \/ pc'[s] \in {"close", "mark"} =>
            pc'[s] = pc[s] /\ own'[s] = own[s]
    BY <1>2 DEF MovesEnd, At, Goto, Typed
  <2>4. Aloof
    BY <2>1, <2>2, <2>3 DEF Aloof
  <2>5. QED
    BY <2>4, AloofKeepsNumbers
<1>3. ASSUME NEW w \in Workers, Exits(w) PROVE OwnNumbers'
  <2>1. /\ owner' = owner
        /\ hist'.overlap = hist.overlap /\ hist'.foreign = hist.foreign
    BY <1>3 DEF Exits
  <2>2. sock' = sock
    BY <1>3 DEF Exits
  <2>3. \A s \in Threads : pc[s] \in {"close", "mark"} \/ pc'[s] \in {"close", "mark"} =>
            pc'[s] = pc[s] /\ own'[s] = own[s]
    BY <1>3 DEF Exits, At, Goto, Typed
  <2>4. Aloof
    BY <2>1, <2>2, <2>3 DEF Aloof
  <2>5. QED
    BY <2>4, AloofKeepsNumbers
<1>4. ASSUME NEW w \in Workers, Notifies(w) PROVE OwnNumbers'
  <2>1. /\ owner' = owner
        /\ hist'.overlap = hist.overlap /\ hist'.foreign = hist.foreign
    BY <1>4 DEF Notifies
  <2>2. \A d \in Conns : sock'[d].handle = sock[d].handle
    <3>1. own[w].conn \in Conns
      BY <1>4 DEF Notifies, At, Placed, Busy
    <3>2. sock[own[w].conn] \in SocketType
      BY <3>1 DEF Typed
    <3>3. \A d \in Conns \ {own[w].conn} : sock'[d] = sock[d]
      BY <1>4 DEF Notifies, Typed
    <3>4. sock'[own[w].conn].handle = sock[own[w].conn].handle
      BY <1>4, <3>1, <3>2 DEF Notifies, Typed, SocketType
    <3>5. QED
      BY <3>3, <3>4
  <2>3. \A s \in Threads : pc[s] \in {"close", "mark"} \/ pc'[s] \in {"close", "mark"} =>
            pc'[s] = pc[s] /\ own'[s] = own[s]
    BY <1>4 DEF Notifies, At, Goto, Typed
  <2>4. Aloof
    BY <2>1, <2>2, <2>3 DEF Aloof
  <2>5. QED
    BY <2>4, AloofKeepsNumbers
<1>5. ASSUME NEW t \in Workers \cup {User}, ReadsHandle(t) PROVE OwnNumbers'
    BY <1>5, ReadsHandleKeepsNumbers
<1>6. ASSUME NEW t \in Workers \cup {User}, ClosesHandle(t) PROVE OwnNumbers'
    BY <1>6, ClosesHandleKeepsNumbers
<1>7. ASSUME NEW t \in Workers \cup {User}, Marks(t) PROVE OwnNumbers'
    BY <1>7, MarksKeepsNumbers
<1>8. ASSUME NEW t \in Workers \cup {User}, Unlocks(t) PROVE OwnNumbers'
  <2>1. /\ owner' = owner
        /\ hist'.overlap = hist.overlap /\ hist'.foreign = hist.foreign
    BY <1>8 DEF Unlocks
  <2>2. sock' = sock
    BY <1>8 DEF Unlocks
  <2>3. \A s \in Threads : pc[s] \in {"close", "mark"} \/ pc'[s] \in {"close", "mark"} =>
            pc'[s] = pc[s] /\ own'[s] = own[s]
    BY <1>8 DEF Unlocks, Home, At, Goto, Typed, Placed
  <2>4. Aloof
    BY <2>1, <2>2, <2>3 DEF Aloof
  <2>5. QED
    BY <2>4, AloofKeepsNumbers
<1>9. ASSUME NEW w \in Workers, NEW c \in Conns, TakesData(w, c) PROVE OwnNumbers'
  <2>1. /\ owner' = owner
        /\ hist'.overlap = hist.overlap /\ hist'.foreign = hist.foreign
    BY <1>9 DEF TakesData, Polls
  <2>2. sock' = sock
    BY <1>9 DEF TakesData, Polls
  <2>3. \A s \in Threads : pc[s] \in {"close", "mark"} \/ pc'[s] \in {"close", "mark"} =>
            pc'[s] = pc[s] /\ own'[s] = own[s]
    BY <1>9 DEF TakesData, Receiving, Polls, At, Typed
  <2>4. Aloof
    BY <2>1, <2>2, <2>3 DEF Aloof
  <2>5. QED
    BY <2>4, AloofKeepsNumbers
<1>10. ASSUME NEW w \in Workers, NEW c \in Conns, TakesEnd(w, c) PROVE OwnNumbers'
  <2>1. /\ owner' = owner
        /\ hist'.overlap = hist.overlap /\ hist'.foreign = hist.foreign
    BY <1>10 DEF TakesEnd, BeginsClosing, Polls
  <2>2. \A d \in Conns : sock'[d].handle = sock[d].handle
    <3>1. c \in Conns
      OBVIOUS
    <3>2. sock[c] \in SocketType
      BY <3>1 DEF Typed
    <3>3. \A d \in Conns \ {c} : sock'[d] = sock[d]
      BY <1>10 DEF TakesEnd, BeginsClosing, Polls, Typed
    <3>4. sock'[c].handle = sock[c].handle
      BY <1>10, <3>1, <3>2 DEF TakesEnd, BeginsClosing, Polls, Typed, SocketType
    <3>5. QED
      BY <3>3, <3>4
  <2>3. \A s \in Threads : pc[s] \in {"close", "mark"} \/ pc'[s] \in {"close", "mark"} =>
            pc'[s] = pc[s] /\ own'[s] = own[s]
    BY <1>10 DEF TakesEnd, BeginsClosing, Polls, At, Goto, Typed
  <2>4. Aloof
    BY <2>1, <2>2, <2>3 DEF Aloof
  <2>5. QED
    BY <2>4, AloofKeepsNumbers
<1>11. ASSUME NEW w \in Workers, NEW c \in Conns, TakesSent(w, c) PROVE OwnNumbers'
  <2>1. sock[c].queued - write[c].n \in Nat
    BY <1>11 DEF TakesSent, Polls, FrontQueued, Typed, SocketType, RequestType
  <2>2. /\ pc[w] = "poll" /\ owner' = owner
        /\ hist'.overlap = hist.overlap /\ hist'.foreign = hist.foreign
    BY <1>11, <2>1, SendingTyped DEF TakesSent, Polls, At
  <2>3. sock[c] \in SocketType
    BY DEF Typed
  <2>4. \A d \in Conns : sock'[d].handle = sock[d].handle
    BY <1>11, <2>3 DEF TakesSent, Typed, SocketType
  <2>5. \/ pc' = pc /\ own' = own
        \/ /\ pc'[w] = "handle"
           /\ \A t \in Threads \ {w} : own'[t] = own[t] /\ pc'[t] = pc[t]
    BY <1>11, BeginsClosingTyped DEF TakesSent
  <2>6. Aloof
    BY <2>2, <2>4, <2>5 DEF Aloof
  <2>7. QED
    BY <2>6, AloofKeepsNumbers
<1>12. ASSUME ActivateFlag PROVE OwnNumbers'
  <2>1. /\ owner' = owner
        /\ hist'.overlap = hist.overlap /\ hist'.foreign = hist.foreign
    BY <1>12 DEF ActivateFlag, Activating
  <2>2. \A d \in Conns : sock'[d].handle = sock[d].handle
    <3>1. Activating \in Conns
      BY <1>12 DEF ActivateFlag, Activating, At, Placed, Busy
    <3>2. sock[Activating] \in SocketType
      BY <3>1 DEF Typed
    <3>3. \A d \in Conns \ {Activating} : sock'[d] = sock[d]
      BY <1>12 DEF ActivateFlag, Activating, Typed
    <3>4. sock'[Activating].handle = sock[Activating].handle
      BY <1>12, <3>1, <3>2 DEF ActivateFlag, Activating, Typed, SocketType
    <3>5. QED
      BY <3>3, <3>4
  <2>3. \A s \in Threads : pc[s] \in {"close", "mark"} \/ pc'[s] \in {"close", "mark"} =>
            pc'[s] = pc[s] /\ own'[s] = own[s]
    BY <1>12 DEF ActivateFlag, Activating, At, Goto, Typed
  <2>4. Aloof
    BY <2>1, <2>2, <2>3 DEF Aloof
  <2>5. QED
    BY <2>4, AloofKeepsNumbers
<1>13. ASSUME ActivateAssign PROVE OwnNumbers'
  <2>1. /\ owner' = owner
        /\ hist'.overlap = hist.overlap /\ hist'.foreign = hist.foreign
    BY <1>13 DEF ActivateAssign, Activating
  <2>2. \A d \in Conns : sock'[d].handle = sock[d].handle
    <3>1. Activating \in Conns
      BY <1>13 DEF ActivateAssign, Activating, At, Placed, Busy
    <3>2. sock[Activating] \in SocketType
      BY <3>1 DEF Typed
    <3>3. \A d \in Conns \ {Activating} : sock'[d] = sock[d]
      BY <1>13 DEF ActivateAssign, Activating, Typed
    <3>4. sock'[Activating].handle = sock[Activating].handle
      BY <1>13, <3>1, <3>2 DEF ActivateAssign, Activating, Typed, SocketType
    <3>5. QED
      BY <3>3, <3>4
  <2>3. \A s \in Threads : pc[s] \in {"close", "mark"} \/ pc'[s] \in {"close", "mark"} =>
            pc'[s] = pc[s] /\ own'[s] = own[s]
    BY <1>13 DEF ActivateAssign, Activating, At, Goto, Typed
  <2>4. Aloof
    BY <2>1, <2>2, <2>3 DEF Aloof
  <2>5. QED
    BY <2>4, AloofKeepsNumbers
<1>14. ASSUME ActivateQueue PROVE OwnNumbers'
  <2>1. Activating \in Conns
    BY <1>14 DEF ActivateQueue, At, Activating, Placed, Busy
  <2>2. sock[Activating] \in SocketType
    BY <2>1 DEF Typed
  <2>3. \A d \in Conns \ {Activating} : sock'[d] = sock[d]
    BY <1>14 DEF ActivateQueue, Typed
  <2>4. sock'[Activating].handle = sock[Activating].handle
    <3>1. CASE UNCHANGED sock
      BY <3>1
    <3>2. CASE ~UNCHANGED sock
      <4>1. PICK v, u \in Workers :
               sock' = [sock EXCEPT ![Activating].recv = v, ![Activating].send = u,
                                    ![Activating].registered = TRUE]
        BY <1>14, <3>2 DEF ActivateQueue
      <4>2. QED
        BY <2>1, <2>2, <4>1 DEF Typed, SocketType
    <3>3. QED
      BY <3>1, <3>2
  <2>5. /\ UNCHANGED <<owner, hist, own>>
        /\ \A t \in Threads \ {Acceptor} : pc'[t] = pc[t]
        /\ pc[Acceptor] = "queue" /\ pc'[Acceptor] = "receive"
    BY <1>14 DEF ActivateQueue, At, Goto, Typed
  <2>6. Aloof
    BY <2>3, <2>4, <2>5 DEF Aloof
  <2>7. QED
    BY <2>6, AloofKeepsNumbers
<1>15. ASSUME ActivateReceive PROVE OwnNumbers'
  <2>1. /\ owner' = owner
        /\ hist'.overlap = hist.overlap /\ hist'.foreign = hist.foreign
    BY <1>15 DEF ActivateReceive, Activating
  <2>2. sock' = sock
    BY <1>15 DEF ActivateReceive, Activating
  <2>3. \A s \in Threads : pc[s] \in {"close", "mark"} \/ pc'[s] \in {"close", "mark"} =>
            pc'[s] = pc[s] /\ own'[s] = own[s]
    BY <1>15 DEF ActivateReceive, Receiving, Activating, At, Goto, Typed
  <2>4. Aloof
    BY <2>1, <2>2, <2>3 DEF Aloof
  <2>5. QED
    BY <2>4, AloofKeepsNumbers
<1>16. ASSUME RunReturns PROVE OwnNumbers'
  <2>1. /\ owner' = owner
        /\ hist'.overlap = hist.overlap /\ hist'.foreign = hist.foreign
    BY <1>16 DEF RunReturns
  <2>2. sock' = sock
    BY <1>16 DEF RunReturns
  <2>3. \A s \in Threads : pc[s] \in {"close", "mark"} \/ pc'[s] \in {"close", "mark"} =>
            pc'[s] = pc[s] /\ own'[s] = own[s]
    BY <1>16 DEF RunReturns, At, Goto, Typed, Placed, AcceptorLabels
  <2>4. Aloof
    BY <2>1, <2>2, <2>3 DEF Aloof
  <2>5. QED
    BY <2>4, AloofKeepsNumbers
<1>17. ASSUME ServerStops PROVE OwnNumbers'
  <2>1. /\ owner' = owner
        /\ hist'.overlap = hist.overlap /\ hist'.foreign = hist.foreign
    BY <1>17 DEF ServerStops
  <2>2. sock' = sock
    BY <1>17 DEF ServerStops
  <2>3. \A s \in Threads : pc[s] \in {"close", "mark"} \/ pc'[s] \in {"close", "mark"} =>
            pc'[s] = pc[s] /\ own'[s] = own[s]
    BY <1>17 DEF ServerStops, At, Goto, Typed
  <2>4. Aloof
    BY <2>1, <2>2, <2>3 DEF Aloof
  <2>5. QED
    BY <2>4, AloofKeepsNumbers
<1>29. ASSUME AcceptorJoins PROVE OwnNumbers'
  <2>1. /\ owner' = owner
        /\ hist'.overlap = hist.overlap /\ hist'.foreign = hist.foreign
    BY <1>29 DEF AcceptorJoins
  <2>2. sock' = sock
    BY <1>29 DEF AcceptorJoins
  <2>3. \A s \in Threads : pc[s] \in {"close", "mark"} \/ pc'[s] \in {"close", "mark"} =>
            pc'[s] = pc[s] /\ own'[s] = own[s]
    BY <1>29 DEF AcceptorJoins, At, Goto, Typed
  <2>4. Aloof
    BY <2>1, <2>2, <2>3 DEF Aloof
  <2>5. QED
    BY <2>4, AloofKeepsNumbers
<1>18. ASSUME ServiceStops PROVE OwnNumbers'
  <2>1. /\ owner' = owner
        /\ hist'.overlap = hist.overlap /\ hist'.foreign = hist.foreign
    BY <1>18 DEF ServiceStops
  <2>2. sock' = sock
    BY <1>18 DEF ServiceStops
  <2>3. \A s \in Threads : pc[s] \in {"close", "mark"} \/ pc'[s] \in {"close", "mark"} =>
            pc'[s] = pc[s] /\ own'[s] = own[s]
    BY <1>18 DEF ServiceStops, At, Goto, Typed
  <2>4. Aloof
    BY <2>1, <2>2, <2>3 DEF Aloof
  <2>5. QED
    BY <2>4, AloofKeepsNumbers
<1>19. ASSUME Joins PROVE OwnNumbers'
  <2>1. /\ owner' = owner
        /\ hist'.overlap = hist.overlap /\ hist'.foreign = hist.foreign
    BY <1>19 DEF Joins
  <2>2. sock' = sock
    BY <1>19 DEF Joins
  <2>3. \A s \in Threads : pc[s] \in {"close", "mark"} \/ pc'[s] \in {"close", "mark"} =>
            pc'[s] = pc[s] /\ own'[s] = own[s]
    BY <1>19 DEF Joins, At, Goto, Typed
  <2>4. Aloof
    BY <2>1, <2>2, <2>3 DEF Aloof
  <2>5. QED
    BY <2>4, AloofKeepsNumbers
<1>20. ASSUME NEW c \in Conns, Accepts(c) PROVE OwnNumbers'
    BY <1>20, AcceptsKeepsNumbers
<1>21. ASSUME NEW c \in Conns, KernelReceives(c) PROVE OwnNumbers'
  <2>1. /\ owner' = owner
        /\ hist'.overlap = hist.overlap /\ hist'.foreign = hist.foreign
    BY <1>21 DEF KernelReceives, Typed, HistoryType
  <2>2. sock' = sock
    BY <1>21 DEF KernelReceives
  <2>3. \A s \in Threads : pc[s] \in {"close", "mark"} \/ pc'[s] \in {"close", "mark"} =>
            pc'[s] = pc[s] /\ own'[s] = own[s]
    BY <1>21 DEF KernelReceives, Typed
  <2>4. Aloof
    BY <2>1, <2>2, <2>3 DEF Aloof
  <2>5. QED
    BY <2>4, AloofKeepsNumbers
<1>22. ASSUME NEW c \in Conns, KernelSends(c) PROVE OwnNumbers'
  <2>1. /\ owner' = owner
        /\ hist'.overlap = hist.overlap /\ hist'.foreign = hist.foreign
    BY <1>22 DEF KernelSends
  <2>2. sock' = sock
    BY <1>22 DEF KernelSends
  <2>3. \A s \in Threads : pc[s] \in {"close", "mark"} \/ pc'[s] \in {"close", "mark"} =>
            pc'[s] = pc[s] /\ own'[s] = own[s]
    BY <1>22 DEF KernelSends, Typed
  <2>4. Aloof
    BY <2>1, <2>2, <2>3 DEF Aloof
  <2>5. QED
    BY <2>4, AloofKeepsNumbers
<1>23. ASSUME NEW c \in Conns, PeerLeaves(c) PROVE OwnNumbers'
  <2>1. /\ owner' = owner
        /\ hist'.overlap = hist.overlap /\ hist'.foreign = hist.foreign
    BY <1>23 DEF PeerLeaves
  <2>2. sock' = sock
    BY <1>23 DEF PeerLeaves
  <2>3. \A s \in Threads : pc[s] \in {"close", "mark"} \/ pc'[s] \in {"close", "mark"} =>
            pc'[s] = pc[s] /\ own'[s] = own[s]
    BY <1>23 DEF PeerLeaves, Typed
  <2>4. Aloof
    BY <2>1, <2>2, <2>3 DEF Aloof
  <2>5. QED
    BY <2>4, AloofKeepsNumbers
<1>24. ASSUME NEW c \in Conns, CloseForce(c) PROVE OwnNumbers'
  <2>1. /\ owner' = owner
        /\ hist'.overlap = hist.overlap /\ hist'.foreign = hist.foreign
    BY <1>24 DEF CloseForce, BeginsClosing, Calls, Typed, HistoryType
  <2>2. sock' = sock
    BY <1>24 DEF CloseForce, BeginsClosing, Calls
  <2>3. \A s \in Threads : pc[s] \in {"close", "mark"} \/ pc'[s] \in {"close", "mark"} =>
            pc'[s] = pc[s] /\ own'[s] = own[s]
    BY <1>24 DEF CloseForce, BeginsClosing, Calls, At, Goto, Typed
  <2>4. Aloof
    BY <2>1, <2>2, <2>3 DEF Aloof
  <2>5. QED
    BY <2>4, AloofKeepsNumbers
<1>25. ASSUME NEW c \in Conns, CloseGraceful(c) PROVE OwnNumbers'
  <2>1. /\ owner' = owner
        /\ hist'.overlap = hist.overlap /\ hist'.foreign = hist.foreign
    BY <1>25 DEF CloseGraceful, BeginsClosing, Calls, Typed, HistoryType
  <2>2. \A d \in Conns : sock'[d].handle = sock[d].handle
    <3>1. c \in Conns
      OBVIOUS
    <3>2. sock[c] \in SocketType
      BY <3>1 DEF Typed
    <3>3. \A d \in Conns \ {c} : sock'[d] = sock[d]
      BY <1>25 DEF CloseGraceful, BeginsClosing, Calls, Typed
    <3>4. sock'[c].handle = sock[c].handle
      BY <1>25, <3>1, <3>2 DEF CloseGraceful, BeginsClosing, Calls, Typed, SocketType
    <3>5. QED
      BY <3>3, <3>4
  <2>3. \A s \in Threads : pc[s] \in {"close", "mark"} \/ pc'[s] \in {"close", "mark"} =>
            pc'[s] = pc[s] /\ own'[s] = own[s]
    BY <1>25 DEF CloseGraceful, BeginsClosing, Calls, At, Goto, Typed
  <2>4. Aloof
    BY <2>1, <2>2, <2>3 DEF Aloof
  <2>5. QED
    BY <2>4, AloofKeepsNumbers
<1>26. ASSUME NEW c \in Conns, Sends(c) PROVE OwnNumbers'
  <2>1. /\ owner' = owner /\ pc' = pc /\ own' = own
        /\ hist'.overlap = hist.overlap /\ hist'.foreign = hist.foreign
    <3>1. UNCHANGED <<owner, pc, own>>
      BY <1>26 DEF Sends
    <3>2. CASE sock[c].queued = 0
      BY <1>26, <3>1, <3>2, SendingTyped DEF Sends
    <3>3. CASE sock[c].queued # 0
      BY <1>26, <3>1, <3>3 DEF Sends, Typed, HistoryType
    <3>4. QED
      BY <3>1, <3>2, <3>3
  <2>2. sock[c] \in SocketType
    BY DEF Typed
  <2>3. \A d \in Conns : sock'[d].handle = sock[d].handle
    BY <1>26, <2>2 DEF Sends, Typed, SocketType
  <2>4. Aloof
    BY <2>1, <2>3 DEF Aloof
  <2>5. QED
    BY <2>4, AloofKeepsNumbers
<1>27. ASSUME NEW c \in Conns, SendSpins(c) PROVE OwnNumbers'
  <2>1. /\ owner' = owner
        /\ hist'.overlap = hist.overlap /\ hist'.foreign = hist.foreign
    BY <1>27 DEF SendSpins, Calls
  <2>2. sock' = sock
    BY <1>27 DEF SendSpins, Calls
  <2>3. \A s \in Threads : pc[s] \in {"close", "mark"} \/ pc'[s] \in {"close", "mark"} =>
            pc'[s] = pc[s] /\ own'[s] = own[s]
    BY <1>27 DEF SendSpins, MaySend, Calls, At, Goto, Typed
  <2>4. Aloof
    BY <2>1, <2>2, <2>3 DEF Aloof
  <2>5. QED
    BY <2>4, AloofKeepsNumbers
<1>28. QED BY <1>1, <1>2, <1>3, <1>4, <1>5, <1>6, <1>7, <1>8, <1>9, <1>10, <1>11, <1>12,
        <1>13, <1>14, <1>15, <1>16, <1>17, <1>18, <1>19, <1>20, <1>21, <1>22, <1>23, <1>24,
        <1>25, <1>26, <1>27, <1>29
      DEF Next, Runs, Closing, Activates, Kernel

-----------------------------------------------------------------------------
(* The theorems.                                                           *)

\* Before run() there are no queues, no connections and no requests.
LEMMA InitEstablishes == ASSUME Init PROVE IInv
<1>1. Typed
  <2>1. io_array \in ArrayType
    BY DEF Init, ArrayType
  <2>2. pc \in [Threads -> Labels]
    BY DEF Init, Labels, WorkerLabels, UserLabels, MainLabels
  <2>3. own \in [Threads -> OwnType]
    BY DEF Init, Nothing, OwnType
  <2>4. NewSocket \in SocketType
    BY DEF NewSocket, SocketType
  <2>5. NoRequest \in RequestType
    BY DEF NoRequest, RequestType
  <2>6. hist \in HistoryType
    BY DEF Init, HistoryType
  <2>7. running_io \in Int
    BY DEF Init
  <2>8. stopped \in BOOLEAN
    BY Zenon DEF Init
  <2>9. sock \in [Conns -> SocketType] /\ lock \in [Conns -> Threads \cup {NoThread}]
    BY <2>4 DEF Init
  <2>10. /\ owner \in [Handles -> Conns \cup {NoConn}]
        /\ read \in [Conns -> RequestType] /\ write \in [Conns -> RequestType]
        /\ peer \in [Conns -> {"away", "there", "gone"}]
    BY <2>5 DEF Init
  <2>11. QED
    BY <2>1, <2>2, <2>3, <2>6, <2>7, <2>8, <2>9, <2>10 DEF Typed
<1>2. Placed
  BY DEF Init, Placed, Busy, NewSocket, WorkerLabels, UserLabels, MainLabels, AcceptorLabels
<1>3. Queues
  <2>1. Past = {}
    BY DEF Init, Past
  <2>2. Cardinality(Past) = 0
    BY <2>1, FS_EmptySet
  <2>3. pc[Main] = "run" /\ \A w \in Workers : pc[w] = "create"
    BY DEF Init
  <2>4. Gathered
    BY <2>1, <2>2, <2>3 DEF Init, Gathered, At
  <2>5. Counted
    BY <2>1, <2>2, <2>3 DEF Init, Counted, At
  <2>6. QED
    BY <2>2, <2>3, <2>4, <2>5 DEF Init, Queues
<1>4. OwnNumbers
  BY DEF Init, OwnNumbers, Numbered, Closes, NewSocket
<1>5. FrontQueued
  BY DEF Init, FrontQueued, NewSocket, NoRequest
<1>6. QED
  BY <1>1, <1>2, <1>3, <1>4, <1>5 DEF IInv

\* Every step keeps all parts.
LEMMA NextPreserves == ASSUME IInv, [Next]_vars PROVE IInv'
<1>1. CASE Next
  BY <1>1, TypedKept, PlacedKept, QueuesKept, OwnNumbersKept, FrontQueuedKept DEF IInv
<1>2. CASE UNCHANGED vars
  <2>1. Typed' /\ Placed'
    BY <1>2 DEF IInv, vars, Typed, Placed, Busy, Known
  <2>2. Queues'
    BY <1>2 DEF IInv, vars, Queues, Past, Gathered, Counted, At
  <2>3. OwnNumbers' /\ FrontQueued'
    BY <1>2 DEF IInv, vars, OwnNumbers, Numbered, Closes, FrontQueued
  <2>4. QED
    BY <2>1, <2>2, <2>3 DEF IInv
<1>3. QED
  BY <1>1, <1>2

\* The invariant of the Windows implementation, from the start of the workers to stop().
THEOREM Invariance == Spec => []IInv
<1>1. Init => IInv
  BY InitEstablishes
<1>2. IInv /\ [Next]_vars => IInv'
  BY NextPreserves
<1>3. QED
  BY <1>1, <1>2, PTL DEF Spec

\* When run() has returned, however the push_backs of any number of workers overlapped, a
\* socket finds io_array neither empty nor longer than it can be, with a queue in its first
\* slot (create_request_queue, io_service.cpp:224-234); it finds the queues of all workers and
\* nothing else if no two were in push_back at the same time.
THEOREM QueuesFound == Spec => []QueuesKnown
<1>1. ASSUME IInv, pc[Main] # "run", ~stopped
      PROVE  /\ io_array.end \in 1..Cardinality(Workers)
             /\ io_array.slot[1] \in Workers
             /\ ~hist.raced => {io_array.slot[i] : i \in 1..io_array.end} = Workers
  <2>1. Past = Workers /\ Past # {} /\ Counted /\ io_array.end \in Nat
    BY <1>1 DEF IInv, Queues, Typed, ArrayType
  <2>2. ~hist.raced => Gathered
    BY <1>1 DEF IInv, Queues
  <2>3. QED
    BY <2>1, <2>2, PastCounts DEF Counted, Gathered
<1>2. IInv => QueuesKnown
  BY <1>1 DEF QueuesKnown, At
<1>3. QED
  BY <1>2, Invariance, PTL

\* closesocket() hits the connection it is meant for, however often the system gives a
\* number away again, unless two threads close one socket at the same time.
THEOREM ClosesOwn == Spec => []OwnHandle
<1>1. IInv => OwnHandle
  BY DEF IInv, OwnNumbers, Numbered, OwnHandle
<1>2. QED
  BY <1>1, Invariance, PTL

\* submit_sending() does not overwrite send_bind_buffer while a send request reads it.
THEOREM SendBufferKept == Spec => []SendBufferStable
<1>1. IInv => SendBufferStable
  BY DEF IInv, FrontQueued, SendBufferStable
<1>2. QED
  BY <1>1, Invariance, PTL
=============================================================================
