----------------------------- MODULE ChatServer -----------------------------
(***************************************************************************)
(* A program on top of tcp_server: the chat server of examples/chatserver, *)
(* with its pool of clients, the frames its clients send, and the way it   *)
(* ends (main.cpp): wait for a signal, close every client of the pool,     *)
(* wait until the pool is empty, stop the server.  A program may also stop *)
(* the server without waiting, as test/basic_test.cpp does.                *)
(*                                                                         *)
(* The sockets are TcpSocket.tla with the steps of one handler taken       *)
(* together; what is kept is where their requests are, and that a read     *)
(* submitted after socket_handler was reset to 0 is no read of the socket. *)
(***************************************************************************)
EXTENDS TcpServer

CONSTANTS
    Main,         \* the thread of main()
    ReceiveRoom,  \* text that fits into the array of on_receive: 1017 bytes
    ChatRoom,     \* and into the one of client::chat: 996 bytes, and a terminating 0
    Cases         \* bounds, see Case

\* A program that waits for its clients or not, that is told to stop or not, whether
\* accepting may fail, the peers that connect, whether they may leave by themselves, how
\* many frames they send, all together, of which kinds, and how long the texts are.
Case == [patient : BOOLEAN, signal : BOOLEAN, fails : BOOLEAN, who : SUBSET Clients,
         leave : BOOLEAN, frames : Nat, kinds : SUBSET {"chat", "bad", "nil"},
         texts : SUBSET Nat]

ASSUME ChatServerAssumption ==
    /\ Main \notin Workers \cup {NoWorker}
    /\ ReceiveRoom \in Nat /\ ChatRoom \in Nat /\ ChatRoom <= ReceiveRoom
    /\ Cases \subseteq Case

VARIABLES
    clients,  \* pool::clients
    pool,     \* who holds pool::lock
    sock,     \* the tcp_socket of each connection, see NewSocket
    stream,   \* bytes of each peer that wait in the kernel
    buffer,   \* recv_buffer of each socket
    event,    \* the receive or close event a worker is in, see NoEvent
    main,     \* where main() is, and the clients leave_all still has to close
    case,     \* the bounds
    hist      \* history: the texts of each peer, what was chatted for it, frames sent

chatvars == <<clients, pool, sock, stream, buffer, event, main, case, hist>>
allvars == <<vars, chatvars>>

\* ended: the peer left, or the socket was shut down; read: where the one read is;
\* got: what it brought; asked, answered: rings with a shutdown request of this
\* socket in the kernel, or completed.
NewSocket == [connected |-> FALSE, open |-> TRUE, ended |-> FALSE, unsent |-> FALSE,
              graceful |-> FALSE, read |-> "none", ring |-> NoWorker, got |-> <<>>,
              asked |-> {}, answered |-> {}]

NoEvent == [at |-> "none", from |-> NoClient, picked |-> <<>>, todo |-> {}]

ChatInit ==
    /\ Init
    /\ clients = {} /\ pool = NoWorker
    /\ sock = [c \in Clients |-> NewSocket]
    /\ stream = [c \in Clients |-> <<>>]
    /\ buffer = [c \in Clients |-> <<>>]
    /\ event = [w \in Workers |-> NoEvent]
    /\ main = [at |-> "serve", todo |-> {}]
    /\ case \in Cases
    /\ hist = [said |-> [c \in Clients |-> <<>>], chats |-> [c \in Clients |-> <<>>],
                frames |-> 0]

-----------------------------------------------------------------------------
(* Frames.  A frame is a header with the length of what follows, and a     *)
(* text, here the number of the message in every byte.  A "chat" is a      *)
(* request as chatclient makes it (but another client may leave the text   *)
(* empty); a "bad" has another msg; a "nil" is a header whose size is 0.   *)

Text(n, k) == [i \in 1..n |-> <<"text", k>>]
Frame(kind, text) == <<<<kind, Len(text)>>>> \o text

\* Mutant: a text that ends the buffer is not there yet.
Whole_More(b) == Len(b) > 0 /\ Len(b) > b[1][2] + 1

\* Both buf->read succeed.
Whole(b) == Len(b) > 0 /\ Len(b) > b[1][2]

\* Mutant: the header is not counted.
FrameLength_Text(b) == b[1][2]

FrameLength(b) == 1 + b[1][2]

Kind(b) == b[1][1]

\* Mutant: the frame is put in front of the array, not over it.
Picked_Shifted(old, b, n) == SubSeq(b, 1, n) \o SubSeq(old, 2, Len(old))

\* What buf->read leaves in the array of on_receive, which is cleared once per call.
Picked(old, b, n) == SubSeq(b, 1, n) \o SubSeq(old, n + 1, Len(old))

\* client::chat copies the text up to its terminating 0, behind a header of its own.
ChatFits(picked) == Len(picked) - 1 <= ChatRoom

InProgress(c) == client[c] \in {"queued", "accepted", "active"}

\* chatclient sends a line, or some other program something else.
Says(c) ==
    /\ InProgress(c) /\ ~sock[c].ended /\ hist.frames < case.frames
    /\ \E kind \in case.kinds : \E n \in (IF kind = "chat" THEN case.texts ELSE {0}) :
          LET text == Text(n, Len(hist.said[c]) + 1)
          IN  /\ stream' = [stream EXCEPT ![c] = @ \o Frame(kind, text)]
              /\ hist' = [hist EXCEPT !.frames = @ + 1,
                                      !.said[c] = IF n = 0 THEN @ ELSE Append(@, text)]
    /\ UNCHANGED <<vars, clients, pool, sock, buffer, event, main, case>>

Leaves(c) ==
    /\ InProgress(c) /\ ~sock[c].ended /\ case.leave
    /\ sock' = [sock EXCEPT ![c].ended = TRUE]
    /\ UNCHANGED <<vars, clients, pool, stream, buffer, event, main, case, hist>>

-----------------------------------------------------------------------------
(* The kernel and the sockets.                                             *)

\* submit_receiving(): descriptor 0 is not this connection's.
Reread(s) == IF s.open THEN "pending" ELSE "stray"

\* readv: some of what is there, or the end.
KernelReads(c) ==
    /\ sock[c].read = "pending"
    /\ stream[c] # <<>> \/ sock[c].ended
    /\ \E n \in (IF stream[c] = <<>> THEN {0} ELSE 1..Len(stream[c])) :
          /\ sock' = [sock EXCEPT ![c].read = "done", ![c].got = SubSeq(stream[c], 1, n)]
          /\ stream' = [stream EXCEPT ![c] = SubSeq(@, n + 1, Len(@))]
    /\ UNCHANGED <<vars, clients, pool, buffer, event, main, case, hist>>

KernelShuts(c) ==
    /\ sock[c].asked # {}
    /\ sock' = [sock EXCEPT ![c].asked = {}, ![c].ended = TRUE,
                            ![c].answered = @ \cup sock[c].asked]
    /\ UNCHANGED <<vars, clients, pool, stream, buffer, event, main, case, hist>>

Free(w) == worker[w].at = "wait" /\ event[w].at = "none"

\* All writes of c complete: io_sent, and on_send_complete on that worker.
Drains(w, c) ==
    /\ Free(w) /\ sock[c].unsent /\ ~sock[c].ended
    /\ sock' = [sock EXCEPT ![c].unsent = FALSE,
                            ![c].asked = IF sock[c].graceful THEN @ \cup {w} ELSE @]
    /\ UNCHANGED <<vars, clients, pool, stream, buffer, event, main, case, hist>>

\* A read with data: io_received submits the next one, then the receive event begins.
TakesData(w, c) ==
    /\ Free(w) /\ sock[c].read = "done" /\ sock[c].ring = w /\ sock[c].got # <<>>
    /\ buffer' = [buffer EXCEPT ![c] = @ \o sock[c].got]
    /\ sock' = [sock EXCEPT ![c].read = Reread(sock[c]), ![c].got = <<>>]
    /\ event' = [event EXCEPT ![w] = [NoEvent EXCEPT !.at = "receive", !.from = c]]
    /\ UNCHANGED <<vars, clients, pool, stream, main, case, hist>>

\* A read without: io_shutdown, and the close event begins.
TakesEnd(w, c) ==
    /\ Free(w) /\ sock[c].read = "done" /\ sock[c].ring = w /\ sock[c].got = <<>>
    /\ sock' = [sock EXCEPT ![c].read = "none", ![c].connected = FALSE]
    /\ event' = [event EXCEPT ![w] = [NoEvent EXCEPT !.at = "close", !.from = c]]
    /\ UNCHANGED <<vars, clients, pool, stream, buffer, main, case, hist>>

\* The completion of a shutdown request: socket_handler = 0, ::close.
TakesShut(w, c) ==
    /\ Free(w) /\ w \in sock[c].answered
    /\ sock' = [sock EXCEPT ![c].answered = @ \ {w}, ![c].open = FALSE]
    /\ stream' = [stream EXCEPT ![c] = <<>>]
    /\ UNCHANGED <<vars, clients, pool, buffer, event, main, case, hist>>

-----------------------------------------------------------------------------
(* event_receiver and pool, in the workers.                                *)

\* Mutant: a lock that is taken is not waited for.
OnAccept_Tries(w) ==
    /\ Reports(w)
    /\ clients' = IF pool = NoWorker THEN clients \cup {worker[w].peer} ELSE clients
    /\ UNCHANGED <<pool, sock, stream, buffer, event, main, case, hist>>

\* on_accept: a client in the pool, before the next accept and before on_active.
OnAccept(w) ==
    /\ pool = NoWorker
    /\ Reports(w)
    /\ clients' = clients \cup {worker[w].peer}
    /\ UNCHANGED <<pool, sock, stream, buffer, event, main, case, hist>>

\* on_active: connected, and the first read on the ring of the accepting worker.
OnActive(w) ==
    /\ Activates(w)
    /\ LET c == worker[w].peer
       IN  sock' = [sock EXCEPT ![c].connected = TRUE, ![c].read = Reread(sock[c]),
                                ![c].ring = w]
    /\ UNCHANGED <<clients, pool, stream, buffer, event, main, case, hist>>

InReceive(w) == event[w].at = "receive"
Said(w) == buffer[event[w].from]

\* Receive all not yet.
Breaks(w) ==
    /\ InReceive(w) /\ ~Whole(Said(w))
    /\ event' = [event EXCEPT ![w] = NoEvent]
    /\ UNCHANGED <<vars, clients, pool, sock, stream, buffer, main, case, hist>>

Pops(w) == buffer' = [buffer EXCEPT ![event[w].from] =
                          SubSeq(@, FrameLength(@) + 1, Len(@))]

\* The array once the frame in front of the buffer has been read.
Reads(w) == Picked(event[w].picked, Said(w), FrameLength(Said(w)))

\* A frame of that kind that fits into the array.
NextIs(w, kind) == /\ InReceive(w) /\ Whole(Said(w)) /\ Kind(Said(w)) = kind
                     /\ Said(w)[1][2] <= ReceiveRoom

\* A text that does not fit into one of the arrays: what follows is undefined, and the
\* worker is followed no further.
Overruns(w) ==
    /\ InReceive(w) /\ Whole(Said(w))
    /\ \/ Said(w)[1][2] > ReceiveRoom
       \/ Kind(Said(w)) = "chat" /\ Said(w)[1][2] > 0 /\ ~ChatFits(Reads(w))
    /\ event' = [event EXCEPT ![w].at = "corrupt"]
    /\ UNCHANGED <<vars, clients, pool, sock, stream, buffer, main, case, hist>>

\* An invalid message: close( force ), from the worker's own ring.
Refuses(w) ==
    /\ NextIs(w, "bad")
    /\ Pops(w)
    /\ sock' = [sock EXCEPT ![event[w].from].asked = @ \cup {w}]
    /\ event' = [event EXCEPT ![w] = NoEvent]
    /\ UNCHANGED <<vars, clients, pool, stream, main, case, hist>>

\* A request whose chat_size is 0.
Skips(w) ==
    /\ NextIs(w, "chat") /\ Said(w)[1][2] = 0
    /\ Pops(w)
    /\ event' = [event EXCEPT ![w].picked = Reads(w)]
    /\ UNCHANGED <<vars, clients, pool, sock, stream, main, case, hist>>

\* client::chat: the text is what follows the header in the array.
Chats(w) ==
    /\ NextIs(w, "chat") /\ Said(w)[1][2] > 0 /\ ChatFits(Reads(w))
    /\ Pops(w)
    /\ event' = [event EXCEPT ![w].at = "chat", ![w].picked = Reads(w)]
    /\ hist' = [hist EXCEPT !.chats[event[w].from] = Append(@, Tail(Reads(w)))]
    /\ UNCHANGED <<vars, clients, pool, sock, stream, main, case>>

\* A size of 0 pops nothing: the loop never gets past this header.  The request before it
\* in the array is chatted again (hist does not count that); with none, or an empty one,
\* the loop turns without a step.
Repeats(w) ==
    /\ NextIs(w, "nil")
    /\ event[w].picked # <<>> /\ event[w].picked[1][2] > 0
    /\ event' = [event EXCEPT ![w].at = "chat"]
    /\ UNCHANGED <<vars, clients, pool, sock, stream, buffer, main, case, hist>>

\* pool::chat_all: under the lock, a send() to every client in turn.
ChatLocks(w) ==
    /\ event[w].at = "chat"
    /\ pool = NoWorker /\ pool' = w
    /\ event' = [event EXCEPT ![w].at = "all", ![w].todo = clients]
    /\ UNCHANGED <<vars, clients, sock, stream, buffer, main, case, hist>>

ChatSends(w) ==
    /\ event[w].at = "all"
    /\ \E c \in event[w].todo :
          /\ event' = [event EXCEPT ![w].todo = @ \ {c}]
          /\ sock' = [sock EXCEPT ![c].unsent = @ \/ (sock[c].connected /\ ~sock[c].graceful)]
    /\ UNCHANGED <<vars, clients, pool, stream, buffer, main, case, hist>>

ChatUnlocks(w) ==
    /\ event[w].at = "all" /\ event[w].todo = {}
    /\ pool' = NoWorker
    /\ event' = [event EXCEPT ![w].at = "receive"]
    /\ UNCHANGED <<vars, clients, sock, stream, buffer, main, case, hist>>

OnClose(w) ==
    /\ event[w].at = "close"
    /\ pool = NoWorker
    /\ clients' = clients \ {event[w].from}
    /\ event' = [event EXCEPT ![w] = NoEvent]
    /\ UNCHANGED <<vars, pool, sock, stream, buffer, main, case, hist>>

-----------------------------------------------------------------------------
(* main().                                                                 *)

\* The signal ends app_stop.wait.
Interrupted ==
    /\ main.at = "serve" /\ case.signal
    /\ main' = [main EXCEPT !.at = IF case.patient THEN "leave" ELSE "stop"]
    /\ UNCHANGED <<vars, clients, pool, sock, stream, buffer, event, case, hist>>

LeaveLocks ==
    /\ main.at = "leave"
    /\ pool = NoWorker /\ pool' = Main
    /\ main' = [main EXCEPT !.at = "leaving", !.todo = clients]
    /\ UNCHANGED <<vars, clients, sock, stream, buffer, event, case, hist>>

\* Mutant: the close is always left to io_sent.
LeaveCloses_Later ==
    /\ main.at = "leaving"
    /\ \E c \in main.todo :
          /\ main' = [main EXCEPT !.todo = @ \ {c}]
          /\ sock' = [sock EXCEPT ![c].graceful = TRUE]
    /\ UNCHANGED <<vars, clients, pool, stream, buffer, event, case, hist>>

\* close( graceful ), whose request goes to a random ring.
LeaveCloses ==
    /\ main.at = "leaving"
    /\ \E c \in main.todo, r \in Workers :
          /\ main' = [main EXCEPT !.todo = @ \ {c}]
          /\ sock' = [sock EXCEPT ![c].graceful = @ \/ sock[c].unsent,
                                  ![c].asked = IF sock[c].unsent THEN @ ELSE @ \cup {r}]
    /\ UNCHANGED <<vars, clients, pool, stream, buffer, event, case, hist>>

LeaveUnlocks ==
    /\ main.at = "leaving" /\ main.todo = {}
    /\ pool' = NoWorker
    /\ main' = [main EXCEPT !.at = "wait"]
    /\ UNCHANGED <<vars, clients, sock, stream, buffer, event, case, hist>>

\* wait_for_leave looks at the pool without its lock.
WaitEnds ==
    /\ main.at = "wait" /\ clients = {}
    /\ main' = [main EXCEPT !.at = "stop"]
    /\ UNCHANGED <<vars, clients, pool, sock, stream, buffer, event, case, hist>>

ServerStops ==
    /\ main.at = "stop"
    /\ Stops
    /\ main' = [main EXCEPT !.at = "end"]
    /\ UNCHANGED <<clients, pool, sock, stream, buffer, event, case, hist>>

-----------------------------------------------------------------------------

Serves(w) == \/ OnAccept(w) \/ OnActive(w)
             \/ /\ event[w].at = "none"
                /\ Accepts(w) \/ Drops(w) \/ SubmitsNext(w)
                   \/ TakesShutdown(w) \/ Zeroes(w) \/ Closes(w)
                /\ UNCHANGED chatvars

Events(w) == \/ \E c \in Clients : TakesData(w, c) \/ TakesEnd(w, c) \/ TakesShut(w, c)
             \/ Breaks(w) \/ Overruns(w) \/ Refuses(w) \/ Skips(w) \/ Chats(w) \/ Repeats(w)
             \/ ChatLocks(w) \/ ChatSends(w) \/ ChatUnlocks(w) \/ OnClose(w)

MainSteps == LeaveLocks \/ LeaveCloses \/ LeaveUnlocks \/ WaitEnds \/ ServerStops

ChatNext == \/ \E c \in Clients : \/ c \in case.who /\ Connects(c) /\ UNCHANGED chatvars
                                  \/ Says(c) \/ Leaves(c)
                                  \/ KernelReads(c) \/ KernelShuts(c)
                                  \/ \E w \in Workers : Drains(w, c)
            \/ (Kernel \/ (case.fails /\ KernelFails)) /\ UNCHANGED chatvars
            \/ \E w \in Workers : Serves(w) \/ Events(w)
            \/ Interrupted \/ MainSteps

\* As in TcpServer; peers take what is sent to them, but need not say anything or leave.
ChatSpec == /\ ChatInit /\ [][ChatNext]_allvars
            /\ WF_allvars(Kernel /\ UNCHANGED chatvars)
            /\ WF_allvars(\E c \in Clients : KernelReads(c) \/ KernelShuts(c))
            /\ WF_allvars(\E w \in Workers : Serves(w) \/ Events(w)
                                              \/ \E c \in Clients : Drains(w, c))
            /\ WF_allvars(MainSteps)

-----------------------------------------------------------------------------
(* Properties.                                                             *)

Byte == {"text", "chat", "bad", "nil"} \X Nat

Socket == [connected : BOOLEAN, open : BOOLEAN, ended : BOOLEAN, unsent : BOOLEAN,
           graceful : BOOLEAN, read : {"none", "pending", "done", "stray"},
           ring : Workers \cup {NoWorker}, got : Seq(Byte),
           asked : SUBSET Workers, answered : SUBSET Workers]

Event == [at : {"none", "receive", "chat", "all", "close", "corrupt"}, from : Clients \cup {NoClient},
          picked : Seq(Byte), todo : SUBSET Clients]

ChatTypeOK ==
    /\ clients \subseteq Clients
    /\ pool \in Workers \cup {Main, NoWorker}
    /\ sock \in [Clients -> Socket]
    /\ stream \in [Clients -> Seq(Byte)] /\ buffer \in [Clients -> Seq(Byte)]
    /\ event \in [Workers -> Event]
    /\ main \in [at : {"serve", "leave", "leaving", "wait", "stop", "end"},
                 todo : SUBSET Clients]
    /\ case \in Cases
    /\ hist \in [said : [Clients -> Seq(Seq(Byte))], chats : [Clients -> Seq(Seq(Byte))],
                frames : Nat]

\* Receive events are about clients of the pool: on_accept has added the client before
\* its first read is submitted, and nothing is received after the close event has taken
\* it out, although the pool is used by all workers and by main().
EventsInPool == \A w \in Workers : InReceive(w) => event[w].from \in clients

InEvent(w) == worker[w].at = "event" \/ event[w].at # "none"

\* Events of one server never run at the same time, however many workers there are: an
\* accept is submitted by the worker that handled the one before, the reads of a socket
\* by the one that accepted it.  (So the other workers of a server see no reads at all.)
EventsSerial == Cardinality({w \in Workers : InEvent(w)}) <= 1

\* However the frames are cut on their way, no text is chatted before or without the ones
\* said before it, and none twice (but see Repeats); each is chatted with its text in
\* front.  Bytes of an earlier frame of the same call may follow, since the text is taken
\* to its terminating 0 and the array is cleared once per call: only if that frame was
\* longer.
ChatsAsSaid ==
    \A c \in Clients :
        LET texts == hist.said[c]
            chats == hist.chats[c]
        IN  /\ Len(chats) <= Len(texts)
            /\ \A i \in DOMAIN chats :
                  /\ Len(chats[i]) >= Len(texts[i])
                  /\ SubSeq(chats[i], 1, Len(texts[i])) = texts[i]
                  /\ \/ Len(chats[i]) = Len(texts[i])
                     \/ \E j \in 1..(i - 1) : Len(texts[j]) > Len(texts[i])

\* A worker is in on_receive for good: at a header whose size is 0, or in an array that was
\* overrun.
Stuck(w) == event[w].at = "corrupt" \/ NextIs(w, "nil")

\* What a connected client says is chatted to the end: no text stays behind in the socket
\* or in recv_buffer, unless the connection has been shut down, the client has left, or a
\* worker is stuck.
SaidIsChatted ==
    \A c \in Clients :
        client[c] = "active" /\ hist.said[c] # <<>>
            ~> \/ Len(hist.chats[c]) = Len(hist.said[c]) \/ sock[c].ended
               \/ \E w \in Workers : Stuck(w)

\* The arrays of on_receive and client::chat are overrun only for a client that has sent
\* a text longer than client::chat has room for: never by what an earlier frame of the
\* same call has left behind the text, and never by a frame cut on its way.
ArraysHold ==
    \A w \in Workers :
        event[w].at = "corrupt" =>
            \E i \in DOMAIN hist.said[event[w].from] :
                Len(hist.said[event[w].from][i]) > ChatRoom

\* A client that joined after leave_all had looked, and that nobody asks to leave.
Overlooked ==
    /\ main.at = "wait"
    /\ \E c \in clients : /\ sock[c].open /\ ~sock[c].graceful
                          /\ sock[c].asked = {} /\ sock[c].answered = {}

\* A client whose read waits for descriptor 0, see CloseAnswered in TcpSocket.tla.
Astray == \E c \in clients : sock[c].read = "stray"

\* Told to stop, the program empties its pool and stops the server, unless a client joins
\* too late to be closed or a socket is closed so early that its close event is lost.
ServerEnds == main.at = "leave" ~> (main.at = "end" \/ Overlooked \/ Astray)
=============================================================================
