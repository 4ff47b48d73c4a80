----------------------------- MODULE SendQueue ------------------------------
(***************************************************************************)
(* How tcp_socket::send, socket_object::io_sent and the kernel share the   *)
(* send_buffer of one socket.  send and io_sent hold socket_object::lock   *)
(* over their use of the buffer, so each is one action here; the kernel    *)
(* reads the buffer's memory in between, with no lock, whenever it likes.  *)
(* The module is about the socket from on_active() up to io_shutdown(),    *)
(* which destroys the buffer without the lock: TcpSocket.tla has that.     *)
(***************************************************************************)
EXTENDS IoDoubleBuffer

CONSTANTS
    BufferSize,  \* RIORING_DATA_BUFFER_SIZE
    MaxChunk,    \* bound: the most bytes in one send()
    MaxBytes     \* bound: the number of bytes ever sent

ASSUME SendQueueAssumption ==
    /\ BufferSize \in Nat \ {0}
    /\ MaxChunk \in Nat
    /\ MaxBytes \in Nat

VARIABLES
    send_buffer,  \* the io_double_buffer
    write,        \* the write request of this socket, see Write
    accepted,     \* history: how many bytes send() has taken
    wire,         \* history: the bytes the kernel has taken for the peer
    failed,       \* history: io_service::io has reported a failed write
    fresh         \* the next allocation malloc hands out

vars == <<send_buffer, write, accepted, wire, failed, fresh>>

(***************************************************************************)
(* At most one write is under way: "submitted" while the kernel has it,    *)
(* "done" when its completion reports res bytes, "refused" when it reports *)
(* an error.  io_service::io reports the error and forgets the request.     *)
(***************************************************************************)
Write == [st  : {"none", "submitted", "done", "refused"},
          raw : Nat, len : Nat, res : Nat]

NoWrite == [st |-> "none", raw |-> NULL, len |-> 0, res |-> 0]

\* tcp_socket::submit_sending: the request points into main_buffer.
Submitted(d) == [st |-> "submitted", raw |-> DRaw(d), len |-> DSize(d), res |-> 0]

Init == /\ send_buffer = DAssigned(NoDoubleBuffer, 1, BufferSize)
        /\ write = NoWrite
        /\ accepted = 0
        /\ wire = <<>>
        /\ failed = FALSE
        /\ fresh = 2

Chunk(n) == [i \in 1..n |-> accepted + i]

Send(n) ==
    /\ accepted + n <= MaxBytes
    /\ ~DPushSpins(send_buffer, n)
    /\ \E d \in DPushes(send_buffer, Chunk(n), fresh) :
          /\ send_buffer' = d
          /\ write' = IF DEmpty(send_buffer) THEN Submitted(d) ELSE write
    /\ accepted' = accepted + n
    /\ fresh' = fresh + 1
    /\ UNCHANGED <<wire, failed>>

\* The kernel takes the first k bytes, which need not be all of them.
KernelWrites(k) ==
    /\ write.st = "submitted"
    /\ wire' = wire \o Memory(send_buffer, write.raw, k)
    /\ write' = [write EXCEPT !.st = "done", !.res = k]
    /\ UNCHANGED <<send_buffer, accepted, failed, fresh>>

KernelRefuses ==
    /\ write.st = "submitted"
    /\ write' = [write EXCEPT !.st = "refused"]
    /\ UNCHANGED <<send_buffer, accepted, wire, failed, fresh>>

\* Mutant: what a partial write left over is not submitted again.
IoSent_Forgets ==
    /\ write.st = "done"
    /\ send_buffer' = Elevated(DPopped(send_buffer, write.res))
    /\ write' = NoWrite
    /\ UNCHANGED <<accepted, wire, failed, fresh>>

IoSent ==
    /\ write.st = "done"
    /\ LET d == Elevated(DPopped(send_buffer, write.res))
       IN  /\ send_buffer' = d
           /\ write' = IF DEmpty(d) THEN NoWrite ELSE Submitted(d)
    /\ UNCHANGED <<accepted, wire, failed, fresh>>

\* A failed write is reported to the user and nothing else: what is queued
\* stays queued, and no later send() will submit it.
IoError ==
    /\ write.st = "refused"
    /\ write' = NoWrite
    /\ failed' = TRUE
    /\ UNCHANGED <<send_buffer, accepted, wire, fresh>>

Next == \/ \E n \in 1..MaxChunk : Send(n)
        \/ \E k \in 1..write.len : KernelWrites(k)
        \/ KernelRefuses
        \/ IoSent
        \/ IoError

Spec == Init /\ [][Next]_vars

\* The peer keeps reading, the kernel completes what it was given, and the
\* worker that owns the ring handles its completions.
FairSpec == /\ Spec
            /\ WF_vars(\E k \in 1..write.len : KernelWrites(k))
            /\ WF_vars(IoSent)
            /\ WF_vars(IoError)

-----------------------------------------------------------------------------

WellFormed(b) == b \in Buffer /\ Len(b.data) <= b.size

\* Types, and the promise "Never overflow buffer": no buffer ever holds more
\* bytes than its allocation has room for.
TypeOK == /\ send_buffer \in DoubleBuffer
          /\ WellFormed(send_buffer.main)
          /\ WellFormed(send_buffer.sub)
          /\ write \in Write
          /\ accepted \in Nat
          /\ wire \in Seq(Nat)
          /\ failed \in BOOLEAN
          /\ fresh \in Nat \ {0}

\* While the kernel has the write, the memory it points to is still the main
\* buffer's, and still holds the bytes that were submitted: no push in between
\* reallocated, moved or freed it.
InFlightStable ==
    write.st \in {"submitted", "refused"} =>
        /\ write.raw = send_buffer.main.raw
        /\ write.raw # NULL
        /\ write.len \in 1 .. Len(send_buffer.main.data)
        /\ Memory(send_buffer, write.raw, write.len)
              = [i \in 1..write.len |-> Len(wire) + i]

\* send() decides from the emptiness of the buffer whether a write is under way.
\* An empty buffer never has one, and bytes wait without one exactly when a write
\* has failed: io_service::io submits nothing in its place and leaves the bytes in
\* the buffer, so that no later send() finds it empty again.
WriteIffQueued ==
    /\ write.st # "none" => ~DEmpty(send_buffer)
    /\ write.st = "none" /\ ~DEmpty(send_buffer) <=> failed

\* Bytes wait in the sub buffer only behind bytes of the main one; a write of
\* main_buffer is never submitted empty.
SubBehindMain == ~Empty(send_buffer.sub) => ~Empty(send_buffer.main)

\* The send path implements the abstract byte stream.
Abstract == INSTANCE ByteStream WITH broken <- failed \/ write.st = "refused"

\* Every accepted byte reaches the wire once, in order (safety), and all of them
\* do unless a write fails (liveness).
ImplementsStream == Abstract!Stream

\* While a write is with the kernel or its result unread, main_buffer keeps its
\* allocation and only grows at its end.
MainOnlyAppendedTo ==
    [][write.st \in {"submitted", "refused"} =>
          /\ send_buffer'.main.raw = send_buffer.main.raw
          /\ SubSeq(send_buffer'.main.data, 1, Len(send_buffer.main.data))
                = send_buffer.main.data]_vars
-----------------------------------------------------------------------------
(***************************************************************************)
(* The inductive invariant behind the properties above.                    *)
(***************************************************************************)

MainLen == Len(send_buffer.main.data)

SubLen == Len(send_buffer.sub.data)

\* How many bytes io_sent has popped.  The buffers hold those that follow.
Gone == accepted - MainLen - SubLen

BytesInOrder ==
    /\ Gone \in Nat
    /\ \A i \in 1..MainLen : send_buffer.main.data[i] = Gone + i
    /\ \A i \in 1..SubLen : send_buffer.sub.data[i] = Gone + MainLen + i
    /\ \A i \in 1..Len(wire) : wire[i] = i

\* main_buffer always has an allocation; sub_buffer has one of its own when it
\* holds bytes and is as good as never used when it does not.
Allocations ==
    /\ send_buffer.main.raw \in 1 .. fresh - 1
    /\ send_buffer.main.block > 0
    /\ IF SubLen = 0
       THEN send_buffer.sub = NoBuffer
       ELSE /\ send_buffer.sub.raw \in (1 .. fresh - 1) \ {send_buffer.main.raw}
            /\ send_buffer.sub.block > 0
            /\ MainLen > 0

\* How far the write is along, against what has gone out.
WriteProgress ==
    /\ failed => write.st = "none" /\ MainLen > 0
    /\ write.st = "none" => (MainLen > 0 => failed) /\ Len(wire) = Gone
    /\ write.st # "none" => MainLen > 0
    /\ write.st \in {"submitted", "refused"} =>
          /\ write.raw = send_buffer.main.raw
          /\ write.len \in 1..MainLen
    /\ write.st \in {"submitted", "refused"} => Len(wire) = Gone
    /\ write.st = "done" =>
          /\ write.res \in 1..MainLen
          /\ Len(wire) = Gone + write.res

IInv == TypeOK /\ BytesInOrder /\ Allocations /\ WriteProgress
=============================================================================
