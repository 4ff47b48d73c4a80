--------------------------- MODULE IoDoubleBuffer ---------------------------
(***************************************************************************)
(* rioring::io_double_buffer (io_double_buffer.h, io_double_buffer.cpp):   *)
(* two io_buffers, as operators on a record [main, sub].  The kernel reads *)
(* a pending write out of main_buffer, so a push may only append to it in  *)
(* place; what does not fit goes to sub_buffer, which elevate() makes the  *)
(* main one when main has been written.                                    *)
(***************************************************************************)
EXTENDS IoBuffer

DoubleBuffer == [main : Buffer, sub : Buffer]

NoDoubleBuffer == [main |-> NoBuffer, sub |-> NoBuffer]

\* assign(n): main_buffer only.
DAssigned(d, p, n) == [d EXCEPT !.main = Assigned(p, n)]

DEmpty(d) == Empty(d.main) /\ Empty(d.sub)

\* size() and operator*: what the next write is made of.
DSize(d) == Len(d.main.data)
DRaw(d) == d.main.raw

LargerOf(a, b) == IF a < b THEN b ELSE a

\* sub_buffer as the overflow branch of push finds or makes it.
SubForOverflow(d, n, fresh) ==
    IF d.sub.size = 0 THEN Assigned(fresh, LargerOf(n * 2, d.main.size)) ELSE d.sub

ToMain(d, bytes, fresh) == {[d EXCEPT !.main = b] : b \in Pushes(d.main, bytes, fresh)}

ToSub(d, s, bytes, fresh) == {[d EXCEPT !.sub = b] : b \in Pushes(s, bytes, fresh)}

\* Mutants: main_buffer takes everything; what sub_buffer holds is overtaken.
DPushes_MainOnly(d, bytes, fresh) == ToMain(d, bytes, fresh)
DPushes_Overtakes(d, bytes, fresh) ==
    IF ~Empty(d.main) /\ Overflows(d.main, Len(bytes))
    THEN ToSub(d, SubForOverflow(d, Len(bytes), fresh), bytes, fresh)
    ELSE ToMain(d, bytes, fresh)

\* push: behind what sub_buffer holds already, else into main_buffer when it
\* is empty or has the room, else into sub_buffer.
DPushes(d, bytes, fresh) ==
    IF ~Empty(d.sub) THEN ToSub(d, d.sub, bytes, fresh)
    ELSE IF ~Empty(d.main) /\ Overflows(d.main, Len(bytes))
         THEN ToSub(d, SubForOverflow(d, Len(bytes), fresh), bytes, fresh)
         ELSE ToMain(d, bytes, fresh)

\* The push that reaches the endless loop of io_buffer::push.
DPushSpins(d, n) ==
    IF ~Empty(d.sub) THEN PushSpins(d.sub, n)
    ELSE Empty(d.main) /\ PushSpins(d.main, n)

DPopped(d, n) == [d EXCEPT !.main = Popped(d.main, n)]

\* elevate(): the sub buffer becomes the main one when main is used up.
Elevated(d) ==
    IF Empty(d.main) /\ ~Empty(d.sub)
    THEN [main |-> d.sub, sub |-> NoBuffer]
    ELSE d

\* What the kernel finds in the first k bytes of allocation p.
Memory(d, p, k) ==
    LET held == IF p = NULL THEN <<>>
                ELSE IF p = d.main.raw THEN d.main.data
                ELSE IF p = d.sub.raw THEN d.sub.data
                ELSE <<>>
    IN  [i \in 1..k |-> IF i <= Len(held) THEN held[i] ELSE Garbage]
=============================================================================
