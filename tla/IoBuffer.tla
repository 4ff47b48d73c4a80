------------------------------ MODULE IoBuffer ------------------------------
(***************************************************************************)
(* rioring::io_buffer, the growable byte buffer (io_buffer.h,              *)
(* io_buffer.cpp), as operators on a record:                               *)
(*                                                                         *)
(*   raw    raw_buffer, the allocation that holds the bytes (NULL: none)   *)
(*   data   the bytes of raw_buffer below buffer_offset                    *)
(*   size   buffer_size, the capacity                                      *)
(*   block  block_size, the unit of growth                                 *)
(*                                                                         *)
(* An allocation is a number that is never used twice, so that memory that *)
(* was freed is told apart from memory that is live.  A byte is a number   *)
(* that says which byte of its stream it is; Garbage stands for whatever   *)
(* is read from memory that no longer holds the byte.                      *)
(***************************************************************************)
EXTENDS Integers, Sequences

NULL == 0
Garbage == 0

Buffer == [raw : Nat, data : Seq(Nat), size : Nat, block : Nat]

\* A default-constructed, destroyed or moved-from buffer.
NoBuffer == [raw |-> NULL, data |-> <<>>, size |-> 0, block |-> 0]

\* assign(n) with the allocation p; what raw_buffer pointed to is freed.
Assigned(p, n) == [raw |-> p, data |-> <<>>, size |-> n, block |-> n]

Destroyed(b) == IF b.raw = NULL THEN b ELSE NoBuffer

Empty(b) == b.data = <<>>

Overflows(b, n) == Len(b.data) + n > b.size

\* Mutant: the loop stops as soon as the capacity might do.
GrownSize_OneShort(need, size, block) == size + block * ((need - size) \div block)

\* The capacity the two loops of push settle on: the first of size + block,
\* size + 2 * block, ... that is strictly above need.
GrownSize(need, size, block) == size + block * (((need - size) \div block) + 1)

\* With no block to grow by, the inner loop of push never ends.
PushSpins(b, n) == Overflows(b, n) /\ b.block = 0

\* What push may leave behind.  std::realloc keeps the allocation or moves it
\* to a fresh one.
Pushes(b, bytes, fresh) ==
    LET n == Len(bytes)
        d == b.data \o bytes
    IN  IF Overflows(b, n)
        THEN {[b EXCEPT !.raw = p, !.data = d,
                        !.size = GrownSize(Len(b.data) + n, b.size, b.block)]
                : p \in {b.raw, fresh}}
        ELSE {[b EXCEPT !.data = d]}

\* Mutant: > for >=, so a buffer is never emptied.
Popped_Strict(b, n) ==
    IF Len(b.data) > n
    THEN [b EXCEPT !.data = SubSeq(b.data, n + 1, Len(b.data))]
    ELSE b

\* pop(n) ignores a request for more than there is.
Popped(b, n) ==
    IF Len(b.data) >= n
    THEN [b EXCEPT !.data = SubSeq(b.data, n + 1, Len(b.data))]
    ELSE b
=============================================================================
