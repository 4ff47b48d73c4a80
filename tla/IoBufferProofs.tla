--------------------------- MODULE IoBufferProofs ---------------------------
(***************************************************************************)
(* Lemmas about the operators of IoBuffer.tla and IoDoubleBuffer.tla,      *)
(* which the proofs about the sockets that use the buffers rest on.        *)
(***************************************************************************)
EXTENDS IoDoubleBuffer, SequenceTheorems, TLAPS

-----------------------------------------------------------------------------
(* One io_buffer.                                                          *)

\* The loops of io_buffer::push (io_buffer.cpp:78-85) settle on a capacity above
\* what is needed, whatever the block size.
LEMMA GrownSizeFits ==
    ASSUME NEW need \in Nat, NEW size \in Nat, NEW block \in Nat,
           block > 0, need > size
    PROVE  /\ GrownSize(need, size, block) \in Nat
           /\ GrownSize(need, size, block) > need
<1> DEFINE q == (need - size) \div block
<1> DEFINE r == (need - size) % block
<1>1. q \in Nat /\ r \in 0 .. block - 1 /\ need - size = block * q + r
  OBVIOUS
<1>2. block * (q + 1) = block * q + block
  BY <1>1
<1>3. block * (q + 1) > need - size /\ block * (q + 1) \in Nat
  BY <1>1, <1>2
<1>4. QED
  BY <1>3 DEF GrownSize

\* What the buffer operations below work on.
LEMMA BufferFields ==
    ASSUME NEW b \in Buffer
    PROVE  /\ b.data \in Seq(Nat) /\ Len(b.data) \in Nat
           /\ b.size \in Nat /\ b.block \in Nat /\ b.raw \in Nat
           /\ Empty(b) <=> Len(b.data) = 0
<1>1. b.data \in Seq(Nat) /\ b.size \in Nat /\ b.block \in Nat /\ b.raw \in Nat
  BY DEF Buffer
<1>2. QED
  BY <1>1, LenProperties, EmptySeq DEF Empty

\* A push that does not spin (io_buffer.cpp:77-89) appends the bytes and leaves room
\* for them; it keeps the allocation when they fit.
LEMMA PushesAppends ==
    ASSUME NEW b \in Buffer, NEW bytes \in Seq(Nat), NEW new \in Nat,
           ~PushSpins(b, Len(bytes)), NEW r \in Pushes(b, bytes, new)
    PROVE  /\ r \in Buffer /\ Len(r.data) <= r.size
           /\ r.data = b.data \o bytes
           /\ r.block = b.block
           /\ r.raw \in {b.raw, new}
           /\ ~Overflows(b, Len(bytes)) => r.raw = b.raw
<1>1. /\ b.data \o bytes \in Seq(Nat)
      /\ Len(b.data \o bytes) = Len(b.data) + Len(bytes)
      /\ Len(b.data) \in Nat /\ Len(bytes) \in Nat
      /\ b.size \in Nat /\ b.block \in Nat /\ b.raw \in Nat
  BY BufferFields, ConcatProperties, LenProperties
<1>2. CASE Overflows(b, Len(bytes))
  <2> DEFINE need == Len(b.data) + Len(bytes)
  <2> DEFINE g == GrownSize(need, b.size, b.block)
  <2>1. b.block > 0 /\ need \in Nat /\ need > b.size
    BY <1>1, <1>2 DEF PushSpins, Overflows
  <2> HIDE DEF need
  <2>2. g \in Nat /\ g > need
    BY <1>1, <2>1, GrownSizeFits
  <2>3. PICK p \in {b.raw, new} :
            r = [b EXCEPT !.raw = p, !.data = b.data \o bytes, !.size = g]
    BY <1>2 DEF Pushes, need
  <2> HIDE DEF g
  <2>4. /\ r \in Buffer /\ r.data = b.data \o bytes /\ r.size = g
        /\ r.block = b.block /\ r.raw = p
    BY <1>1, <2>2, <2>3 DEF Buffer
  <2>5. QED
    BY <1>1, <1>2, <2>2, <2>4 DEF need
<1>3. CASE ~Overflows(b, Len(bytes))
  <2>1. r = [b EXCEPT !.data = b.data \o bytes]
    BY <1>3 DEF Pushes
  <2>2. /\ r \in Buffer /\ r.data = b.data \o bytes /\ r.size = b.size
        /\ r.block = b.block /\ r.raw = b.raw
    BY <1>1, <2>1 DEF Buffer
  <2>3. QED
    BY <1>1, <1>3, <2>2 DEF Overflows
<1>4. QED
  BY <1>2, <1>3

\* pop(n) within what the buffer holds (io_buffer.cpp:70-75) drops the first n bytes.
LEMMA PoppedDrops ==
    ASSUME NEW b \in Buffer, NEW n \in 0 .. Len(b.data)
    PROVE  /\ Popped(b, n) \in Buffer
           /\ Len(Popped(b, n).data) = Len(b.data) - n
           /\ \A i \in 1 .. Len(b.data) - n : Popped(b, n).data[i] = b.data[n + i]
           /\ Popped(b, n).raw = b.raw
           /\ Popped(b, n).block = b.block
           /\ Popped(b, n).size = b.size
<1> DEFINE s == SubSeq(b.data, n + 1, Len(b.data))
<1>1. b.data \in Seq(Nat) /\ Len(b.data) \in Nat
  BY BufferFields
<1>2. \A i \in n + 1 .. Len(b.data) : b.data[i] \in Nat
  BY <1>1, ElementOfSeq
<1>3. /\ s \in Seq(Nat)
      /\ Len(s) = IF n + 1 <= Len(b.data) THEN Len(b.data) - (n + 1) + 1 ELSE 0
      /\ \A i \in 1 .. Len(b.data) - (n + 1) + 1 : s[i] = b.data[n + 1 + i - 1]
  BY <1>1, <1>2, SubSeqProperties
<1>4. Len(s) = Len(b.data) - n
  BY <1>1, <1>3
<1>5. \A i \in 1 .. Len(b.data) - n : s[i] = b.data[n + i]
  BY <1>1, <1>3
<1>6. Popped(b, n) = [b EXCEPT !.data = s]
  BY <1>1 DEF Popped
<1> HIDE DEF s
<1>7. /\ Popped(b, n) \in Buffer /\ Popped(b, n).data = s /\ Popped(b, n).size = b.size
      /\ Popped(b, n).raw = b.raw /\ Popped(b, n).block = b.block
  BY <1>1, <1>3, <1>6 DEF Buffer
<1>8. QED
  BY <1>4, <1>5, <1>7

-----------------------------------------------------------------------------
(* Bytes in order.  A sequence holds the bytes that follow byte n when its *)
(* i-th element is byte n + i of the stream.                               *)

Follows(s, n) == \A i \in 1..Len(s) : s[i] = n + i

\* What comes behind the bytes that follow n, and follows them, follows n with them.
LEMMA ConcatFollows ==
    ASSUME NEW s \in Seq(Nat), NEW t \in Seq(Nat), NEW n \in Nat,
           Follows(s, n), Follows(t, n + Len(s))
    PROVE  /\ s \o t \in Seq(Nat)
           /\ Len(s \o t) = Len(s) + Len(t)
           /\ Follows(s \o t, n)
<1>1. /\ s \o t \in Seq(Nat)
      /\ Len(s \o t) = Len(s) + Len(t)
      /\ \A i \in 1 .. Len(s) + Len(t) : (s \o t)[i] =
             IF i <= Len(s) THEN s[i] ELSE t[i - Len(s)]
  BY ConcatProperties
<1>2. Len(s) \in Nat /\ Len(t) \in Nat
  BY LenProperties
<1>3. ASSUME NEW i \in 1 .. Len(s) + Len(t)
      PROVE  (s \o t)[i] = n + i
  <2>1. CASE i <= Len(s)
    BY <1>1, <1>2, <2>1 DEF Follows
  <2>2. CASE ~(i <= Len(s))
    <3>1. i - Len(s) \in 1..Len(t)
      BY <1>2, <2>2
    <3>2. t[i - Len(s)] = n + Len(s) + (i - Len(s))
      BY <3>1 DEF Follows
    <3>3. QED
      BY <1>1, <1>2, <2>2, <3>2
  <2>3. QED
    BY <2>1, <2>2
<1>4. QED
  BY <1>1, <1>3 DEF Follows

\* pop(n) on bytes that follow m leaves bytes that follow m + n.
LEMMA PoppedFollows ==
    ASSUME NEW b \in Buffer, NEW n \in 0 .. Len(b.data), NEW m \in Nat,
           Follows(b.data, m)
    PROVE  Follows(Popped(b, n).data, m + n)
<1>1. /\ Len(Popped(b, n).data) = Len(b.data) - n
      /\ \A i \in 1 .. Len(b.data) - n : Popped(b, n).data[i] = b.data[n + i]
  BY PoppedDrops
<1>2. Len(b.data) \in Nat
  BY BufferFields
<1>3. ASSUME NEW i \in 1 .. Len(b.data) - n
      PROVE  b.data[n + i] = m + n + i
  <2>1. n + i \in 1..Len(b.data)
    BY <1>2
  <2>2. QED
    BY <2>1 DEF Follows
<1>4. QED
  BY <1>1, <1>3 DEF Follows

-----------------------------------------------------------------------------
(* The double buffer.                                                      *)

\* A buffer has an allocation and a unit to grow by, or nothing at all.
Solid(b) == b = NoBuffer \/ (b.raw # NULL /\ b.block > 0)

\* The buffers of a double buffer, and the ones it becomes when one is replaced.
LEMMA DoubleFields ==
    ASSUME NEW d \in DoubleBuffer
    PROVE  /\ d.main \in Buffer /\ d.sub \in Buffer
           /\ \A b \in Buffer : /\ [d EXCEPT !.main = b] \in DoubleBuffer
                                /\ [d EXCEPT !.main = b].main = b
                                /\ [d EXCEPT !.main = b].sub = d.sub
                                /\ [d EXCEPT !.sub = b] \in DoubleBuffer
                                /\ [d EXCEPT !.sub = b].sub = b
                                /\ [d EXCEPT !.sub = b].main = d.main
BY DEF DoubleBuffer

\* What io_double_buffer::push leaves (io_double_buffer.cpp:36-49): the bytes went to
\* the end of main, in place unless main was empty, or to the end of sub.
LEMMA DPushesAppends ==
    ASSUME NEW d \in DoubleBuffer, Solid(d.main), Solid(d.sub),
           NEW bytes \in Seq(Nat), Len(bytes) > 0, NEW new \in Nat, new # NULL,
           ~DPushSpins(d, Len(bytes)), NEW e \in DPushes(d, bytes, new)
    PROVE  /\ e \in DoubleBuffer /\ Solid(e.main) /\ Solid(e.sub)
           /\ \/ /\ Empty(d.sub) /\ e.sub = d.sub
                 /\ e.main.data = d.main.data \o bytes
                 /\ d.main # NoBuffer
                 /\ Len(e.main.data) <= e.main.size
                 /\ e.main.block = d.main.block
                 /\ e.main.raw \in {d.main.raw, new}
                 /\ ~Empty(d.main) => e.main.raw = d.main.raw
              \/ /\ ~DEmpty(d) /\ e.main = d.main
                 /\ e.sub.data = d.sub.data \o bytes
                 /\ Len(e.sub.data) <= e.sub.size
                 /\ e.sub.block > 0
                 /\ e.sub.raw \in {d.sub.raw, new} \ {NULL}
<1>1. /\ d.main \in Buffer /\ d.sub \in Buffer
      /\ d.main.size \in Nat /\ d.main.block \in Nat /\ d.main.raw \in Nat
      /\ d.sub.size \in Nat /\ d.sub.block \in Nat /\ d.sub.raw \in Nat
      /\ d.main.data \in Seq(Nat) /\ Len(d.main.data) \in Nat
      /\ Len(bytes) \in Nat
  BY DoubleFields, BufferFields, LenProperties
<1>2. CASE ~Empty(d.sub)
  <2>1. PICK b \in Pushes(d.sub, bytes, new) : e = [d EXCEPT !.sub = b]
    BY <1>2 DEF DPushes, ToSub
  <2>2. d.sub.raw # NULL /\ d.sub.block > 0 /\ ~PushSpins(d.sub, Len(bytes))
    BY <1>2 DEF Solid, NoBuffer, Empty, DPushSpins
  <2> DEFINE m == d.sub
  <2>3a. /\ m \in Buffer /\ bytes \in Seq(Nat) /\ new \in Nat
         /\ ~PushSpins(m, Len(bytes)) /\ b \in Pushes(m, bytes, new)
    BY <1>1, <2>1, <2>2
  <2> HIDE DEF m
  <2>3b. /\ b \in Buffer /\ Len(b.data) <= b.size /\ b.data = m.data \o bytes
         /\ b.block = m.block /\ b.raw \in {m.raw, new}
    BY <2>3a, PushesAppends
  <2>3. /\ b \in Buffer /\ Len(b.data) <= b.size /\ b.data = d.sub.data \o bytes
        /\ b.block = d.sub.block /\ b.raw \in {d.sub.raw, new}
    BY <2>3b DEF m
  <2>4. e \in DoubleBuffer /\ e.sub = b /\ e.main = d.main
    BY <2>1, <2>3, DoubleFields
  <2>5. QED
    BY <1>2, <2>2, <2>3, <2>4 DEF Solid, DEmpty
<1>3. CASE Empty(d.sub) /\ ~Empty(d.main) /\ Overflows(d.main, Len(bytes))
  <2> DEFINE s == SubForOverflow(d, Len(bytes), new)
  <2> DEFINE n == LargerOf(Len(bytes) * 2, d.main.size)
  <2>1. PICK b \in Pushes(s, bytes, new) : e = [d EXCEPT !.sub = b]
    BY <1>3 DEF DPushes, ToSub
  <2>2. n \in Nat /\ n > 0
    BY <1>1 DEF LargerOf
  <2> HIDE DEF n
  <2>3. /\ s \in Buffer /\ s.raw \in {d.sub.raw, new} \ {NULL} /\ s.block > 0
        /\ s.data = d.sub.data
    <3>1. CASE d.sub.size = 0
      <4>1. s = [raw |-> new, data |-> <<>>, size |-> n, block |-> n]
        BY <3>1 DEF SubForOverflow, Assigned, n
      <4>2. QED
        BY <1>3, <2>2, <4>1 DEF Buffer, Empty
    <3>2. CASE d.sub.size # 0
      BY <1>1, <3>2 DEF SubForOverflow, Solid, NoBuffer
    <3>3. QED
      BY <3>1, <3>2
  <2>4. s.block # 0 /\ ~PushSpins(s, Len(bytes))
    BY <2>3 DEF PushSpins
  <2> HIDE DEF s
  <2>5a. /\ s \in Buffer /\ bytes \in Seq(Nat) /\ new \in Nat
        /\ ~PushSpins(s, Len(bytes)) /\ b \in Pushes(s, bytes, new)
    BY <2>1, <2>3, <2>4
  <2>5. /\ b \in Buffer /\ Len(b.data) <= b.size /\ b.data = s.data \o bytes
        /\ b.block = s.block /\ b.raw \in {s.raw, new}
    BY <2>5a, PushesAppends
  <2>6. e \in DoubleBuffer /\ e.sub = b /\ e.main = d.main
    BY <2>1, <2>5, DoubleFields
  <2>7. QED
    BY <1>3, <2>3, <2>5, <2>6 DEF Solid, DEmpty
<1>4. CASE Empty(d.sub) /\ (Empty(d.main) \/ ~Overflows(d.main, Len(bytes)))
  <2>1. PICK b \in Pushes(d.main, bytes, new) : e = [d EXCEPT !.main = b]
    BY <1>4 DEF DPushes, ToMain
  <2>2. ~PushSpins(d.main, Len(bytes))
    BY <1>4 DEF PushSpins, DPushSpins
  <2> DEFINE m == d.main
  <2>3a. /\ m \in Buffer /\ bytes \in Seq(Nat) /\ new \in Nat
         /\ ~PushSpins(m, Len(bytes)) /\ b \in Pushes(m, bytes, new)
    BY <1>1, <2>1, <2>2
  <2> HIDE DEF m
  <2>3b. /\ b \in Buffer /\ Len(b.data) <= b.size /\ b.data = m.data \o bytes
         /\ b.block = m.block /\ b.raw \in {m.raw, new}
         /\ ~Overflows(m, Len(bytes)) => b.raw = m.raw
    BY <2>3a, PushesAppends
  <2>3. /\ b \in Buffer /\ Len(b.data) <= b.size /\ b.data = d.main.data \o bytes
        /\ b.block = d.main.block /\ b.raw \in {d.main.raw, new}
        /\ ~Overflows(d.main, Len(bytes)) => b.raw = d.main.raw
    BY <2>3b DEF m
  <2>4. e \in DoubleBuffer /\ e.main = b /\ e.sub = d.sub
    BY <2>1, <2>3, DoubleFields
  <2>5. d.main # NoBuffer
    BY <1>1, <2>2 DEF PushSpins, Overflows, NoBuffer
  <2>6. QED
    BY <1>4, <2>3, <2>4, <2>5 DEF Solid
<1>5. QED
  BY <1>2, <1>3, <1>4

\* elevate() (io_double_buffer.cpp:53-58) moves no byte past another and drops none, and
\* the bytes that are left, if any, are in main.
LEMMA ElevatedKeeps ==
    ASSUME NEW d \in DoubleBuffer, Solid(d.main), Solid(d.sub)
    PROVE  LET e == Elevated(d)
           IN  /\ e \in DoubleBuffer /\ Solid(e.main) /\ Solid(e.sub)
               /\ DEmpty(e) <=> DEmpty(d)
               /\ Empty(e.main) => DEmpty(e)
               /\ e.main = NoBuffer => d.main = NoBuffer
               /\ Len(e.main.data) + Len(e.sub.data) = Len(d.main.data) + Len(d.sub.data)
               /\ \A n \in Nat :
                      Follows(d.main.data, n) /\ Follows(d.sub.data, n + Len(d.main.data)) =>
                      Follows(e.main.data, n) /\ Follows(e.sub.data, n + Len(e.main.data))
<1>1. /\ d.main \in Buffer /\ d.sub \in Buffer
      /\ Len(d.main.data) \in Nat /\ Len(d.sub.data) \in Nat
      /\ Empty(d.main) <=> Len(d.main.data) = 0
      /\ Empty(d.sub) <=> Len(d.sub.data) = 0
  BY DoubleFields, BufferFields
<1>2. NoBuffer \in Buffer /\ Empty(NoBuffer) /\ NoBuffer.data = <<>> /\ Solid(NoBuffer)
  BY DEF NoBuffer, Buffer, NULL, Empty, Solid
<1>3. CASE Empty(d.main) /\ ~Empty(d.sub)
  <2> DEFINE e == [main |-> d.sub, sub |-> NoBuffer]
  <2>1. Elevated(d) = e /\ e.main = d.sub /\ e.sub = NoBuffer /\ e \in DoubleBuffer
    BY <1>1, <1>2, <1>3 DEF Elevated, DoubleBuffer
  <2> HIDE DEF e
  <2>2. /\ Len(e.main.data) = Len(d.sub.data) /\ Len(e.sub.data) = 0
        /\ Len(d.main.data) = 0
    BY <1>1, <1>2, <1>3, <2>1
  <2>3. ASSUME NEW n \in Nat,
               Follows(d.main.data, n), Follows(d.sub.data, n + Len(d.main.data))
        PROVE  Follows(e.main.data, n) /\ Follows(e.sub.data, n + Len(e.main.data))
    <3>1. n + Len(d.main.data) = n
      BY <2>2
    <3>2. Follows(e.main.data, n)
      BY <2>1, <2>3, <3>1
    <3>3. Follows(e.sub.data, n + Len(e.main.data))
      BY <2>2 DEF Follows
    <3>4. QED
      BY <3>2, <3>3
  <2>4. /\ DEmpty(e) <=> DEmpty(d)
        /\ Empty(e.main) => DEmpty(e)
        /\ e.main = NoBuffer => d.main = NoBuffer
    BY <1>2, <1>3, <2>1 DEF DEmpty
  <2>5. Len(e.main.data) + Len(e.sub.data) = Len(d.main.data) + Len(d.sub.data)
    BY <1>1, <2>2
  <2>6. QED
    BY <1>2, <2>1, <2>3, <2>4, <2>5
<1>4. CASE ~(Empty(d.main) /\ ~Empty(d.sub))
  <2>1. Elevated(d) = d
    BY <1>4 DEF Elevated
  <2>2. Empty(d.main) => DEmpty(d)
    BY <1>4 DEF DEmpty
  <2>3. QED
    BY <2>1, <2>2
<1>5. QED
  BY <1>3, <1>4

=============================================================================
