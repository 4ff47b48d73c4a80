-------------------------- MODULE SendQueueProofs ---------------------------
(***************************************************************************)
(* Proofs about SendQueue.tla, for every buffer size and every bound.      *)
(***************************************************************************)
EXTENDS SendQueue, SequenceTheorems, TLAPS

-----------------------------------------------------------------------------
(* The operations of one io_buffer.                                        *)

\* The loops of io_buffer::push (io_buffer.cpp:78-85) settle on a capacity above
\* what is needed, whatever the block size.
LEMMA GrownSizeFits ==
    ASSUME NEW need \in Nat, NEW size \in Nat, NEW block \in Nat,
           block > 0, need > size
    PROVE  /\ GrownSize(need, size, block) \in Nat
           /\ GrownSize(need, size, block) > need
<1> DEFINE q == (need - size) \div block
<1> DEFINE r == (need - size) % block
<1>1. q \in Nat /\ r \in 0 .. block - 1 /\ need - size = block * q + r
  OBVIOUS
<1>2. block * (q + 1) = block * q + block
  BY <1>1
<1>3. block * (q + 1) > need - size /\ block * (q + 1) \in Nat
  BY <1>1, <1>2
<1>4. QED
  BY <1>3 DEF GrownSize

\* A push that does not spin appends the bytes and leaves room for them; it
\* keeps the allocation when they fit.
LEMMA PushesAppends ==
    ASSUME NEW b, WellFormed(b), NEW bytes \in Seq(Nat), NEW new \in Nat,
           ~PushSpins(b, Len(bytes)), NEW r \in Pushes(b, bytes, new)
    PROVE  /\ WellFormed(r)
           /\ r.data = b.data \o bytes
           /\ r.block = b.block
           /\ r.raw \in {b.raw, new}
           /\ ~Overflows(b, Len(bytes)) => r.raw = b.raw
<1>1. /\ b.data \o bytes \in Seq(Nat)
      /\ Len(b.data \o bytes) = Len(b.data) + Len(bytes)
      /\ Len(b.data) \in Nat /\ Len(bytes) \in Nat
      /\ b.size \in Nat /\ b.block \in Nat /\ b.raw \in Nat
  BY ConcatProperties, LenProperties DEF WellFormed, Buffer
<1>2. CASE Overflows(b, Len(bytes))
  <2> DEFINE g == GrownSize(Len(b.data) + Len(bytes), b.size, b.block)
  <2>1. b.block > 0 /\ Len(b.data) + Len(bytes) > b.size
    BY <1>1, <1>2 DEF PushSpins, Overflows
  <2> DEFINE need == Len(b.data) + Len(bytes)
  <2>0. need \in Nat /\ need > b.size
    BY <1>1, <2>1
  <2> HIDE DEF need
  <2>2a. /\ GrownSize(need, b.size, b.block) \in Nat
         /\ GrownSize(need, b.size, b.block) > need
    BY <1>1, <2>0, <2>1, GrownSizeFits
  <2>2. g \in Nat /\ g > Len(b.data) + Len(bytes)
    BY <2>2a DEF need
  <2>3. PICK p \in {b.raw, new} :
            r = [b EXCEPT !.raw = p, !.data = b.data \o bytes, !.size = g]
    BY <1>2 DEF Pushes
  <2> HIDE DEF g
  <2>4. /\ r \in Buffer /\ r.data = b.data \o bytes /\ r.size = g
        /\ r.block = b.block /\ r.raw = p
    BY <1>1, <2>2, <2>3 DEF WellFormed, Buffer
  <2>5. QED
    BY <1>1, <1>2, <2>2, <2>4 DEF WellFormed
<1>3. CASE ~Overflows(b, Len(bytes))
  <2>1. r = [b EXCEPT !.data = b.data \o bytes]
    BY <1>3 DEF Pushes
  <2>2. /\ r \in Buffer /\ r.data = b.data \o bytes /\ r.size = b.size
        /\ r.block = b.block /\ r.raw = b.raw
    BY <1>1, <2>1 DEF WellFormed, Buffer
  <2>3. QED
    BY <1>1, <1>3, <2>2 DEF WellFormed, Overflows
<1>4. QED
  BY <1>2, <1>3

\* pop(n) within what the buffer holds drops the first n bytes.
LEMMA PoppedDrops ==
    ASSUME NEW b, WellFormed(b), NEW n \in 0 .. Len(b.data)
    PROVE  /\ WellFormed(Popped(b, n))
           /\ Len(Popped(b, n).data) = Len(b.data) - n
           /\ \A i \in 1 .. Len(b.data) - n : Popped(b, n).data[i] = b.data[n + i]
           /\ Popped(b, n).raw = b.raw
           /\ Popped(b, n).block = b.block
<1> DEFINE s == SubSeq(b.data, n + 1, Len(b.data))
<1>1. b.data \in Seq(Nat) /\ Len(b.data) \in Nat /\ b \in Buffer /\ b.size \in Nat
      /\ Len(b.data) <= b.size
  BY LenProperties DEF WellFormed, Buffer
<1>2. \A i \in n + 1 .. Len(b.data) : b.data[i] \in Nat
  BY <1>1, ElementOfSeq
<1>3. /\ s \in Seq(Nat)
      /\ Len(s) = IF n + 1 <= Len(b.data) THEN Len(b.data) - (n + 1) + 1 ELSE 0
      /\ \A i \in 1 .. Len(b.data) - (n + 1) + 1 : s[i] = b.data[n + 1 + i - 1]
  BY <1>1, <1>2, SubSeqProperties
<1>4. Len(s) = Len(b.data) - n
  BY <1>1, <1>3
<1>5. \A i \in 1 .. Len(b.data) - n : s[i] = b.data[n + i]
  BY <1>1, <1>3
<1>6. Popped(b, n) = [b EXCEPT !.data = s]
  BY <1>1 DEF Popped
<1> HIDE DEF s
<1>7. /\ Popped(b, n) \in Buffer /\ Popped(b, n).data = s /\ Popped(b, n).size = b.size
      /\ Popped(b, n).raw = b.raw /\ Popped(b, n).block = b.block
  BY <1>1, <1>3, <1>6 DEF Buffer
<1>8. Len(s) <= b.size
  BY <1>1, <1>4
<1>9. WellFormed(Popped(b, n))
  BY <1>7, <1>8 DEF WellFormed
<1>10. QED
  BY <1>4, <1>5, <1>7, <1>9

\* The bytes of the next send() are those that follow the accepted ones.
LEMMA ChunkBytes ==
    ASSUME TypeOK, NEW n \in Nat
    PROVE  /\ Chunk(n) \in Seq(Nat)
           /\ Len(Chunk(n)) = n
           /\ \A i \in 1..n : Chunk(n)[i] = accepted + i
BY DEF TypeOK, Chunk

-----------------------------------------------------------------------------
(* push on the double buffer.                                              *)

\* What send() leaves in the buffer (io_double_buffer.cpp:36-49): the bytes went
\* to the end of main, in place unless main was empty, or to the end of sub.
LEMMA DPushesAppends ==
    ASSUME IInv, NEW n \in Nat \ {0}, NEW d \in DPushes(send_buffer, Chunk(n), fresh)
    PROVE  /\ d \in DoubleBuffer
           /\ WellFormed(d.main)
           /\ WellFormed(d.sub)
           /\ \/ /\ SubLen = 0 /\ d.sub = NoBuffer
                 /\ d.main.data = send_buffer.main.data \o Chunk(n)
                 /\ d.main.block = send_buffer.main.block
                 /\ d.main.raw \in {send_buffer.main.raw, fresh}
                 /\ MainLen > 0 => d.main.raw = send_buffer.main.raw
              \/ /\ MainLen > 0 /\ d.main = send_buffer.main
                 /\ d.sub.data = send_buffer.sub.data \o Chunk(n)
                 /\ d.sub.block > 0
                 /\ d.sub.raw \in {send_buffer.sub.raw, fresh} \ {NULL}
<1> DEFINE main == send_buffer.main
<1> DEFINE sub == send_buffer.sub
<1>1. /\ send_buffer \in DoubleBuffer
      /\ main \in Buffer /\ sub \in Buffer
      /\ WellFormed(main) /\ WellFormed(sub)
      /\ fresh \in Nat /\ fresh > 0 /\ n \in Nat /\ n > 0
      /\ main.data \in Seq(Nat) /\ sub.data \in Seq(Nat)
      /\ MainLen \in Nat /\ SubLen \in Nat
      /\ main.size \in Nat /\ main.block \in Nat /\ main.block > 0 /\ main.raw \in Nat
  BY LenProperties
     DEF IInv, TypeOK, DoubleBuffer, Buffer, Allocations, MainLen, SubLen
<1>2. /\ Chunk(n) \in Seq(Nat) /\ Len(Chunk(n)) = n
  BY <1>1, ChunkBytes DEF IInv
<1>3. (Empty(main) <=> MainLen = 0) /\ (Empty(sub) <=> SubLen = 0)
  BY <1>1, EmptySeq DEF Empty, MainLen, SubLen
<1>4. \A b : d = [send_buffer EXCEPT !.main = b] /\ b \in Buffer =>
              d \in DoubleBuffer /\ d.main = b /\ d.sub = sub
  BY <1>1 DEF DoubleBuffer
<1>5. \A b : d = [send_buffer EXCEPT !.sub = b] /\ b \in Buffer =>
              d \in DoubleBuffer /\ d.sub = b /\ d.main = main
  BY <1>1 DEF DoubleBuffer
<1> HIDE DEF main, sub
<1>6. CASE ~Empty(sub)
  <2>1. PICK b \in Pushes(sub, Chunk(n), fresh) : d = [send_buffer EXCEPT !.sub = b]
    BY <1>6 DEF DPushes, ToSub, sub
  <2>2. /\ sub.block > 0 /\ sub.raw # NULL /\ MainLen > 0 /\ sub.raw \in Nat
    BY <1>1, <1>3, <1>6 DEF IInv, Allocations, NULL, sub
  <2>3. ~PushSpins(sub, Len(Chunk(n)))
    BY <2>2 DEF PushSpins
  <2>3a. /\ WellFormed(sub) /\ Chunk(n) \in Seq(Nat) /\ fresh \in Nat
         /\ ~PushSpins(sub, Len(Chunk(n))) /\ b \in Pushes(sub, Chunk(n), fresh)
    BY <1>1, <1>2, <2>1, <2>3
  <2>4. /\ WellFormed(b) /\ b.data = sub.data \o Chunk(n)
        /\ b.block = sub.block /\ b.raw \in {sub.raw, fresh}
    BY <2>3a, PushesAppends
  <2>5. d \in DoubleBuffer /\ d.sub = b /\ d.main = main
    BY <1>5, <2>1, <2>4 DEF WellFormed
  <2>6. b.block > 0 /\ b.raw \in {sub.raw, fresh} \ {NULL} /\ WellFormed(main)
    BY <1>1, <2>2, <2>4 DEF NULL
  <2>7. QED
    BY <2>2, <2>4, <2>5, <2>6 DEF main, sub
<1>7. CASE Empty(sub) /\ ~Empty(main) /\ Overflows(main, Len(Chunk(n)))
  <2> DEFINE s == Assigned(fresh, LargerOf(n * 2, main.size))
  <2>1. sub = NoBuffer /\ MainLen > 0
    BY <1>1, <1>3, <1>7 DEF IInv, Allocations, sub
  <2>2. SubForOverflow(send_buffer, Len(Chunk(n)), fresh) = s
    BY <1>2, <2>1 DEF SubForOverflow, NoBuffer, sub, main
  <2>3. PICK b \in Pushes(s, Chunk(n), fresh) : d = [send_buffer EXCEPT !.sub = b]
    BY <1>7, <2>2 DEF DPushes, ToSub, main, sub
  <2>4. LargerOf(n * 2, main.size) \in Nat /\ LargerOf(n * 2, main.size) > 0
    BY <1>1 DEF LargerOf
  <2>5. /\ s \in Buffer /\ s.data = <<>> /\ s.block > 0 /\ s.size \in Nat
        /\ s.raw = fresh
    BY <1>1, <2>4 DEF Assigned, Buffer
  <2>6. WellFormed(s) /\ ~PushSpins(s, Len(Chunk(n)))
    BY <2>5 DEF WellFormed, PushSpins
  <2> HIDE DEF s
  <2>6a. /\ WellFormed(s) /\ Chunk(n) \in Seq(Nat) /\ fresh \in Nat
         /\ ~PushSpins(s, Len(Chunk(n))) /\ b \in Pushes(s, Chunk(n), fresh)
    BY <1>1, <1>2, <2>3, <2>6
  <2>7a. /\ WellFormed(b) /\ b.data = s.data \o Chunk(n)
         /\ b.block = s.block /\ b.raw \in {s.raw, fresh}
    BY <2>6a, PushesAppends
  <2>7. /\ WellFormed(b) /\ b.data = <<>> \o Chunk(n)
        /\ b.block = s.block /\ b.raw = fresh
    BY <2>5, <2>7a
  <2>8. d \in DoubleBuffer /\ d.sub = b /\ d.main = main
    BY <1>5, <2>3, <2>7 DEF WellFormed
  <2>9. QED
    BY <1>1, <2>1, <2>5, <2>7, <2>8 DEF NULL, NoBuffer, main, sub
<1>8. CASE Empty(sub) /\ (Empty(main) \/ ~Overflows(main, Len(Chunk(n))))
  <2>1. PICK b \in Pushes(main, Chunk(n), fresh) : d = [send_buffer EXCEPT !.main = b]
    BY <1>8 DEF DPushes, ToMain, main, sub
  <2>2. ~PushSpins(main, Len(Chunk(n))) /\ sub = NoBuffer /\ SubLen = 0
    BY <1>1, <1>3, <1>8 DEF PushSpins, IInv, Allocations, main, sub
  <2>2a. /\ WellFormed(main) /\ Chunk(n) \in Seq(Nat) /\ fresh \in Nat
         /\ ~PushSpins(main, Len(Chunk(n))) /\ b \in Pushes(main, Chunk(n), fresh)
    BY <1>1, <1>2, <2>1, <2>2
  <2>3. /\ WellFormed(b) /\ b.data = main.data \o Chunk(n)
        /\ b.block = main.block /\ b.raw \in {main.raw, fresh}
        /\ ~Overflows(main, Len(Chunk(n))) => b.raw = main.raw
    BY <2>2a, PushesAppends
  <2>4. d \in DoubleBuffer /\ d.main = b /\ d.sub = sub
    BY <1>4, <2>1, <2>3 DEF WellFormed
  <2>5. MainLen > 0 => b.raw = main.raw
    BY <1>1, <1>3, <1>8, <2>3
  <2>6. QED
    BY <1>1, <2>2, <2>3, <2>4, <2>5 DEF main, sub
<1>9. QED
  BY <1>6, <1>7, <1>8

-----------------------------------------------------------------------------
(* Each action keeps the inductive invariant.                              *)

\* The invariant in the form the steps below use it in.
LEMMA Unfolded ==
    ASSUME IInv
    PROVE  /\ send_buffer \in DoubleBuffer
           /\ send_buffer.main \in Buffer /\ send_buffer.sub \in Buffer
           /\ WellFormed(send_buffer.main) /\ WellFormed(send_buffer.sub)
           /\ send_buffer.main.data \in Seq(Nat) /\ send_buffer.sub.data \in Seq(Nat)
           /\ MainLen \in Nat /\ SubLen \in Nat /\ Gone \in Nat
           /\ accepted \in Nat /\ accepted = Gone + MainLen + SubLen
           /\ wire \in Seq(Nat) /\ Len(wire) \in Nat
           /\ fresh \in Nat /\ fresh > 0
           /\ write \in Write /\ write.len \in Nat /\ write.res \in Nat
           /\ failed \in BOOLEAN
           /\ Empty(send_buffer.main) <=> MainLen = 0
           /\ Empty(send_buffer.sub) <=> SubLen = 0
           /\ DEmpty(send_buffer) <=> MainLen = 0
<1>1. /\ send_buffer \in DoubleBuffer
      /\ WellFormed(send_buffer.main) /\ WellFormed(send_buffer.sub)
      /\ accepted \in Nat /\ wire \in Seq(Nat) /\ fresh \in Nat /\ fresh > 0
  BY DEF IInv, TypeOK
<1>2. /\ write \in Write /\ write.len \in Nat /\ write.res \in Nat
      /\ failed \in BOOLEAN
  BY DEF IInv, TypeOK, Write
<1>3. send_buffer.main \in Buffer /\ send_buffer.sub \in Buffer
  BY <1>1 DEF DoubleBuffer
<1>4. send_buffer.main.data \in Seq(Nat) /\ send_buffer.sub.data \in Seq(Nat)
  BY <1>3 DEF Buffer
<1>5. MainLen \in Nat /\ SubLen \in Nat /\ Len(wire) \in Nat
  BY <1>1, <1>4, LenProperties DEF MainLen, SubLen
<1>6. Gone \in Nat /\ accepted = Gone + MainLen + SubLen
  BY <1>1, <1>5 DEF IInv, BytesInOrder, Gone
<1>7. /\ Empty(send_buffer.main) <=> MainLen = 0
      /\ Empty(send_buffer.sub) <=> SubLen = 0
  BY <1>4, EmptySeq DEF Empty, MainLen, SubLen
<1>8. DEmpty(send_buffer) <=> MainLen = 0
  BY <1>7 DEF IInv, Allocations, DEmpty, NoBuffer, Empty
<1>9. QED
  BY <1>1, <1>2, <1>3, <1>4, <1>5, <1>6, <1>7, <1>8

\* Consecutive bytes behind consecutive bytes are consecutive.
LEMMA ConcatInOrder ==
    ASSUME NEW s \in Seq(Nat), NEW t \in Seq(Nat), NEW base \in Nat,
           \A i \in 1..Len(s) : s[i] = base + i,
           \A i \in 1..Len(t) : t[i] = base + Len(s) + i
    PROVE  /\ s \o t \in Seq(Nat)
           /\ Len(s \o t) = Len(s) + Len(t)
           /\ \A i \in 1 .. Len(s) + Len(t) : (s \o t)[i] = base + i
<1>1. /\ s \o t \in Seq(Nat)
      /\ Len(s \o t) = Len(s) + Len(t)
      /\ \A i \in 1 .. Len(s) + Len(t) : (s \o t)[i] =
             IF i <= Len(s) THEN s[i] ELSE t[i - Len(s)]
  BY ConcatProperties
<1>2. Len(s) \in Nat /\ Len(t) \in Nat
  BY LenProperties
<1>3. ASSUME NEW i \in 1 .. Len(s) + Len(t)
      PROVE  (s \o t)[i] = base + i
  <2>1. CASE i <= Len(s)
    BY <1>1, <1>2, <2>1
  <2>2. CASE ~(i <= Len(s))
    <3>1. i - Len(s) \in 1..Len(t)
      BY <1>2, <2>2
    <3>2. t[i - Len(s)] = base + Len(s) + (i - Len(s))
      BY <3>1
    <3>3. QED
      BY <1>1, <1>2, <2>2, <3>2
  <2>3. QED
    BY <2>1, <2>2
<1>4. QED
  BY <1>1, <1>3

\* send() under the lock (tcp_socket.cpp:249-255).
LEMMA SendPreserves ==
    ASSUME IInv, NEW n \in 1..MaxChunk, Send(n)
    PROVE  IInv'
<1> DEFINE main == send_buffer.main
<1> DEFINE sub == send_buffer.sub
<1>0a. /\ main.data \in Seq(Nat) /\ sub.data \in Seq(Nat)
       /\ MainLen \in Nat /\ SubLen \in Nat /\ Gone \in Nat
       /\ accepted \in Nat /\ accepted = Gone + MainLen + SubLen
       /\ fresh \in Nat /\ fresh > 0 /\ wire \in Seq(Nat)
       /\ write \in Write
  BY Unfolded
<1>0b. DEmpty(send_buffer) <=> MainLen = 0
  BY Unfolded
<1>0c. MainLen = Len(main.data) /\ SubLen = Len(sub.data)
  BY DEF MainLen, SubLen
<1>0d. /\ \A i \in 1..MainLen : main.data[i] = Gone + i
       /\ \A i \in 1..SubLen : sub.data[i] = Gone + MainLen + i
       /\ \A i \in 1..Len(wire) : wire[i] = i
  BY DEF IInv, BytesInOrder
<1>0e. /\ main.raw \in 1 .. fresh - 1 /\ main.block > 0
       /\ SubLen = 0 => sub = NoBuffer
       /\ SubLen # 0 => /\ sub.raw \in (1 .. fresh - 1) \ {main.raw}
                        /\ sub.block > 0 /\ MainLen > 0
  BY DEF IInv, Allocations
<1>0. /\ main.data \in Seq(Nat) /\ sub.data \in Seq(Nat)
      /\ MainLen = Len(main.data) /\ SubLen = Len(sub.data)
      /\ MainLen \in Nat /\ SubLen \in Nat /\ Gone \in Nat
      /\ accepted \in Nat /\ accepted = Gone + MainLen + SubLen
      /\ fresh \in Nat /\ fresh > 0 /\ wire \in Seq(Nat)
      /\ DEmpty(send_buffer) <=> MainLen = 0
      /\ \A i \in 1..MainLen : main.data[i] = Gone + i
      /\ \A i \in 1..SubLen : sub.data[i] = Gone + MainLen + i
      /\ \A i \in 1..Len(wire) : wire[i] = i
      /\ main.raw \in 1 .. fresh - 1 /\ main.block > 0
      /\ SubLen = 0 => sub = NoBuffer
      /\ SubLen # 0 => /\ sub.raw \in (1 .. fresh - 1) \ {main.raw}
                       /\ sub.block > 0 /\ MainLen > 0
      /\ write \in Write
  BY <1>0a, <1>0b, <1>0c, <1>0d, <1>0e
<1>1. PICK d \in DPushes(send_buffer, Chunk(n), fresh) :
          /\ send_buffer' = d
          /\ write' = IF DEmpty(send_buffer) THEN Submitted(d) ELSE write
  BY DEF Send
<1>2a. failed' = failed
  BY DEF Send
<1>2b. failed' \in BOOLEAN
  BY <1>2a, Unfolded
<1>2. /\ accepted' = accepted + n /\ fresh' = fresh + 1 /\ wire' = wire
      /\ n \in Nat \ {0} /\ n \in Nat /\ n > 0
  BY SendQueueAssumption DEF Send
<1>3. /\ Chunk(n) \in Seq(Nat) /\ Len(Chunk(n)) = n
      /\ \A i \in 1..n : Chunk(n)[i] = accepted + i
  BY <1>2, ChunkBytes DEF IInv
<1>4. d \in DoubleBuffer /\ WellFormed(d.main) /\ WellFormed(d.sub)
  BY <1>1, <1>2, DPushesAppends
<1>5. MainLen' = Len(d.main.data) /\ SubLen' = Len(d.sub.data)
  BY <1>1 DEF MainLen, SubLen
<1>9. /\ send_buffer' \in DoubleBuffer
      /\ WellFormed(send_buffer.main)' /\ WellFormed(send_buffer.sub)'
      /\ accepted' \in Nat /\ wire' \in Seq(Nat) /\ fresh' \in Nat \ {0}
  BY <1>0a, <1>1, <1>2, <1>4 DEF WellFormed
<1>6. CASE /\ SubLen = 0 /\ d.sub = NoBuffer
           /\ d.main.data = main.data \o Chunk(n)
           /\ d.main.block = main.block
           /\ d.main.raw \in {main.raw, fresh}
           /\ MainLen > 0 => d.main.raw = main.raw
  <2>1. \A i \in 1..Len(Chunk(n)) : Chunk(n)[i] = Gone + Len(main.data) + i
    BY <1>0, <1>3, <1>6
  <2>2. /\ Len(main.data \o Chunk(n)) = Len(main.data) + Len(Chunk(n))
        /\ \A i \in 1 .. Len(main.data) + Len(Chunk(n)) :
              (main.data \o Chunk(n))[i] = Gone + i
    <3>1. /\ main.data \in Seq(Nat) /\ Chunk(n) \in Seq(Nat) /\ Gone \in Nat
          /\ \A i \in 1..Len(main.data) : main.data[i] = Gone + i
      BY <1>0, <1>3
    <3>2. QED
      BY <2>1, <3>1, ConcatInOrder
  <2>3. /\ MainLen' = MainLen + n
        /\ \A i \in 1..MainLen' : d.main.data[i] = Gone + i
    BY <1>0, <1>3, <1>5, <1>6, <2>2
  <2>4. SubLen' = 0
    BY <1>5, <1>6, EmptySeq DEF NoBuffer
  <2>5. Gone' = Gone
    BY <1>0, <1>2, <1>6, <2>3, <2>4 DEF Gone
  <2>6. BytesInOrder'
    <3>1. \A i \in 1..MainLen' : send_buffer'.main.data[i] = Gone' + i
      BY <1>1, <2>3, <2>5
    <3>2. \A i \in 1..SubLen' : send_buffer'.sub.data[i] = Gone' + MainLen' + i
      BY <2>4
    <3>3. Gone' \in Nat /\ \A i \in 1..Len(wire') : wire'[i] = i
      BY <1>0, <1>2, <2>5
    <3>4. QED
      BY <3>1, <3>2, <3>3 DEF BytesInOrder
  <2>7. Allocations'
    BY <1>0, <1>1, <1>2, <1>6, <2>4 DEF Allocations
  <2>8. WriteProgress' /\ write' \in Write
    <3>1. CASE MainLen = 0
      <4>1. write.st = "none" /\ Len(wire) = Gone /\ ~failed
        BY <3>1 DEF IInv, WriteProgress
      <4>2. write' = Submitted(d)
        BY <1>0, <1>1, <3>1
      <4>3. DSize(d) = n /\ DRaw(d) = d.main.raw /\ DRaw(d) \in Nat
        BY <1>0, <1>2, <1>4, <1>5, <2>3, <3>1 DEF DSize, DRaw, DoubleBuffer, Buffer
      <4>4. /\ write' \in Write /\ write'.st = "submitted"
            /\ write'.raw = d.main.raw /\ write'.len = n
        BY <1>2, <4>2, <4>3 DEF Submitted, Write
      <4>5. QED
        BY <1>0, <1>1, <1>2, <1>2a, <2>3, <2>5, <3>1, <4>1, <4>4 DEF WriteProgress
    <3>2. CASE MainLen > 0
      <4>1. write' = write /\ send_buffer'.main.raw = main.raw
        BY <1>0, <1>1, <1>6, <3>2
      <4>2. write \in Write /\ WriteProgress
        BY Unfolded DEF IInv
      <4>3. /\ MainLen \in Nat /\ n \in Nat /\ MainLen' = MainLen + n
            /\ Gone' = Gone /\ wire' = wire
        BY <1>0a, <1>2, <2>3, <2>5
      <4>4. QED
        BY <1>2a, <3>2, <4>1, <4>2, <4>3 DEF WriteProgress
    <3>3. QED
      BY <1>0, <3>1, <3>2
  <2>9. QED
    BY <1>2b, <1>9, <2>6, <2>7, <2>8 DEF IInv, TypeOK
<1>7. CASE /\ MainLen > 0 /\ d.main = main
           /\ d.sub.data = sub.data \o Chunk(n)
           /\ d.sub.block > 0
           /\ d.sub.raw \in {sub.raw, fresh} \ {NULL}
  <2> DEFINE base == Gone + MainLen
  <2>0. base \in Nat /\ \A i \in 1..Len(sub.data) : sub.data[i] = base + i
    BY <1>0
  <2>1. \A i \in 1..Len(Chunk(n)) : Chunk(n)[i] = base + Len(sub.data) + i
    BY <1>0, <1>3
  <2>2. /\ Len(sub.data \o Chunk(n)) = Len(sub.data) + Len(Chunk(n))
        /\ \A i \in 1 .. Len(sub.data) + Len(Chunk(n)) :
              (sub.data \o Chunk(n))[i] = base + i
    <3> HIDE DEF base
    <3>0. sub.data \in Seq(Nat) /\ Chunk(n) \in Seq(Nat)
      BY <1>0, <1>3
    <3>1. QED
      BY <2>0, <2>1, <3>0, ConcatInOrder
  <2>3. /\ SubLen' = SubLen + n
        /\ \A i \in 1..SubLen' : d.sub.data[i] = Gone + MainLen + i
    BY <1>0, <1>3, <1>5, <1>7, <2>2
  <2>4. MainLen' = MainLen
    BY <1>0, <1>5, <1>7
  <2>5. Gone' = Gone
    BY <1>0a, <1>2, <2>3, <2>4 DEF Gone
  <2>6. BytesInOrder'
    BY <1>0, <1>1, <1>2, <1>7, <2>3, <2>4, <2>5 DEF BytesInOrder
  <2>7. d.sub.raw \in (1 .. fresh' - 1) \ {main.raw}
    <3>1. fresh' - 1 = fresh /\ fresh \in 1 .. fresh' - 1 /\ fresh # main.raw
      BY <1>0a, <1>0e, <1>2
    <3>2. CASE SubLen = 0
      <4>1. sub.raw = NULL
        BY <1>0e, <3>2 DEF NoBuffer
      <4>2. QED
        BY <1>7, <3>1, <4>1
    <3>3. CASE SubLen # 0
      <4>1. sub.raw \in 1 .. fresh' - 1 /\ sub.raw # main.raw
        BY <1>0a, <1>0e, <3>1, <3>3
      <4>2. QED
        BY <1>7, <3>1, <4>1
    <3>4. QED
      BY <3>2, <3>3
  <2>8. Allocations'
    BY <1>0, <1>1, <1>2, <1>7, <2>3, <2>4, <2>7 DEF Allocations
  <2>9. write' = write
    BY <1>0, <1>1, <1>7
  <2>10. WriteProgress'
    BY <1>0, <1>1, <1>2, <1>2a, <1>7, <2>4, <2>5, <2>9, Unfolded DEF IInv, WriteProgress
  <2>11. write' \in Write
    BY <1>0a, <2>9
  <2>12. QED
    BY <1>2b, <1>9, <2>6, <2>8, <2>10, <2>11 DEF IInv, TypeOK
<1>8. QED
  BY <1>1, <1>2, <1>6, <1>7, DPushesAppends

\* What the kernel reads through the pointer of the write in flight is still what
\* was submitted (tcp_socket.cpp:318-326 hands out main_buffer's pointer).
LEMMA InFlightReads ==
    ASSUME IInv, write.st \in {"submitted", "refused"}, NEW k \in 0..write.len
    PROVE  /\ write.raw = send_buffer.main.raw
           /\ write.raw # NULL
           /\ k \in Nat
           /\ write.len \in 1..MainLen
           /\ Memory(send_buffer, write.raw, k) = [i \in 1..k |-> Len(wire) + i]
<1>1. /\ write.raw = send_buffer.main.raw /\ write.len \in 1..MainLen
      /\ Len(wire) = Gone
  BY DEF IInv, WriteProgress
<1>2. send_buffer.main.raw # NULL
  BY DEF IInv, Allocations, NULL
<1>3. MainLen \in Nat /\ Gone \in Nat /\ write.len \in Nat /\ k \in Nat /\ k <= MainLen
  BY <1>1, Unfolded
<1>4. \A i \in 1..MainLen : send_buffer.main.data[i] = Gone + i
  BY DEF IInv, BytesInOrder
<1>5. Memory(send_buffer, write.raw, k) =
        [i \in 1..k |-> IF i <= MainLen THEN send_buffer.main.data[i] ELSE Garbage]
  BY <1>1, <1>2 DEF Memory, MainLen
<1>6. \A i \in 1..k : i <= MainLen /\ send_buffer.main.data[i] = Len(wire) + i
  BY <1>1, <1>3, <1>4
<1>7. QED
  BY <1>1, <1>2, <1>3, <1>5, <1>6

\* The kernel takes k bytes of the write (io_service.cpp:421-433 reports them).
LEMMA KernelWritesPreserves ==
    ASSUME IInv, NEW k \in 1..write.len, KernelWrites(k)
    PROVE  IInv'
<1> DEFINE t == [i \in 1..k |-> Len(wire) + i]
<1>1. /\ write.st = "submitted" /\ wire' = wire \o Memory(send_buffer, write.raw, k)
      /\ write' = [write EXCEPT !.st = "done", !.res = k]
      /\ send_buffer' = send_buffer /\ accepted' = accepted /\ fresh' = fresh
      /\ failed' = failed
  BY DEF KernelWrites
<1>2. /\ write.len \in 1..MainLen /\ k \in Nat
      /\ Memory(send_buffer, write.raw, k) = t
  BY <1>1, Unfolded, InFlightReads
<1>3. /\ wire \in Seq(Nat) /\ Len(wire) \in Nat /\ write \in Write
      /\ MainLen \in Nat /\ Gone \in Nat /\ k \in 1..MainLen
  BY <1>2, Unfolded
<1> DEFINE base == 0
<1>4. /\ t \in Seq(Nat) /\ Len(t) = k /\ base \in Nat
      /\ \A i \in 1..Len(t) : t[i] = base + Len(wire) + i
  BY <1>2, <1>3
<1>5. \A i \in 1..Len(wire) : wire[i] = base + i
  BY <1>3 DEF IInv, BytesInOrder
<1> HIDE DEF t, base
<1>6a. /\ wire \o t \in Seq(Nat) /\ Len(wire \o t) = Len(wire) + Len(t)
       /\ \A i \in 1 .. Len(wire) + Len(t) : (wire \o t)[i] = base + i
  BY <1>3, <1>4, <1>5, ConcatInOrder
<1>6. /\ wire \o t \in Seq(Nat) /\ Len(wire \o t) = Len(wire) + Len(t)
      /\ \A i \in 1 .. Len(wire) + Len(t) : (wire \o t)[i] = i
  BY <1>3, <1>4, <1>6a DEF base
<1>7. /\ wire' \in Seq(Nat) /\ Len(wire') = Len(wire) + k
      /\ \A i \in 1..Len(wire') : wire'[i] = i
  BY <1>1, <1>2, <1>3, <1>4, <1>6
<1>8. MainLen' = MainLen /\ SubLen' = SubLen /\ Gone' = Gone
  BY <1>1 DEF MainLen, SubLen, Gone
<1>9. write' \in Write /\ write'.st = "done" /\ write'.res = k
  BY <1>1, <1>2, <1>3 DEF Write
<1>10. TypeOK'
  BY <1>1, <1>7, <1>9 DEF IInv, TypeOK, WellFormed
<1>11. BytesInOrder'
  BY <1>1, <1>7, <1>8 DEF IInv, BytesInOrder
<1>12. Allocations'
  BY <1>1, <1>8 DEF IInv, Allocations
<1>13. Len(wire) = Gone /\ MainLen > 0 /\ ~failed
  BY <1>1 DEF IInv, WriteProgress
<1>14. WriteProgress'
  BY <1>1, <1>3, <1>7, <1>8, <1>9, <1>13 DEF WriteProgress
<1>15. QED
  BY <1>10, <1>11, <1>12, <1>14 DEF IInv

\* A write the kernel refuses, before and after io_service::io has seen it.
LEMMA RefusalPreserves ==
    ASSUME IInv, KernelRefuses \/ IoError
    PROVE  IInv'
<1>1. /\ send_buffer' = send_buffer /\ accepted' = accepted /\ wire' = wire
      /\ fresh' = fresh
  BY DEF KernelRefuses, IoError
<1>2. MainLen' = MainLen /\ SubLen' = SubLen /\ Gone' = Gone
  BY <1>1 DEF MainLen, SubLen, Gone
<1>3. write \in Write /\ WriteProgress
  BY Unfolded DEF IInv
<1>4. write' \in Write /\ WriteProgress' /\ failed' \in BOOLEAN
  <2>1. CASE KernelRefuses
    <3>1. /\ write.st = "submitted" /\ write' \in Write /\ write'.st = "refused"
          /\ write'.raw = write.raw /\ write'.len = write.len
          /\ failed' = failed /\ failed \in BOOLEAN
      BY <1>3, <2>1, Unfolded DEF KernelRefuses, Write
    <3>2. QED
      BY <1>1, <1>2, <1>3, <3>1 DEF WriteProgress
  <2>2. CASE IoError
    <3>1. /\ write.st = "refused" /\ write' \in Write /\ write'.st = "none"
          /\ failed' = TRUE
      BY <1>3, <2>2 DEF IoError, Write, NoWrite, NULL
    <3>2. QED
      BY <1>1, <1>2, <1>3, <3>1 DEF WriteProgress
  <2>3. QED
    BY <2>1, <2>2
<1>5. TypeOK'
  BY <1>1, <1>4 DEF IInv, TypeOK, WellFormed
<1>6. BytesInOrder'
  BY <1>1, <1>2 DEF IInv, BytesInOrder
<1>7. Allocations'
  BY <1>1, <1>2 DEF IInv, Allocations
<1>8. QED
  BY <1>4, <1>5, <1>6, <1>7 DEF IInv

\* What io_sent leaves in the buffer (socket_object.cpp:98-101): the bytes that
\* follow those written, and sub's in main's place when main is used up.
LEMMA IoSentDrops ==
    ASSUME IInv, write.st = "done", NEW d,
           d = Elevated(DPopped(send_buffer, write.res))
    PROVE  /\ d \in DoubleBuffer /\ WellFormed(d.main) /\ WellFormed(d.sub)
           /\ Len(d.main.data) + Len(d.sub.data) = MainLen + SubLen - write.res
           /\ d.main.raw \in 1 .. fresh - 1 /\ d.main.block > 0
           /\ IF Len(d.sub.data) = 0
              THEN d.sub = NoBuffer
              ELSE /\ d.sub.raw \in (1 .. fresh - 1) \ {d.main.raw}
                   /\ d.sub.block > 0
                   /\ Len(d.main.data) > 0
           /\ \A i \in 1..Len(d.main.data) : d.main.data[i] = Gone + write.res + i
           /\ \A i \in 1..Len(d.sub.data) :
                 d.sub.data[i] = Gone + write.res + Len(d.main.data) + i
<1> DEFINE main == send_buffer.main
<1> DEFINE sub == send_buffer.sub
<1> DEFINE res == write.res
<1> DEFINE m == Popped(main, res)
<1> DEFINE p == DPopped(send_buffer, res)
<1>1. /\ send_buffer \in DoubleBuffer /\ WellFormed(main) /\ WellFormed(sub)
      /\ MainLen \in Nat /\ SubLen \in Nat /\ Gone \in Nat
  BY Unfolded
<1>2. /\ MainLen = Len(main.data) /\ SubLen = Len(sub.data)
      /\ Empty(sub) <=> SubLen = 0
  BY Unfolded DEF MainLen, SubLen
<1>3. /\ \A i \in 1..MainLen : main.data[i] = Gone + i
      /\ \A i \in 1..SubLen : sub.data[i] = Gone + MainLen + i
  BY DEF IInv, BytesInOrder
<1>4. /\ main.raw \in 1 .. fresh - 1 /\ main.block > 0
      /\ SubLen = 0 => sub = NoBuffer
      /\ SubLen # 0 => /\ sub.raw \in (1 .. fresh - 1) \ {main.raw}
                       /\ sub.block > 0
  BY DEF IInv, Allocations
<1>5. res \in 1..MainLen /\ res \in Nat
  BY <1>1 DEF IInv, WriteProgress
<1>6. p = [main |-> m, sub |-> sub]
  BY <1>1 DEF DPopped, DoubleBuffer
<1> HIDE DEF main, sub, res, p
<1>7. /\ WellFormed(m) /\ Len(m.data) = Len(main.data) - res
      /\ \A i \in 1 .. Len(main.data) - res : m.data[i] = main.data[res + i]
      /\ m.raw = main.raw /\ m.block = main.block
  <2>1. WellFormed(main) /\ res \in 0 .. Len(main.data)
    BY <1>1, <1>2, <1>5
  <2> HIDE DEF m
  <2>2. QED
    BY <2>1, PoppedDrops DEF m
<1> HIDE DEF m
<1>14. Len(m.data) \in Nat /\ Len(m.data) = MainLen - res
  BY <1>1, <1>2, <1>5, <1>7
<1>8. \A i \in 1..Len(m.data) : m.data[i] = Gone + res + i
  <2>1. TAKE i \in 1..Len(m.data)
  <2>2. /\ i \in 1 .. Len(main.data) - res
        /\ res + i \in 1..MainLen
    BY <1>1, <1>2, <1>5, <1>14
  <2>3. m.data[i] = main.data[res + i] /\ main.data[res + i] = Gone + (res + i)
    BY <1>3, <1>7, <2>2
  <2>4. QED
    BY <1>1, <1>5, <2>2, <2>3
<1>9. m \in Buffer /\ sub \in Buffer /\ (Empty(m) <=> Len(m.data) = 0)
  BY <1>1, <1>7, EmptySeq DEF WellFormed, Buffer, Empty
<1>10. d = Elevated(p)
  BY DEF p, res
<1>11. CASE Empty(m) /\ ~Empty(sub)
  <2>1. d = [main |-> sub, sub |-> NoBuffer]
    BY <1>6, <1>10, <1>11 DEF Elevated
  <2>2. /\ NoBuffer \in Buffer /\ NoBuffer.data = <<>> /\ NoBuffer.size = 0
        /\ Len(NoBuffer.data) = 0
    BY DEF NoBuffer, Buffer, NULL
  <2>3. WellFormed(NoBuffer)
    BY <2>2 DEF WellFormed
  <2>4. d \in DoubleBuffer /\ d.main = sub /\ d.sub = NoBuffer
    BY <1>9, <2>1, <2>2 DEF DoubleBuffer
  <2>5. MainLen = res /\ SubLen # 0
    BY <1>1, <1>2, <1>5, <1>7, <1>9, <1>11
  <2>6. \A i \in 1..Len(d.main.data) : d.main.data[i] = Gone + res + i
    BY <1>2, <1>3, <2>4, <2>5
  <2>7. Len(d.main.data) + Len(d.sub.data) = MainLen + SubLen - res
    <3>1. Len(d.main.data) = SubLen /\ Len(d.sub.data) = 0
      BY <1>2, <2>2, <2>4
    <3>2. SubLen \in Nat /\ MainLen \in Nat /\ MainLen = res
      BY <1>1, <2>5
    <3>3. SubLen + 0 = MainLen + SubLen - res
      BY <3>2
    <3>4. QED
      BY <3>1, <3>3
  <2>8. \A i \in 1..Len(d.sub.data) :
            d.sub.data[i] = Gone + res + Len(d.main.data) + i
    BY <2>2, <2>4
  <2>9. /\ d.main.raw \in 1 .. fresh - 1 /\ d.main.block > 0
        /\ Len(d.sub.data) = 0 /\ d.sub = NoBuffer
    BY <1>4, <2>2, <2>4, <2>5
  <2>10. WellFormed(d.main) /\ WellFormed(d.sub)
    BY <1>1, <2>3, <2>4
  <2>11. QED
    BY <2>4, <2>6, <2>7, <2>8, <2>9, <2>10 DEF res
<1>12. CASE ~(Empty(m) /\ ~Empty(sub))
  <2>1. d = p /\ d.main = m /\ d.sub = sub
    BY <1>6, <1>10, <1>12 DEF Elevated
  <2>2. d \in DoubleBuffer
    BY <1>6, <1>9, <2>1 DEF DoubleBuffer
  <2>3. Len(d.main.data) + Len(d.sub.data) = MainLen + SubLen - res
    <3>1. Len(d.main.data) = MainLen - res /\ Len(d.sub.data) = SubLen
      BY <1>2, <1>14, <2>1
    <3>2. (MainLen - res) + SubLen = MainLen + SubLen - res
      BY <1>1, <1>5
    <3>3. QED
      BY <3>1, <3>2
  <2>4. SubLen # 0 => Len(d.main.data) > 0
    BY <1>2, <1>9, <1>12, <1>14, <2>1
  <2>5. \A i \in 1..Len(d.sub.data) : d.sub.data[i] = Gone + res + Len(d.main.data) + i
    <3>1. Gone + res + Len(d.main.data) = Gone + MainLen
      <4>1. Len(d.main.data) = MainLen - res
        BY <1>14, <2>1
      <4>2. Gone + res + (MainLen - res) = Gone + MainLen
        BY <1>1, <1>5
      <4>3. QED
        BY <4>1, <4>2
    <3>2. QED
      BY <1>2, <1>3, <2>1, <3>1
  <2>6. \A i \in 1..Len(d.main.data) : d.main.data[i] = Gone + res + i
    BY <1>8, <2>1
  <2>7. QED
    <3>1. WellFormed(d.main) /\ WellFormed(d.sub)
      BY <1>1, <1>7, <2>1
    <3>2. /\ d.main.raw \in 1 .. fresh - 1 /\ d.main.block > 0
          /\ Len(d.sub.data) = SubLen
      BY <1>2, <1>4, <1>7, <2>1
    <3>3. IF SubLen = 0
          THEN d.sub = NoBuffer
          ELSE /\ d.sub.raw \in (1 .. fresh - 1) \ {d.main.raw}
               /\ d.sub.block > 0
               /\ Len(d.main.data) > 0
      BY <1>4, <1>7, <2>1, <2>4
    <3>4. QED
      BY <2>2, <2>3, <2>5, <2>6, <3>1, <3>2, <3>3 DEF res
<1>13. QED
  BY <1>11, <1>12

\* io_sent under the lock (socket_object.cpp:96-111).
LEMMA IoSentPreserves ==
    ASSUME IInv, IoSent
    PROVE  IInv'
<1> DEFINE d == Elevated(DPopped(send_buffer, write.res))
<1>1. /\ write.st = "done" /\ send_buffer' = d
      /\ write' = IF DEmpty(d) THEN NoWrite ELSE Submitted(d)
      /\ accepted' = accepted /\ wire' = wire /\ fresh' = fresh /\ failed' = failed
  BY DEF IoSent
<1>1a. failed' \in BOOLEAN
  BY <1>1, Unfolded
<1> HIDE DEF d
<1>2. /\ d \in DoubleBuffer /\ WellFormed(d.main) /\ WellFormed(d.sub)
      /\ Len(d.main.data) + Len(d.sub.data) = MainLen + SubLen - write.res
      /\ d.main.raw \in 1 .. fresh - 1 /\ d.main.block > 0
      /\ IF Len(d.sub.data) = 0
         THEN d.sub = NoBuffer
         ELSE /\ d.sub.raw \in (1 .. fresh - 1) \ {d.main.raw}
              /\ d.sub.block > 0
              /\ Len(d.main.data) > 0
      /\ \A i \in 1..Len(d.main.data) : d.main.data[i] = Gone + write.res + i
      /\ \A i \in 1..Len(d.sub.data) :
            d.sub.data[i] = Gone + write.res + Len(d.main.data) + i
  BY <1>1, IoSentDrops DEF d
<1>3. /\ MainLen \in Nat /\ SubLen \in Nat /\ Gone \in Nat /\ write.res \in Nat
      /\ accepted = Gone + MainLen + SubLen /\ accepted \in Nat
      /\ wire \in Seq(Nat) /\ Len(wire) \in Nat /\ fresh \in Nat /\ fresh > 0
  BY Unfolded
<1>4. write.res \in 1..MainLen /\ Len(wire) = Gone + write.res /\ ~failed
  BY <1>1 DEF IInv, WriteProgress
<1>5. MainLen' = Len(d.main.data) /\ SubLen' = Len(d.sub.data)
  BY <1>1 DEF MainLen, SubLen
<1>6. /\ d.main.data \in Seq(Nat) /\ d.sub.data \in Seq(Nat) /\ d.main.raw \in Nat
      /\ Len(d.main.data) \in Nat /\ Len(d.sub.data) \in Nat
      /\ (Empty(d.main) <=> Len(d.main.data) = 0)
      /\ (Empty(d.sub) <=> Len(d.sub.data) = 0)
  BY <1>2, LenProperties, EmptySeq DEF DoubleBuffer, Buffer, Empty
<1>7. Gone' = Gone + write.res
  <2>1. Gone' = accepted - MainLen' - SubLen'
    BY <1>1 DEF Gone
  <2>2. /\ MainLen' \in Nat /\ SubLen' \in Nat
        /\ MainLen' + SubLen' = MainLen + SubLen - write.res
    BY <1>2, <1>5, <1>6
  <2>3. \A g, m, s, r, a, b \in Int :
            a + b = m + s - r => (g + m + s) - a - b = g + r
    OBVIOUS
  <2>4. /\ Gone \in Int /\ MainLen \in Int /\ SubLen \in Int /\ write.res \in Int
        /\ MainLen' \in Int /\ SubLen' \in Int
    BY <1>3, <2>2
  <2>5. (Gone + MainLen + SubLen) - MainLen' - SubLen' = Gone + write.res
    BY <2>2, <2>3, <2>4
  <2>6. QED
    BY <1>3, <2>1, <2>5
<1>8. DEmpty(d) <=> MainLen' = 0
  BY <1>2, <1>5, <1>6 DEF DEmpty
<1>9. write' \in Write /\ WriteProgress'
  <2>1. CASE DEmpty(d)
    <3>1. write' = NoWrite /\ write' \in Write /\ write'.st = "none"
      BY <1>1, <2>1 DEF NoWrite, Write, NULL
    <3>2. QED
      BY <1>1, <1>4, <1>7, <1>8, <2>1, <3>1 DEF WriteProgress
  <2>2. CASE ~DEmpty(d)
    <3>1. /\ write' = Submitted(d) /\ write' \in Write /\ write'.st = "submitted"
          /\ write'.raw = d.main.raw /\ write'.len = Len(d.main.data)
      BY <1>1, <1>6, <2>2 DEF Submitted, Write, DRaw, DSize
    <3>2. MainLen' \in Nat /\ MainLen' > 0
      BY <1>5, <1>6, <1>8, <2>2
    <3>3. QED
      BY <1>1, <1>4, <1>5, <1>7, <3>1, <3>2 DEF WriteProgress
  <2>3. QED
    BY <2>1, <2>2
<1>10. TypeOK'
  BY <1>1a, <1>1, <1>2, <1>3, <1>9 DEF TypeOK, WellFormed
<1>11. \A i \in 1..Len(wire) : wire[i] = i
  BY DEF IInv, BytesInOrder
<1>12. BytesInOrder'
  BY <1>1, <1>2, <1>3, <1>5, <1>7, <1>11 DEF BytesInOrder
<1>13. Allocations'
  BY <1>1, <1>2, <1>5 DEF Allocations
<1>14. QED
  BY <1>9, <1>10, <1>12, <1>13 DEF IInv

\* The buffer as on_active() hands it out (tcp_socket.cpp:265-266).
LEMMA InitEstablishes ==
    ASSUME Init
    PROVE  IInv
<1> DEFINE b == Assigned(1, BufferSize)
<1>1. /\ send_buffer = [main |-> b, sub |-> NoBuffer]
      /\ write = NoWrite /\ accepted = 0 /\ wire = <<>> /\ fresh = 2
      /\ failed = FALSE
  BY DEF Init, DAssigned, NoDoubleBuffer
<1>2. /\ b \in Buffer /\ b.data = <<>> /\ b.size = BufferSize /\ b.block = BufferSize
      /\ b.raw = 1
  BY SendQueueAssumption DEF Assigned, Buffer
<1>3. NoBuffer \in Buffer /\ NoBuffer.data = <<>> /\ NoBuffer.size = 0
  BY DEF NoBuffer, Buffer, NULL
<1>4. NoWrite \in Write /\ NoWrite.st = "none"
  BY DEF NoWrite, Write, NULL
<1> HIDE DEF b
<1>5. send_buffer \in DoubleBuffer /\ send_buffer.main = b /\ send_buffer.sub = NoBuffer
  BY <1>1, <1>2, <1>3 DEF DoubleBuffer
<1>6. Len(<<>>) = 0
  BY EmptySeq
<1>7. MainLen = 0 /\ SubLen = 0 /\ Gone = 0
  BY <1>1, <1>2, <1>3, <1>5, <1>6 DEF MainLen, SubLen, Gone
<1>8. WellFormed(send_buffer.main) /\ WellFormed(send_buffer.sub)
  BY <1>2, <1>3, <1>5, <1>6, SendQueueAssumption DEF WellFormed
<1>9. TypeOK
  <2>1. failed \in BOOLEAN
    BY DEF Init
  <2>2. wire \in Seq(Nat)
    BY <1>1, EmptySeq
  <2>3. QED
    BY <1>1, <1>4, <1>5, <1>8, <2>1, <2>2 DEF TypeOK
<1>10. BytesInOrder
  BY <1>1, <1>6, <1>7 DEF BytesInOrder
<1>11. Allocations
  BY <1>1, <1>2, <1>5, <1>7, SendQueueAssumption DEF Allocations
<1>12. WriteProgress
  BY <1>1, <1>4, <1>6, <1>7 DEF WriteProgress
<1>13. QED
  BY <1>9, <1>10, <1>11, <1>12 DEF IInv

\* No step of the socket, the kernel or the worker breaks the invariant.
LEMMA NextPreserves ==
    ASSUME IInv, [Next]_vars
    PROVE  IInv'
<1>1. ASSUME NEW n \in 1..MaxChunk, Send(n)
      PROVE  IInv'
  BY <1>1, SendPreserves
<1>2. ASSUME NEW k \in 1..write.len, KernelWrites(k)
      PROVE  IInv'
  BY <1>2, KernelWritesPreserves
<1>3. CASE KernelRefuses
  BY <1>3, RefusalPreserves
<1>4. CASE IoSent
  BY <1>4, IoSentPreserves
<1>5. CASE IoError
  BY <1>5, RefusalPreserves
<1>6. CASE UNCHANGED vars
  <2>1. /\ send_buffer' = send_buffer /\ write' = write /\ accepted' = accepted
        /\ wire' = wire /\ failed' = failed /\ fresh' = fresh
    BY <1>6 DEF vars
  <2>2. MainLen' = MainLen /\ SubLen' = SubLen /\ Gone' = Gone
    BY <2>1 DEF MainLen, SubLen, Gone
  <2>3. TypeOK'
    BY <2>1 DEF IInv, TypeOK, WellFormed
  <2>4. BytesInOrder' /\ Allocations'
    BY <2>1, <2>2 DEF IInv, BytesInOrder, Allocations
  <2>5. WriteProgress'
    BY <2>1, <2>2 DEF IInv, WriteProgress
  <2>6. QED
    BY <2>3, <2>4, <2>5 DEF IInv
<1>7. QED
  BY <1>1, <1>2, <1>3, <1>4, <1>5, <1>6 DEF Next

-----------------------------------------------------------------------------
(* The theorems.                                                           *)

\* The inductive invariant holds in every reachable state, for every
\* RIORING_DATA_BUFFER_SIZE, every sequence of send() calls and every split of
\* the writes by the kernel.
THEOREM Invariance == Spec => []IInv
<1>1. Init => IInv
  BY InitEstablishes
<1>2. IInv /\ [Next]_vars => IInv'
  BY NextPreserves
<1>3. QED
  BY <1>1, <1>2, PTL DEF Spec

\* "Never overflow buffer": no buffer ever holds more than its capacity.
THEOREM TypeCorrect == Spec => []TypeOK
<1>1. IInv => TypeOK
  BY DEF IInv
<1>2. QED
  BY <1>1, Invariance, PTL

\* The memory of the write in flight stays what was submitted, although send()
\* keeps pushing into the same double buffer.
THEOREM InFlightSafe == Spec => []InFlightStable
<1>1. IInv => InFlightStable
  <2>1. SUFFICES ASSUME IInv, write.st \in {"submitted", "refused"}
                 PROVE  /\ write.raw = send_buffer.main.raw
                        /\ write.raw # NULL
                        /\ write.len \in 1 .. Len(send_buffer.main.data)
                        /\ Memory(send_buffer, write.raw, write.len)
                              = [i \in 1..write.len |-> Len(wire) + i]
    BY DEF InFlightStable
  <2>2. write.len \in 0..write.len
    BY <2>1, Unfolded
  <2>3. QED
    BY <2>1, <2>2, InFlightReads DEF MainLen
<1>2. QED
  BY <1>1, Invariance, PTL

\* send() submits when the buffer is empty, and only then (tcp_socket.cpp:250-254):
\* there is never a write of an empty buffer, and queued bytes have a write under
\* way unless one has failed; then they never have one again.
THEOREM OneWrite == Spec => []WriteIffQueued
<1>1. IInv => WriteIffQueued
  <2>1. SUFFICES ASSUME IInv
                 PROVE  WriteIffQueued
    OBVIOUS
  <2>2. MainLen \in Nat /\ (DEmpty(send_buffer) <=> MainLen = 0)
    BY <2>1, Unfolded
  <2>3. WriteProgress
    BY <2>1 DEF IInv
  <2>4. QED
    BY <2>2, <2>3 DEF WriteProgress, WriteIffQueued
<1>2. QED
  BY <1>1, Invariance, PTL

\* io_sent never finds the main buffer empty with bytes left in the sub buffer.
THEOREM SubFollowsMain == Spec => []SubBehindMain
<1>1. IInv => SubBehindMain
  <2>1. SUFFICES ASSUME IInv
                 PROVE  SubBehindMain
    OBVIOUS
  <2>2. /\ MainLen \in Nat
        /\ Empty(send_buffer.main) <=> MainLen = 0
        /\ Empty(send_buffer.sub) <=> SubLen = 0
    BY <2>1, Unfolded
  <2>3. QED
    BY <2>1, <2>2 DEF IInv, Allocations, SubBehindMain
<1>2. QED
  BY <1>1, Invariance, PTL

\* The first Len(s) elements of s and whatever follows are s.
LEMMA PrefixOfConcat ==
    ASSUME NEW s \in Seq(Nat), NEW t \in Seq(Nat)
    PROVE  /\ SubSeq(s \o t, 1, Len(s)) = s
           /\ SubSeq(s, 1, Len(s)) = s
<1>1. Len(s) \in Nat /\ SubSeq(s, 1, Len(s)) = s
  BY LenProperties, SubSeqFull
<1>2. SubSeq(s \o t, 1, Len(s)) = SubSeq(s, 1, Len(s))
  BY <1>1, SubSeqOfConcat1
<1>3. QED
  BY <1>1, <1>2

\* While a write is with the kernel, main_buffer is appended to and nothing else:
\* what the kernel is about to read neither moves nor changes.
THEOREM AppendOnly == Spec => MainOnlyAppendedTo
<1> DEFINE Kept == /\ send_buffer'.main.raw = send_buffer.main.raw
                   /\ SubSeq(send_buffer'.main.data, 1, Len(send_buffer.main.data))
                         = send_buffer.main.data
<1>1. ASSUME IInv, [Next]_vars, write.st \in {"submitted", "refused"}
      PROVE  Kept
  <2>1. /\ send_buffer.main.data \in Seq(Nat) /\ MainLen > 0 /\ MainLen \in Nat
        /\ DEmpty(send_buffer) <=> MainLen = 0
    BY <1>1, Unfolded DEF IInv, WriteProgress
  <2>2. CASE send_buffer' = send_buffer
    BY <2>1, <2>2, PrefixOfConcat
  <2>3. ASSUME NEW n \in 1..MaxChunk, Send(n)
        PROVE  Kept
    <3>1. PICK d \in DPushes(send_buffer, Chunk(n), fresh) : send_buffer' = d
      BY <2>3 DEF Send
    <3>2. n \in Nat \ {0} /\ n \in Nat
      BY SendQueueAssumption
    <3>3. Chunk(n) \in Seq(Nat)
      BY <1>1, <3>2, ChunkBytes DEF IInv
    <3>4. /\ d.main.raw = send_buffer.main.raw
          /\ \/ d.main.data = send_buffer.main.data \o Chunk(n)
             \/ d.main.data = send_buffer.main.data
      BY <1>1, <2>1, <3>1, <3>2, DPushesAppends
    <3>5. QED
      BY <2>1, <3>1, <3>3, <3>4, PrefixOfConcat
  <2>4. ~IoSent
    BY <1>1 DEF IoSent
  <2>5. KernelRefuses \/ IoError \/ (\E k \in 1..write.len : KernelWrites(k))
          \/ UNCHANGED vars => send_buffer' = send_buffer
    BY DEF KernelRefuses, IoError, KernelWrites, vars
  <2>6. QED
    BY <1>1, <2>2, <2>3, <2>4, <2>5 DEF Next
<1>2. QED
  BY <1>1, Invariance, PTL DEF Spec, MainOnlyAppendedTo

\* The send path implements the byte stream: whatever send(), the kernel and
\* io_sent do, the peer gets the accepted bytes once each and in order.
THEOREM Refinement == Spec => Abstract!SafeStream
<1>1. Init => Abstract!StreamInit
  BY DEF Init, NoWrite, Abstract!StreamInit
<1>2. ASSUME IInv, [Next]_vars
      PROVE  [Abstract!StreamNext]_(Abstract!svars)
  <2> USE DEF Abstract!StreamNext, Abstract!svars
  <2>1. ASSUME NEW n \in 1..MaxChunk, Send(n)
        PROVE  Abstract!Accept
    <3>1. /\ accepted' = accepted + n /\ accepted + n <= MaxBytes /\ wire' = wire
          /\ write'.st = "submitted" \/ write' = write
          /\ DEmpty(send_buffer) \/ write' = write
      BY <2>1 DEF Send, Submitted
    <3>2. accepted \in Nat /\ n \in Nat \ {0} /\ MaxBytes \in Nat
      BY <1>2, SendQueueAssumption, Unfolded
    <3>3. DEmpty(send_buffer) => write.st = "none"
      BY <1>2, Unfolded DEF IInv, WriteProgress
    <3>4. accepted' \in accepted + 1 .. MaxBytes
      BY <3>1, <3>2
    <3>5. /\ write'.st = "refused" <=> write.st = "refused"
          /\ failed' = failed
      BY <2>1, <3>1, <3>3 DEF Send
    <3>6. QED
      BY <3>1, <3>4, <3>5 DEF Abstract!Accept
  <2>2. ASSUME NEW k \in 1..write.len, KernelWrites(k)
        PROVE  Abstract!Transmit
    <3>1. write.st = "submitted" /\ k \in 0..write.len /\ write \in Write
      BY <1>2, <2>2, Unfolded DEF KernelWrites
    <3>2. /\ write.len \in 1..MainLen
          /\ Memory(send_buffer, write.raw, k) = [i \in 1..k |-> Len(wire) + i]
      BY <1>2, <3>1, InFlightReads
    <3>3. Len(wire) = Gone
      BY <1>2, <3>1 DEF IInv, WriteProgress
    <3>4. k \in 1 .. accepted - Len(wire)
      BY <1>2, <3>2, <3>3, Unfolded
    <3>5. /\ wire' = wire \o [i \in 1..k |-> Len(wire) + i] /\ accepted' = accepted
          /\ write'.st = "done" /\ failed' = failed /\ ~failed
      BY <1>2, <2>2, <3>1, <3>2 DEF KernelWrites, Write, IInv, WriteProgress
    <3>6. QED
      BY <3>1, <3>4, <3>5 DEF Abstract!Transmit
  <2>3. CASE KernelRefuses
    <3>1. /\ write.st = "submitted" /\ write'.st = "refused"
          /\ accepted' = accepted /\ wire' = wire
      BY <1>2, <2>3, Unfolded DEF KernelRefuses, Write
    <3>2. Len(wire) = Gone /\ MainLen > 0
      BY <1>2, <3>1 DEF IInv, WriteProgress
    <3>3. Len(wire) < accepted
      BY <1>2, <3>2, Unfolded
    <3>4. QED
      BY <3>1, <3>3 DEF Abstract!Break
  <2>4. CASE IoSent \/ IoError \/ UNCHANGED vars
    <3>1. accepted' = accepted /\ wire' = wire
      BY <2>4 DEF IoSent, IoError, vars
    <3>2. CASE IoSent
      <4>1. failed' = failed /\ write.st = "done" /\ write'.st \in {"none", "submitted"}
        BY <3>2 DEF IoSent, Submitted, NoWrite
      <4>2. QED
        BY <3>1, <4>1
    <3>3. CASE IoError
      <4>1. failed' = TRUE /\ write.st = "refused" /\ write'.st = "none"
        BY <3>3 DEF IoError, NoWrite
      <4>2. QED
        BY <3>1, <4>1
    <3>4. CASE UNCHANGED vars
      BY <3>1, <3>4 DEF vars
    <3>5. QED
      BY <2>4, <3>2, <3>3, <3>4
  <2>5. QED
    BY <1>2, <2>1, <2>2, <2>3, <2>4 DEF Next
<1>3. QED
  BY <1>1, <1>2, Invariance, PTL DEF Spec, Abstract!SafeStream
=============================================================================
