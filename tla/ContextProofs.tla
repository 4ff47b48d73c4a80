--------------------------- MODULE ContextProofs ----------------------------
(***************************************************************************)
(* The proofs about the contexts of requests.                              *)
(*                                                                         *)
(* ContextPool.tla, for any number of threads and any pool size: the spin  *)
(* lock excludes, no context is ever shared, and none is lost.  The three  *)
(* hold together: what one thread has read of the list (Locals) stays true *)
(* only because no other thread is inside.                                 *)
(*                                                                         *)
(* ContextReuse.tla, for any sockets of one kind, any addresses and any    *)
(* number of contexts: what a context keeps of its last use does no harm.  *)
(***************************************************************************)
EXTENDS ContextPool, ContextReuse, SequenceTheorems, TLAPS

-----------------------------------------------------------------------------
(* The pool and its lock.                                                  *)

\* The pool starts with its contexts, each in it once (simple_pool.h:28-32).
LEMMA InitEstablishes == Init => IInv
  <1> SUFFICES ASSUME Init PROVE IInv
      OBVIOUS
  <1>0. made = PoolSize /\ made \in PoolSize..MaxContexts /\ made \in Nat
    BY ContextPoolAssumption DEF Init
  <1>a. pool \in Seq(1..made) /\ Len(pool) = made /\ \A i \in 1..made : pool[i] = i
    BY <1>0 DEF Init
  <1>1. TypeOK
    <2>1. ctx \in [Threads -> 0..made]
      <3>1. 0 \in 0..made
        BY <1>0
      <3> QED BY <3>1 DEF Init, NoContext
    <2>2. /\ af \in BOOLEAN /\ held \in [Threads -> SUBSET (1..made)]
          /\ pc \in [Threads -> {"idle", "lockPop", "lockPush", "pop", "popFront", "push",
                                 "unlock"}]
      BY DEF Init
    <2> QED BY <1>0, <1>a, <2>1, <2>2 DEF TypeOK
  <1>2. Exclusive
    BY DEF Init, Exclusive, Inside
  <1>3. Locals
    BY DEF Init, Locals
  <1>4. NoSharing
    BY <1>a DEF Init, NoSharing
  <1>5. NoneLost
    BY <1>a DEF NoneLost, InPool
  <1> QED BY <1>1, <1>2, <1>3, <1>4, <1>5 DEF IInv

\* Steps that leave the list and the ownership of contexts alone.
LEMMA LockSteps ==
    ASSUME IInv, NEW t \in Threads,
           CallsPop(t) \/ CallsPush(t) \/ Locks(t) \/ PopReadsFront(t) \/ Unlocks(t)
    PROVE  IInv'
  <1> USE DEF IInv
  <1>u. UNCHANGED <<pool, made, held>>
    BY DEF CallsPop, CallsPush, Locks, PopReadsFront, Unlocks
  <1>s. NoSharing' /\ NoneLost'
    BY <1>u DEF NoSharing, NoneLost, InPool
  <1>1. CASE CallsPop(t)
    <2>1. TypeOK'
      BY <1>1 DEF CallsPop, Goto, TypeOK
    <2>2. Exclusive'
      BY <1>1 DEF CallsPop, Goto, TypeOK, Exclusive, Inside
    <2>3. Locals'
      BY <1>1 DEF CallsPop, Goto, TypeOK, Locals
    <2> QED BY <1>s, <2>1, <2>2, <2>3
  <1>2. CASE CallsPush(t)
    <2>1. TypeOK'
      BY <1>2 DEF CallsPush, Goto, TypeOK
    <2>2. Exclusive'
      BY <1>2 DEF CallsPush, Goto, TypeOK, Exclusive, Inside
    <2>3. Locals'
      BY <1>2 DEF CallsPush, Goto, TypeOK, Locals
    <2> QED BY <1>s, <2>1, <2>2, <2>3
  <1>3. CASE Locks(t)
    <2>0. \A s \in Threads : ~Inside(s)
      BY <1>3 DEF Locks, Exclusive
    <2>1. TypeOK'
      BY <1>3 DEF Locks, Goto, TypeOK
    <2>2. Exclusive'
      BY <1>3, <2>0 DEF Locks, Goto, TypeOK, Exclusive, Inside
    <2>3. Locals'
      BY <1>3 DEF Locks, Goto, TypeOK, Locals
    <2> QED BY <1>s, <2>1, <2>2, <2>3
  <1>4. CASE PopReadsFront(t)
    <2>0. \A s \in Threads : Inside(s) => s = t
      BY <1>4 DEF PopReadsFront, Exclusive, Inside
    <2>1. TypeOK'
      BY <1>4 DEF PopReadsFront, Goto, TypeOK
    <2>2. Exclusive'
      BY <1>4, <2>0 DEF PopReadsFront, Goto, TypeOK, Exclusive, Inside
    <2>3. Locals'
      BY <1>4 DEF PopReadsFront, Goto, TypeOK, Locals
    <2> QED BY <1>s, <2>1, <2>2, <2>3
  <1>5. CASE Unlocks(t)
    <2>0. \A s \in Threads : Inside(s) => s = t
      BY <1>5 DEF Unlocks, Exclusive, Inside
    <2>1. TypeOK'
      <3>1. 0 \in 0..made
        BY ContextPoolAssumption DEF TypeOK
      <3>2. ctx' \in [Threads -> 0..made]
        BY <1>5, <3>1 DEF Unlocks, TypeOK, NoContext
      <3> QED BY <1>5, <3>2 DEF Unlocks, Goto, TypeOK
    <2>2. Exclusive'
      BY <1>5, <2>0 DEF Unlocks, Goto, TypeOK, Exclusive, Inside
    <2>3. Locals'
      BY <1>5, <2>0 DEF Unlocks, Goto, TypeOK, Locals, Inside
    <2> QED BY <1>s, <2>1, <2>2, <2>3
  <1> QED BY <1>1, <1>2, <1>3, <1>4, <1>5

\* While t is inside, what the others read there is nothing.
LEMMA Alone ==
    ASSUME IInv, NEW t \in Threads, Inside(t), NEW s \in Threads, s # t
    PROVE  pc[s] \in {"idle", "lockPop", "lockPush"}
  BY DEF IInv, TypeOK, Exclusive, Inside

\* pop() of an empty pool makes a context nobody has (simple_pool.h:37-39).
LEMMA PopMakesPreserves ==
    ASSUME IInv, NEW t \in Threads, PopMakes(t)
    PROVE  IInv'
  <1> USE DEF IInv
  <1>0. \A s \in Threads : s # t => pc[s] \in {"idle", "lockPop", "lockPush"}
    BY Alone DEF PopMakes, Inside
  <1>1. TypeOK'
    BY ContextPoolAssumption DEF PopMakes, Goto, TypeOK
  <1>2. Exclusive'
    BY <1>0 DEF PopMakes, Goto, TypeOK, Exclusive, Inside
  <1>3. Locals'
    BY <1>0 DEF PopMakes, Goto, TypeOK, Locals
  <1>4. NoSharing'
    <2>1. \A s \in Threads : made + 1 \notin held[s]
      BY ContextPoolAssumption DEF TypeOK
    <2> QED BY <2>1 DEF PopMakes, TypeOK, NoSharing, InPool
  <1>5. NoneLost'
    BY ContextPoolAssumption DEF PopMakes, TypeOK, NoneLost, InPool
  <1> QED BY <1>1, <1>2, <1>3, <1>4, <1>5

\* pop() drops the front it read under the lock (simple_pool.h:42-45).
LEMMA PopDropsFrontPreserves ==
    ASSUME IInv, NEW t \in Threads, PopDropsFront(t)
    PROVE  IInv'
  <1> USE DEF IInv
  <1>0. \A s \in Threads : s # t => pc[s] \in {"idle", "lockPop", "lockPush"}
    BY Alone DEF PopDropsFront, Inside
  <1>a. pool # <<>> /\ ctx[t] = pool[1] /\ pool \in Seq(1..made)
    BY DEF PopDropsFront, Locals, TypeOK
  <1>b. /\ Len(pool') = Len(pool) - 1
        /\ \A i \in 1..Len(pool') : pool'[i] = pool[i + 1]
        /\ pool' \in Seq(1..made)
        /\ Len(pool) \in Nat \ {0}
    BY <1>a DEF PopDropsFront
  <1>c. InPool(ctx[t])
    BY <1>a, <1>b DEF InPool
  <1>1. TypeOK'
    <2>0. 1 \in 1..Len(pool)
      BY <1>b
    <2>1. ctx[t] \in 1..made
      BY <1>a, <2>0, ElementOfSeq
    <2> QED BY <1>b, <2>1 DEF PopDropsFront, Goto, TypeOK
  <1>2. Exclusive'
    BY <1>0 DEF PopDropsFront, Goto, TypeOK, Exclusive, Inside
  <1>3. Locals'
    BY <1>0 DEF PopDropsFront, Goto, TypeOK, Locals
  <1>4. NoSharing'
    <2>1. \A s \in Threads : ctx[t] \notin held[s]
      BY <1>c DEF NoSharing
    <2>2. \A c : InPool(c)' => InPool(c) /\ c # ctx[t]
      <3> SUFFICES ASSUME NEW c, InPool(c)' PROVE InPool(c) /\ c # ctx[t]
          OBVIOUS
      <3>1. PICK i \in 1..Len(pool') : pool'[i] = c
        BY DEF InPool
      <3>2. i + 1 \in 1..Len(pool) /\ pool[i + 1] = c /\ i + 1 # 1 /\ 1 \in 1..Len(pool)
        BY <1>b, <3>1
      <3> QED BY <1>a, <3>2 DEF InPool, NoSharing
    <2>3. \A i, j \in 1..Len(pool') : pool'[i] = pool'[j] => i = j
      <3> SUFFICES ASSUME NEW i \in 1..Len(pool'), NEW j \in 1..Len(pool'),
                          pool'[i] = pool'[j]
                   PROVE  i = j
          OBVIOUS
      <3>1. i + 1 \in 1..Len(pool) /\ j + 1 \in 1..Len(pool) /\ pool[i + 1] = pool[j + 1]
        BY <1>b
      <3>2. i + 1 = j + 1
        BY <3>1 DEF NoSharing
      <3> QED BY <1>b, <3>2
    <2>4. held' = [held EXCEPT ![t] = @ \cup {ctx[t]}]
      BY DEF PopDropsFront
    <2>5. \A s, u \in Threads : s # u => held'[s] \cap held'[u] = {}
      BY <2>1, <2>4 DEF TypeOK, NoSharing
    <2>6. \A s \in Threads : \A c \in held'[s] : ~InPool(c)'
      BY <2>2, <2>4 DEF TypeOK, NoSharing
    <2> QED BY <2>3, <2>5, <2>6 DEF NoSharing
  <1>5. NoneLost'
    <2> SUFFICES ASSUME NEW c \in 1..made
                 PROVE  InPool(c)' \/ \E s \in Threads : c \in held'[s]
        BY DEF NoneLost, PopDropsFront
    <2>4. held' = [held EXCEPT ![t] = @ \cup {ctx[t]}]
      BY DEF PopDropsFront
    <2>1. CASE \E s \in Threads : c \in held[s]
      BY <2>1, <2>4 DEF TypeOK
    <2>2. CASE c = ctx[t]
      BY <2>2, <2>4 DEF TypeOK
    <2>3. CASE InPool(c) /\ c # ctx[t]
      <3>1. PICK i \in 1..Len(pool) : pool[i] = c
        BY <2>3 DEF InPool
      <3>2. i # 1
        BY <1>a, <2>3, <3>1
      <3>3. i - 1 \in 1..Len(pool') /\ pool'[i - 1] = c
        BY <1>b, <3>1, <3>2
      <3> QED BY <3>3 DEF InPool
    <2> QED BY <2>1, <2>2, <2>3 DEF NoneLost
  <1> QED BY <1>1, <1>2, <1>3, <1>4, <1>5

\* push() returns a context its caller alone held (simple_pool.h:47-50).
LEMMA PushAppendsPreserves ==
    ASSUME IInv, NEW t \in Threads, PushAppends(t)
    PROVE  IInv'
  <1> USE DEF IInv
  <1>0. \A s \in Threads : s # t => pc[s] \in {"idle", "lockPop", "lockPush"}
    BY Alone DEF PushAppends, Inside
  <1>a. ctx[t] \in held[t] /\ ctx[t] \in 1..made /\ pool \in Seq(1..made)
    BY DEF PushAppends, Locals, TypeOK
  <1>b. /\ Len(pool') = Len(pool) + 1
        /\ \A i \in 1..Len(pool) : pool'[i] = pool[i]
        /\ pool'[Len(pool) + 1] = ctx[t]
        /\ pool' \in Seq(1..made)
        /\ Len(pool) \in Nat
    BY <1>a DEF PushAppends
  <1>h. held' = [held EXCEPT ![t] = @ \ {ctx[t]}]
    BY DEF PushAppends
  <1>p. \A c : InPool(c)' <=> InPool(c) \/ c = ctx[t]
    <2>1. ASSUME NEW c, InPool(c)' PROVE InPool(c) \/ c = ctx[t]
      <3>1. PICK i \in 1..Len(pool') : pool'[i] = c
        BY <2>1 DEF InPool
      <3>2. i \in 1..Len(pool) \/ i = Len(pool) + 1
        BY <1>b
      <3> QED BY <1>b, <3>1, <3>2 DEF InPool
    <2>2. ASSUME NEW c, InPool(c) PROVE InPool(c)'
      <3>1. PICK i \in 1..Len(pool) : pool[i] = c
        BY <2>2 DEF InPool
      <3>2. i \in 1..Len(pool') /\ pool'[i] = c
        BY <1>b, <3>1
      <3> QED BY <3>2 DEF InPool
    <2>3. ASSUME NEW c, c = ctx[t] PROVE InPool(c)'
      <3>1. Len(pool) + 1 \in 1..Len(pool') /\ pool'[Len(pool) + 1] = c
        BY <1>b, <2>3
      <3> QED BY <3>1 DEF InPool
    <2> QED BY <2>1, <2>2, <2>3
  <1>1. TypeOK'
    BY <1>b DEF PushAppends, Goto, TypeOK
  <1>2. Exclusive'
    BY <1>0 DEF PushAppends, Goto, TypeOK, Exclusive, Inside
  <1>3. Locals'
    <2>1. \A s \in Threads : s # t /\ pc[s] = "lockPush" => ctx[s] \in held'[s]
      BY <1>h DEF Locals, TypeOK
    <2> QED BY <1>0, <2>1 DEF PushAppends, Goto, TypeOK, Locals
  <1>4. NoSharing'
    <2>1. \A s \in Threads : s # t => ctx[t] \notin held[s]
      BY <1>a DEF NoSharing
    <2>2. \A s, u \in Threads : s # u => held'[s] \cap held'[u] = {}
      BY <1>h DEF TypeOK, NoSharing
    <2>3. \A s \in Threads : \A c \in held'[s] : ~InPool(c)'
      BY <1>h, <1>p, <2>1 DEF TypeOK, NoSharing
    <2>4. \A i, j \in 1..Len(pool') : pool'[i] = pool'[j] => i = j
      <3>1. ~InPool(ctx[t])
        BY <1>a DEF NoSharing
      <3> SUFFICES ASSUME NEW i \in 1..Len(pool'), NEW j \in 1..Len(pool'),
                          pool'[i] = pool'[j]
                   PROVE  i = j
          OBVIOUS
      <3>2. /\ i \in 1..Len(pool) \/ i = Len(pool) + 1
            /\ j \in 1..Len(pool) \/ j = Len(pool) + 1
        BY <1>b
      <3>3. \A k \in 1..Len(pool) : pool[k] # ctx[t]
        BY <3>1 DEF InPool
      <3> QED BY <1>b, <3>2, <3>3 DEF NoSharing
    <2> QED BY <2>2, <2>3, <2>4 DEF NoSharing
  <1>5. NoneLost'
    BY <1>h, <1>p DEF PushAppends, TypeOK, NoneLost
  <1> QED BY <1>1, <1>2, <1>3, <1>4, <1>5

\* A submitted context passes from its thread to the kernel (io_service.cpp:367-368).
LEMMA HandsOverPreserves ==
    ASSUME IInv, NEW s \in Threads, NEW t \in Threads, HandsOver(s, t)
    PROVE  IInv'
  <1> USE DEF IInv
  <1>1. PICK c \in held[s] : held' = [held EXCEPT ![s] = @ \ {c}, ![t] = @ \cup {c}]
    BY DEF HandsOver
  <1>2. s # t /\ pc[s] = "idle" /\ UNCHANGED <<af, pool, made, pc, ctx>>
    BY DEF HandsOver
  <1>h. \A u \in Threads : held'[u] = IF u = s THEN held[s] \ {c}
                                      ELSE IF u = t THEN held[t] \cup {c} ELSE held[u]
    BY <1>1, <1>2 DEF TypeOK
  <1>3. TypeOK'
    BY <1>1, <1>2 DEF TypeOK
  <1>4. Exclusive'
    BY <1>2 DEF Exclusive, Inside
  <1>5. Locals'
    BY <1>2, <1>h DEF Locals
  <1>6. NoSharing'
    <2>1. \A u, v \in Threads : u # v => held'[u] \cap held'[v] = {}
      BY <1>2, <1>h DEF NoSharing
    <2>2. \A u \in Threads : \A d \in held'[u] : ~InPool(d)'
      BY <1>2, <1>h DEF NoSharing, InPool
    <2> QED BY <1>2, <2>1, <2>2 DEF NoSharing
  <1>7. NoneLost'
    BY <1>2, <1>h DEF NoneLost, InPool
  <1> QED BY <1>3, <1>4, <1>5, <1>6, <1>7

\* Every step of the pool keeps the inductive invariant.
LEMMA NextPreserves == IInv /\ [Next]_vars => IInv'
  <1> SUFFICES ASSUME IInv, [Next]_vars PROVE IInv'
      OBVIOUS
  <1>1. ASSUME NEW t \in Threads, Pool(t) PROVE IInv'
    BY <1>1, LockSteps, PopMakesPreserves, PopDropsFrontPreserves, PushAppendsPreserves
       DEF Pool
  <1>2. ASSUME NEW s \in Threads, NEW t \in Threads, HandsOver(s, t) PROVE IInv'
    BY <1>2, HandsOverPreserves
  <1>3. CASE UNCHANGED vars
    BY <1>3 DEF vars, IInv, TypeOK, Exclusive, Inside, Locals, NoSharing, NoneLost, InPool
  <1> QED BY <1>1, <1>2, <1>3 DEF Next

\* IInv is invariant: the steps of simple_pool::pop and push, whatever the order in
\* which the threads take them, keep it.
THEOREM Invariance == Spec => []IInv
  BY InitEstablishes, NextPreserves, PTL DEF Spec

\* spin_lock excludes: no two threads are between lock() and unlock() of the pool.
THEOREM LockExcludes == Spec => []Exclusive
  <1>1. IInv => Exclusive
    BY DEF IInv
  <1> QED BY Invariance, <1>1, PTL

\* allocate_context never hands out a context that is in use: requests in the kernel
\* are told apart by the address of their context.
THEOREM NoContextShared == Spec => []NoSharing
  <1>1. IInv => NoSharing
    BY DEF IInv
  <1> QED BY Invariance, <1>1, PTL

\* deallocate_context returns what allocate_context gave: the pool loses nothing.
THEOREM NoContextLost == Spec => []NoneLost
  <1>1. IInv => NoneLost
    BY DEF IInv
  <1> QED BY Invariance, <1>1, PTL

-----------------------------------------------------------------------------
(* What recycled contexts hold.                                            *)

Address == Sockets \cup Peers4 \cup Peers6 \cup {NoAddress, Mangled}

Context == [st : {"free", "pending", "done", "refused", "ended"},
            type : {"unknown", "read", "write"}, ctype : {"tcp", "udp"},
            sock : Sockets \cup {NoAddress}, addr : Address, namelen : Nat, peer : Address]

ReuseTypeOK ==
    /\ sockets \in Programs /\ ended \subseteq sockets
    /\ contexts \in [ContextIds -> Context]
    /\ context_pool \in Seq(ContextIds)

\* The pool has free contexts only, each once.
Pooled ==
    /\ \A i \in 1..Len(context_pool) : contexts[context_pool[i]].st = "free"
    /\ \A i, j \in 1..Len(context_pool) : context_pool[i] = context_pool[j] => i = j

\* Whom the bytes of a socket go to and come from.
Partners(s) == IF s \in Tcp THEN {s} ELSE PeersOf(s)

Used(c) ==
    c.st # "free" => /\ c.sock \in sockets
                     /\ c.type \in {"read", "write"}
                     /\ c.type = "write" => c.peer \in Partners(c.sock)
                     /\ c.type = "read" /\ c.st = "done" => c.peer \in Partners(c.sock)
                     /\ c.st = "ended" => c.type = "read"

\* The size of an address of the program's one family.
FamilySize == IF sockets \subseteq Udp6 THEN 28 ELSE 16

\* A context goes by the kind of its socket, and one that was never used for UDP
\* is TCP's; the address it holds is that of its request.
Kind(c) ==
    /\ sockets \subseteq Tcp => c.ctype = "tcp"
    /\ c.st # "free" => (c.ctype = "tcp" <=> c.sock \in Tcp)
    /\ c.st # "free" /\ c.sock \notin Tcp /\ (c.type = "write" \/ c.st = "done") => c.addr = c.peer
    /\ c.st # "refused"

\* It has room for a name of the family, unless it was the last one of a socket that ended.
Room(c) == \/ sockets \subseteq Tcp
           \/ c.namelen >= FamilySize
           \/ c.st = "ended"
           \/ c.st = "free" /\ ended # {}

Sound == /\ \A i \in ContextIds : Kind(contexts[i]) /\ Room(contexts[i])
         /\ event.given = event.real /\ ~event.refused

Reading(c) == c.st # "free" /\ c.type = "read"

\* A socket has one read at a time, and none when io_shutdown was called.
OneRead ==
    \A i \in ContextIds : Reading(contexts[i]) =>
        /\ contexts[i].sock \notin ended
        /\ \A j \in ContextIds : Reading(contexts[j]) /\ contexts[j].sock = contexts[i].sock => j = i

ReuseIInv ==
    /\ ReuseTypeOK /\ Pooled /\ OneRead
    /\ \A i \in ContextIds : Used(contexts[i])
    /\ Spoiled \/ Sound

\* All sockets of a program have addresses of one size (sockaddr_in or sockaddr_in6), or are TCP.
LEMMA FamilyOf ==
    ASSUME OneFamily, ReuseTypeOK, ~(sockets \subseteq Tcp)
    PROVE  /\ FamilySize \in {16, 28}
           /\ \A s \in sockets : /\ s \notin Tcp
                                 /\ \A p \in PeersOf(s) : /\ SizeOf(p) = FamilySize
                                                          /\ Needed(p) <= FamilySize
<1>1. sockets \subseteq Udp4 \/ sockets \subseteq Udp6
  BY DEF OneFamily, ReuseTypeOK
<1>2. PICK s0 \in sockets : TRUE
  OBVIOUS
<1>3. CASE sockets \subseteq Udp6
  <2>1. FamilySize = 28
    BY <1>3 DEF FamilySize
  <2>2. QED
    BY <1>3, <2>1, ContextReuseAssumption DEF PeersOf, SizeOf, Needed
<1>4. CASE ~(sockets \subseteq Udp6)
  <2>1. FamilySize = 16 /\ sockets \subseteq Udp4
    BY <1>1, <1>4 DEF FamilySize
  <2>2. QED
    BY <2>1, ContextReuseAssumption DEF PeersOf, SizeOf, Needed
<1>5. QED
  BY <1>3, <1>4

\* allocate_context gives a free context, and the rest of the pool is as before.
LEMMA HeadTaken ==
    ASSUME ReuseTypeOK, Pooled, context_pool # <<>>
    PROVE  /\ Head(context_pool) \in ContextIds
           /\ contexts[Head(context_pool)].st = "free"
           /\ contexts[Head(context_pool)] \in Context
           /\ Tail(context_pool) \in Seq(ContextIds)
           /\ Len(Tail(context_pool)) \in Nat
           /\ \A i \in 1..Len(Tail(context_pool)) :
                 /\ Tail(context_pool)[i] \in ContextIds \ {Head(context_pool)}
                 /\ contexts[Tail(context_pool)[i]].st = "free"
           /\ \A i, j \in 1..Len(Tail(context_pool)) :
                 Tail(context_pool)[i] = Tail(context_pool)[j] => i = j
<1>1. /\ context_pool \in Seq(ContextIds) /\ Len(context_pool) \in Nat \ {0}
      /\ Head(context_pool) = context_pool[1] /\ Head(context_pool) \in ContextIds
      /\ Tail(context_pool) \in Seq(ContextIds)
      /\ Len(Tail(context_pool)) = Len(context_pool) - 1
      /\ \A i \in 1..Len(Tail(context_pool)) : Tail(context_pool)[i] = context_pool[i + 1]
  BY HeadTailProperties, EmptySeq, LenProperties DEF ReuseTypeOK
<1>2. \A i \in 1..Len(Tail(context_pool)) :
         i + 1 \in 1..Len(context_pool) /\ 1 \in 1..Len(context_pool) /\ i + 1 # 1
  BY <1>1
<1>3. /\ contexts[Head(context_pool)] \in Context
      /\ contexts[Head(context_pool)].st = "free"
  BY <1>1 DEF ReuseTypeOK, Pooled
<1>4. \A i \in 1..Len(Tail(context_pool)) :
         /\ Tail(context_pool)[i] \in ContextIds
         /\ Tail(context_pool)[i] # Head(context_pool)
         /\ contexts[Tail(context_pool)[i]].st = "free"
  BY <1>1, <1>2, ElementOfSeq DEF Pooled, ReuseTypeOK
<1>5. \A i, j \in 1..Len(Tail(context_pool)) :
         Tail(context_pool)[i] = Tail(context_pool)[j] => i = j
  BY <1>1, <1>2 DEF Pooled
<1>6. QED
  BY <1>1, <1>3, <1>4, <1>5

\* What submit_receiving and submit_sending make of a context from the pool.
LEMMA SubmittedSound ==
    ASSUME OneFamily, ReuseTypeOK, NEW old \in Context, NEW s \in sockets \ ended,
           old.st = "free", Spoiled \/ (Kind(old) /\ Room(old)),
           NEW p \in Address, NEW a \in Address, NEW new,
           \/ new = Receiving(old, s)
           \/ /\ new = Sending(old, s, a, p) /\ p \in Partners(s)
              /\ s \notin Tcp => Spoiled \/ a = p
    PROVE  /\ new \in Context /\ new.st = "pending" /\ Used(new) /\ new.sock = s
           /\ new.type = "read" => new = Receiving(old, s)
           /\ Spoiled \/ (Kind(new) /\ Room(new))
<1>1. s \in Sockets /\ s \in sockets
  BY ContextReuseAssumption DEF ReuseTypeOK
<1>2. /\ new \in Context /\ new.st = "pending" /\ new.sock = s
      /\ new.namelen = old.namelen
      /\ new.ctype = (IF s \in Tcp THEN old.ctype ELSE "udp")
      /\ new.type \in {"read", "write"}
      /\ new.type = "write" => new.peer = p /\ p \in Partners(s) /\ (s \notin Tcp => Spoiled \/ new.addr = p)
      /\ new.type = "read" => new = Receiving(old, s)
  <2>1. /\ Submitted(old, s, "read") \in Context
        /\ Submitted(old, s, "read").st = "pending" /\ Submitted(old, s, "read").sock = s
        /\ Submitted(old, s, "read").type = "read"
        /\ Submitted(old, s, "read").ctype = old.ctype
        /\ Submitted(old, s, "read").namelen = old.namelen
    BY <1>1 DEF Submitted, Context
  <2>2. /\ Submitted(old, s, "write") \in Context
        /\ Submitted(old, s, "write").st = "pending" /\ Submitted(old, s, "write").sock = s
        /\ Submitted(old, s, "write").type = "write"
        /\ Submitted(old, s, "write").ctype = old.ctype
        /\ Submitted(old, s, "write").namelen = old.namelen
    BY <1>1 DEF Submitted, Context
  <2>3. CASE new = Receiving(old, s)
    <3> DEFINE c == Submitted(old, s, "read")
    <3>1. new = IF s \in Tcp THEN c ELSE [c EXCEPT !.ctype = "udp"]
      BY <2>3 DEF Receiving
    <3> HIDE DEF c
    <3>2. QED
      BY <2>1, <2>3, <3>1 DEF Context, c
  <2>4. CASE /\ new = Sending(old, s, a, p) /\ p \in Partners(s)
             /\ s \notin Tcp => Spoiled \/ a = p
    <3> DEFINE c == Submitted(old, s, "write")
    <3> DEFINE d == [c EXCEPT !.peer = p]
    <3>1. new = IF s \in Tcp THEN d ELSE [d EXCEPT !.ctype = "udp", !.addr = a]
      BY <2>4 DEF Sending
    <3> HIDE DEF c
    <3>2. /\ d \in Context /\ d.st = "pending" /\ d.sock = s /\ d.type = "write"
          /\ d.ctype = old.ctype /\ d.namelen = old.namelen /\ d.peer = p
      BY <1>1, <2>2 DEF Context, c
    <3> HIDE DEF d
    <3>3. QED
      BY <2>4, <3>1, <3>2 DEF Context
  <2>5. QED
    BY <2>3, <2>4
<1>3. Used(new)
  BY <1>1, <1>2 DEF Used
<1>4. ASSUME ~Spoiled PROVE Kind(new) /\ Room(new)
  <2>1. sockets \subseteq Tcp <=> s \in Tcp
    BY <1>1, FamilyOf
  <2>2. Kind(new)
    BY <1>2, <1>4, <2>1 DEF Kind
  <2>3. s \notin Tcp => ended = {}
    <3>1. SUFFICES ASSUME s \notin Tcp, NEW e \in ended PROVE FALSE
      OBVIOUS
    <3>2. e \notin Tcp /\ sockets # {e}
      BY <2>1, <3>1, FamilyOf DEF ReuseTypeOK
    <3>3. QED
      BY <1>4, <3>2 DEF Spoiled
  <2>4. Room(new)
    BY <1>2, <1>4, <2>1, <2>3 DEF Room
  <2>5. QED
    BY <2>2, <2>4
<1>5. QED
  BY <1>2, <1>3, <1>4

\* submit_sending makes a write.
LEMMA SendingWrites ==
    ASSUME NEW old \in Context, NEW s \in Sockets, NEW a \in Address, NEW p \in Address
    PROVE  Sending(old, s, a, p).type = "write"
<1> DEFINE c == Submitted(old, s, "write")
<1>1. c \in Context /\ c.type = "write"
  BY DEF Submitted, Context
<1> HIDE DEF c
<1> DEFINE d == [c EXCEPT !.peer = p]
<1>2. d \in Context /\ d.type = "write"
  BY <1>1 DEF Context
<1>3. Sending(old, s, a, p) = IF s \in Tcp THEN d ELSE [d EXCEPT !.ctype = "udp", !.addr = a]
  BY DEF Sending, c
<1> HIDE DEF d
<1>4. QED
  BY <1>2, <1>3 DEF Context

\* A request by the next context of the pool.
LEMMA TakingKeeps ==
    ASSUME OneFamily, ReuseIInv, context_pool # <<>>,
           NEW s \in sockets \ ended, NEW p \in Address, NEW new,
           \/ new = Receiving(contexts[Head(context_pool)], s) /\ ~UnderWay(s, "read")
           \/ new = Sending(contexts[Head(context_pool)], s, p, p) /\ p \in Partners(s),
           contexts' = [contexts EXCEPT ![Head(context_pool)] = new],
           context_pool' = Tail(context_pool), UNCHANGED <<sockets, ended, event>>
    PROVE  ReuseIInv'
<1> DEFINE h == Head(context_pool)
<1>1. ReuseTypeOK /\ Pooled /\ (Spoiled \/ Sound)
  BY DEF ReuseIInv
<1>2. /\ h \in ContextIds /\ contexts[h].st = "free" /\ contexts[h] \in Context
      /\ Tail(context_pool) \in Seq(ContextIds)
  BY <1>1, HeadTaken
<1>3. s \in Sockets
  BY ContextReuseAssumption, <1>1 DEF ReuseTypeOK
<1>4. Spoiled \/ (Kind(contexts[h]) /\ Room(contexts[h]))
  BY <1>1, <1>2 DEF Sound
<1>5. /\ new \in Context /\ new.st = "pending" /\ Used(new) /\ new.sock = s
      /\ Spoiled \/ (Kind(new) /\ Room(new))
  BY <1>1, <1>2, <1>4, SubmittedSound
<1>6. \A i \in ContextIds : contexts'[i] = IF i = h THEN new ELSE contexts[i]
  BY <1>1 DEF ReuseTypeOK
<1>7. ReuseTypeOK'
  BY <1>1, <1>2, <1>5 DEF ReuseTypeOK
<1>8. Pooled'
  BY <1>1, <1>6, HeadTaken DEF Pooled
<1>9. Spoiled' = Spoiled
  BY DEF Spoiled
<1>10. \A i \in ContextIds : Used(contexts[i])'
  BY <1>5, <1>6 DEF ReuseIInv, Used
<1>11. Spoiled' \/ Sound'
  BY <1>1, <1>5, <1>6, <1>9 DEF Sound, Kind, Room, FamilySize
<1>12. new.type = "read" => \A i \in ContextIds : ~(Reading(contexts[i]) /\ contexts[i].sock = s)
  <2>1. CASE new = Receiving(contexts[h], s) /\ ~UnderWay(s, "read")
    BY <2>1 DEF UnderWay, Reading
  <2>2. CASE new = Sending(contexts[h], s, p, p)
    BY <1>2, <1>3, <2>2, SendingWrites
  <2>3. QED
    BY <2>1, <2>2
<1>13. OneRead'
  <2>1. OneRead
    BY DEF ReuseIInv
  <2> HIDE DEF h
  <2>2. QED
    BY <1>5, <1>6, <1>12, <2>1 DEF OneRead, Reading
<1>14. QED
  BY <1>7, <1>8, <1>10, <1>11, <1>13 DEF ReuseIInv

\* A request that moves on with its context.
LEMMA MovingKeeps ==
    ASSUME ReuseIInv, NEW i \in ContextIds, NEW new \in Context,
           contexts[i].st # "free", new.st # "free", Used(new),
           new.type = contexts[i].type, new.sock = contexts[i].sock,
           Spoiled \/ (Kind(new) /\ Room(new)),
           contexts' = [contexts EXCEPT ![i] = new],
           UNCHANGED <<sockets, context_pool, ended, event>>
    PROVE  ReuseIInv'
<1>1. ReuseTypeOK /\ Pooled /\ (Spoiled \/ Sound)
  BY DEF ReuseIInv
<1>2. \A j \in ContextIds : contexts'[j] = IF j = i THEN new ELSE contexts[j]
  BY <1>1 DEF ReuseTypeOK
<1>3. ReuseTypeOK'
  BY <1>1 DEF ReuseTypeOK
<1>4. \A n \in 1..Len(context_pool) : context_pool[n] \in ContextIds \ {i}
  BY <1>1, ElementOfSeq DEF Pooled, ReuseTypeOK
<1>5. Pooled'
  BY <1>1, <1>2, <1>4 DEF Pooled
<1>6. Spoiled' = Spoiled
  BY DEF Spoiled
<1>7. \A j \in ContextIds : Used(contexts[j])'
  BY <1>2 DEF ReuseIInv, Used
<1>8. Spoiled' \/ Sound'
  BY <1>1, <1>2, <1>6 DEF Sound, Kind, Room, FamilySize
<1>9. OneRead'
  BY <1>2 DEF ReuseIInv, OneRead, Reading
<1>10. QED
  BY <1>3, <1>5, <1>7, <1>8, <1>9 DEF ReuseIInv

\* deallocate_context: it comes to the end of the pool.
LEMMA BackInPool ==
    ASSUME NEW q \in Seq(ContextIds), NEW i \in ContextIds,
           \A n \in 1..Len(q) : q[n] # i,
           \A m, n \in 1..Len(q) : q[m] = q[n] => m = n
    PROVE  /\ Append(q, i) \in Seq(ContextIds)
           /\ \A n \in 1..Len(Append(q, i)) :
                 Append(q, i)[n] = i \/ \E m \in 1..Len(q) : Append(q, i)[n] = q[m]
           /\ \A m, n \in 1..Len(Append(q, i)) : Append(q, i)[m] = Append(q, i)[n] => m = n
<1>1. /\ Append(q, i) \in Seq(ContextIds) /\ Len(Append(q, i)) = Len(q) + 1 /\ Len(q) \in Nat
      /\ \A n \in 1..Len(q) : Append(q, i)[n] = q[n]
      /\ Append(q, i)[Len(q) + 1] = i
  BY AppendProperties, LenProperties
<1>2. \A n \in 1..Len(Append(q, i)) : n \in 1..Len(q) \/ n = Len(q) + 1
  BY <1>1
<1>3. QED
  BY <1>1, <1>2

\* What deallocate_context leaves of a context whose request is done.
LEMMA RecycledSound ==
    ASSUME NEW c \in Context, c.st \in {"done", "refused"}, Spoiled \/ (Kind(c) /\ Room(c))
    PROVE  /\ Recycled(c) \in Context /\ Recycled(c).st = "free" /\ Used(Recycled(c))
           /\ Spoiled \/ (Kind(Recycled(c)) /\ Room(Recycled(c)))
<1>1. /\ Recycled(c) \in Context /\ Recycled(c).st = "free"
      /\ Recycled(c).ctype = c.ctype /\ Recycled(c).namelen = c.namelen
  BY DEF Recycled, Context, Address
<1>2. QED
  BY <1>1 DEF Used, Kind, Room

\* A completion that is handled shows the address of its request, and no refusal.
LEMMA EventSound ==
    ASSUME ReuseIInv, ~Spoiled, NEW i \in ContextIds, contexts[i].st \in {"done", "refused"}
    PROVE  /\ contexts[i].st = "done"
           /\ current_sockaddr(contexts[i]) = contexts[i].peer
           /\ Event(contexts[i]).given = Event(contexts[i]).real
           /\ ~Event(contexts[i]).refused
<1>1. Kind(contexts[i]) /\ Used(contexts[i])
  BY DEF ReuseIInv, Sound
<1>2. contexts[i].st = "done" /\ contexts[i].peer \in Partners(contexts[i].sock)
  BY <1>1 DEF Kind, Used
<1>3. current_sockaddr(contexts[i]) = contexts[i].peer
  BY <1>1, <1>2 DEF Kind, current_sockaddr, Partners
<1>4. QED
  BY <1>2, <1>3 DEF Event

\* The end of a write: its context goes back to the pool.
LEMMA HandlesWriteKeeps ==
    ASSUME ReuseIInv, NEW i \in ContextIds, HandlesWrite(i)
    PROVE  ReuseIInv'
<1>1. /\ ReuseTypeOK /\ Pooled /\ (Spoiled \/ Sound)
      /\ contexts[i] \in Context /\ contexts[i].st \in {"done", "refused"}
  BY DEF ReuseIInv, ReuseTypeOK, HandlesWrite
<1> DEFINE new == Recycled(contexts[i])
<1>2. /\ new \in Context /\ new.st = "free" /\ Used(new)
      /\ Spoiled \/ (Kind(new) /\ Room(new))
  BY <1>1, RecycledSound DEF Sound
<1>3. \A j \in ContextIds : contexts'[j] = IF j = i THEN new ELSE contexts[j]
  BY <1>1 DEF ReuseTypeOK, HandlesWrite
<1> HIDE DEF new
<1>4. \A n \in 1..Len(context_pool) : context_pool[n] \in ContextIds \ {i}
  BY <1>1, ElementOfSeq DEF Pooled, ReuseTypeOK
<1>5. /\ context_pool' \in Seq(ContextIds)
      /\ \A n \in 1..Len(context_pool') :
            context_pool'[n] = i \/ \E m \in 1..Len(context_pool) : context_pool'[n] = context_pool[m]
      /\ \A m, n \in 1..Len(context_pool') : context_pool'[m] = context_pool'[n] => m = n
  BY <1>1, <1>4, BackInPool DEF Pooled, ReuseTypeOK, HandlesWrite
<1>6. ReuseTypeOK'
  BY <1>1, <1>2, <1>5 DEF ReuseTypeOK, HandlesWrite, new
<1>7. Pooled'
  BY <1>1, <1>2, <1>3, <1>4, <1>5 DEF Pooled
<1>8. Spoiled' = Spoiled
  BY DEF Spoiled, HandlesWrite
<1>9. \A j \in ContextIds : Used(contexts[j])'
  BY <1>2, <1>3 DEF ReuseIInv, Used, HandlesWrite
<1>10. Spoiled' \/ Sound'
  BY <1>1, <1>2, <1>3, <1>8, EventSound DEF Sound, Kind, Room, FamilySize, HandlesWrite
<1>11. OneRead'
  BY <1>2, <1>3 DEF ReuseIInv, OneRead, Reading, HandlesWrite
<1>12. QED
  BY <1>6, <1>7, <1>9, <1>10, <1>11 DEF ReuseIInv

\* The end of a socket: its context goes back to the pool, perhaps without room for a name.
LEMMA HandlesEndKeeps ==
    ASSUME ReuseIInv, NEW i \in ContextIds, HandlesEnd(i)
    PROVE  ReuseIInv'
<1>1. /\ ReuseTypeOK /\ Pooled /\ (Spoiled \/ Sound)
      /\ contexts[i] \in Context /\ contexts[i].st = "ended"
      /\ Used(contexts[i]) /\ contexts[i].sock \in sockets
  BY DEF ReuseIInv, ReuseTypeOK, HandlesEnd, Used
<1> DEFINE new == Recycled(contexts[i])
<1>2. /\ new \in Context /\ new.st = "free" /\ Used(new)
      /\ new.ctype = contexts[i].ctype
  BY <1>1 DEF Recycled, Context, Address, Used
<1>3. \A j \in ContextIds : contexts'[j] = IF j = i THEN new ELSE contexts[j]
  BY <1>1 DEF ReuseTypeOK, HandlesEnd
<1> HIDE DEF new
<1>4. \A n \in 1..Len(context_pool) : context_pool[n] \in ContextIds \ {i}
  BY <1>1, ElementOfSeq DEF Pooled, ReuseTypeOK
<1>5. /\ context_pool' \in Seq(ContextIds)
      /\ \A n \in 1..Len(context_pool') :
            context_pool'[n] = i \/ \E m \in 1..Len(context_pool) : context_pool'[n] = context_pool[m]
      /\ \A m, n \in 1..Len(context_pool') : context_pool'[m] = context_pool'[n] => m = n
  BY <1>1, <1>4, BackInPool DEF Pooled, ReuseTypeOK, HandlesEnd
<1>6. ReuseTypeOK'
  BY <1>1, <1>2, <1>5 DEF ReuseTypeOK, HandlesEnd, new
<1>7. Pooled'
  BY <1>1, <1>2, <1>3, <1>4, <1>5 DEF Pooled
<1>8. Spoiled => Spoiled'
  BY DEF Spoiled, HandlesEnd
<1>9. \A j \in ContextIds : Used(contexts[j])'
  BY <1>2, <1>3 DEF ReuseIInv, Used, HandlesEnd
<1>10. ASSUME Sound PROVE Sound'
  <2>1. ended' # {} /\ sockets' = sockets /\ event' = event
    BY DEF HandlesEnd
  <2>2. Kind(contexts[i])
    BY <1>10 DEF Sound
  <2>3. Kind(contexts[i])' /\ Room(contexts[i])'
    BY <1>2, <1>3, <2>1, <2>2 DEF Kind, Room
  <2>4. \A j \in ContextIds : Kind(contexts[j])' /\ Room(contexts[j])'
    BY <1>3, <1>10, <2>1, <2>3 DEF Sound, Kind, Room, FamilySize
  <2>5. QED
    BY <1>10, <2>1, <2>4 DEF Sound
<1>11. OneRead'
  <2>1. OneRead /\ Reading(contexts[i]) /\ ended' = ended \cup {contexts[i].sock}
    BY <1>1 DEF ReuseIInv, HandlesEnd, Used, Reading
  <2>2. \A j \in ContextIds : Reading(contexts[j])' =>
            j # i /\ Reading(contexts[j]) /\ contexts'[j] = contexts[j]
    BY <1>2, <1>3 DEF Reading
  <2>3. QED
    BY <1>1, <2>1, <2>2 DEF OneRead
<1>12. QED
  BY <1>1, <1>6, <1>7, <1>8, <1>9, <1>10, <1>11 DEF ReuseIInv

\* A completion that submits its successor first: io_received, and io_sent with bytes left.
LEMMA SucceedingKeeps ==
    ASSUME OneFamily, ReuseIInv, context_pool # <<>>,
           NEW i \in ContextIds, contexts[i].st = "done",
           NEW s \in sockets \ ended, NEW p \in Address, NEW a \in Address, NEW new,
           \/ /\ new = Receiving(contexts[Head(context_pool)], s)
              /\ Reading(contexts[i]) /\ contexts[i].sock = s
           \/ /\ new = Sending(contexts[Head(context_pool)], s, a, p) /\ p \in Partners(s)
              /\ s \notin Tcp => Spoiled \/ a = p,
           contexts' = [contexts EXCEPT ![i] = Recycled(contexts[i]), ![Head(context_pool)] = new],
           context_pool' = Append(Tail(context_pool), i),
           event' = Event(contexts[i]), UNCHANGED <<sockets, ended>>
    PROVE  ReuseIInv'
<1> DEFINE h == Head(context_pool)
<1> DEFINE old == Recycled(contexts[i])
<1> DEFINE q == Tail(context_pool)
<1>1. ReuseTypeOK /\ Pooled /\ (Spoiled \/ Sound) /\ contexts[i] \in Context
  BY DEF ReuseIInv, ReuseTypeOK
<1>2. /\ h \in ContextIds /\ contexts[h].st = "free" /\ contexts[h] \in Context /\ h # i
      /\ q \in Seq(ContextIds)
  BY <1>1, HeadTaken
<1>3. Spoiled \/ (Kind(contexts[h]) /\ Room(contexts[h]))
  BY <1>1, <1>2 DEF Sound
<1>4. /\ new \in Context /\ new.st = "pending" /\ Used(new) /\ new.sock = s
      /\ Spoiled \/ (Kind(new) /\ Room(new))
  BY <1>1, <1>2, <1>3, SubmittedSound
<1>r. new.type = "read" => Reading(contexts[i]) /\ contexts[i].sock = s
  <2>1. s \in Sockets
    BY ContextReuseAssumption, <1>1 DEF ReuseTypeOK
  <2>2. CASE new = Sending(contexts[h], s, a, p)
    BY <1>2, <2>1, <2>2, SendingWrites
  <2>3. QED
    BY <2>2
<1>5. /\ old \in Context /\ old.st = "free" /\ Used(old)
      /\ Spoiled \/ (Kind(old) /\ Room(old))
  BY <1>1, RecycledSound DEF Sound
<1>6. contexts' = [contexts EXCEPT ![i] = old, ![h] = new]
  OBVIOUS
<1> HIDE DEF old
<1>7. \A j \in ContextIds : contexts'[j] = IF j = h THEN new ELSE IF j = i THEN old ELSE contexts[j]
  BY <1>1, <1>2, <1>6 DEF ReuseTypeOK
<1>8. \A n \in 1..Len(q) : q[n] \in ContextIds \ {h, i} /\ contexts[q[n]].st = "free"
  BY <1>1, HeadTaken
<1>9. \A m, n \in 1..Len(q) : q[m] = q[n] => m = n
  BY <1>1, HeadTaken
<1>10. /\ context_pool' \in Seq(ContextIds)
       /\ \A n \in 1..Len(context_pool') :
            context_pool'[n] = i \/ \E m \in 1..Len(q) : context_pool'[n] = q[m]
       /\ \A m, n \in 1..Len(context_pool') : context_pool'[m] = context_pool'[n] => m = n
  <2>1. \A n \in 1..Len(q) : q[n] # i
    BY <1>8
  <2> HIDE DEF q
  <2>2. context_pool' = Append(q, i)
    BY DEF q
  <2>3. q \in Seq(ContextIds)
    BY <1>2 DEF q
  <2>4. \A m, n \in 1..Len(q) : q[m] = q[n] => m = n
    BY <1>9 DEF q
  <2>5. /\ Append(q, i) \in Seq(ContextIds)
        /\ \A n \in 1..Len(Append(q, i)) :
              Append(q, i)[n] = i \/ \E m \in 1..Len(q) : Append(q, i)[n] = q[m]
        /\ \A m, n \in 1..Len(Append(q, i)) :
              Append(q, i)[m] = Append(q, i)[n] => m = n
    BY <2>1, <2>3, <2>4, BackInPool
  <2>6. QED
    BY <2>2, <2>5
<1> HIDE DEF q
<1>11. ReuseTypeOK'
  BY <1>1, <1>2, <1>4, <1>5, <1>6, <1>10 DEF ReuseTypeOK
<1> HIDE DEF h
<1>12. Pooled'
  <2>1. contexts'[i].st = "free"
    BY <1>2, <1>5, <1>7
  <2>2. \A m \in 1..Len(q) : contexts'[q[m]].st = "free"
    BY <1>7, <1>8
  <2>3. \A n \in 1..Len(context_pool') : contexts'[context_pool'[n]].st = "free"
    <3>1. TAKE n \in 1..Len(context_pool')
    <3>2. CASE context_pool'[n] = i
      BY <2>1, <3>2
    <3>3. CASE \E m \in 1..Len(q) : context_pool'[n] = q[m]
      BY <2>2, <3>3
    <3>4. QED
      BY <1>10, <3>2, <3>3
  <2>4. QED
    BY <1>10, <2>3 DEF Pooled
<1>13. Spoiled' = Spoiled
  BY DEF Spoiled
<1>14. \A j \in ContextIds : Used(contexts[j])'
  <2>1. \A j \in ContextIds : Used(contexts'[j])
    BY <1>4, <1>5, <1>7 DEF ReuseIInv
  <2>2. QED
    BY <2>1 DEF Used
<1>15. Spoiled' \/ Sound'
  <2>1. SUFFICES ASSUME ~Spoiled PROVE Sound'
    BY <1>13
  <2>2. \A c : Kind(c) /\ Room(c) => Kind(c)' /\ Room(c)'
    BY DEF Kind, Room, FamilySize
  <2>3. \A j \in ContextIds : Kind(contexts'[j]) /\ Room(contexts'[j])
    BY <1>1, <1>4, <1>5, <1>7, <2>1 DEF Sound
  <2>4. \A j \in ContextIds : Kind(contexts[j])' /\ Room(contexts[j])'
    BY <2>3 DEF Kind, Room, FamilySize
  <2>5. QED
    BY <2>1, <2>4, EventSound DEF Sound
<1>16. OneRead'
  <2>1. OneRead
    BY DEF ReuseIInv
  <2>2. \A j \in ContextIds \ {h} : Reading(contexts'[j]) => j # i /\ contexts'[j] = contexts[j]
    BY <1>5, <1>7 DEF Reading
  <2>3. Reading(contexts'[h]) => new.type = "read" /\ contexts'[h] = new
    BY <1>2, <1>7 DEF Reading
  <2>4. ASSUME NEW j \in ContextIds, Reading(contexts'[j])
        PROVE  contexts'[j].sock \notin ended
    BY <1>4, <1>r, <2>1, <2>2, <2>3, <2>4 DEF OneRead
  <2>5. ASSUME NEW j \in ContextIds, NEW k \in ContextIds, j # k,
               Reading(contexts'[j]), Reading(contexts'[k]), contexts'[j].sock = contexts'[k].sock
        PROVE  FALSE
    <3>1. CASE j # h /\ k # h
      BY <2>1, <2>2, <2>5, <3>1 DEF OneRead
    <3>2. CASE j = h
      BY <1>4, <1>r, <2>1, <2>2, <2>3, <2>5, <3>2 DEF OneRead
    <3>3. CASE k = h
      BY <1>4, <1>r, <2>1, <2>2, <2>3, <2>5, <3>3 DEF OneRead
    <3>4. QED
      BY <3>1, <3>2, <3>3
  <2>6. QED
    BY <2>4, <2>5 DEF OneRead, Reading
<1>17. QED
  BY <1>11, <1>12, <1>14, <1>15, <1>16 DEF ReuseIInv

\* recvmsg leaves the address and a name length of the family, if it found room.
LEMMA KernelReceivesKeeps ==
    ASSUME OneFamily, ReuseIInv, NEW i \in ContextIds, KernelReceives(i)
    PROVE  ReuseIInv'
<1> DEFINE c == contexts[i]
<1>1. /\ ReuseTypeOK /\ (Spoiled \/ Sound) /\ c \in Context /\ Used(c)
      /\ c.st = "pending" /\ c.type = "read" /\ c.sock \in sockets
  BY DEF ReuseIInv, ReuseTypeOK, KernelReceives, Used
<1>2. PICK p \in Partners(c.sock) :
         contexts' = [contexts EXCEPT ![i] = Received(c, p)]
  BY DEF KernelReceives, Partners
<1> HIDE DEF c
<1>3. p \in Address /\ Mangled \in Address /\ c.sock \in Sockets
  BY ContextReuseAssumption, <1>1 DEF ReuseTypeOK, Partners, PeersOf, Address
<1> DEFINE new == Received(c, p)
<1>4. /\ new \in Context /\ new.st = "done" /\ new.type = c.type /\ new.sock = c.sock
      /\ new.ctype = c.ctype /\ new.peer = p
  <2>1. SizeOf(p) \in Nat
    BY DEF SizeOf
  <2>2. CASE c.ctype = "tcp"
    BY <1>1, <1>3, <2>2 DEF Received, Context
  <2>3. CASE c.ctype # "tcp" /\ c.sock \in Tcp
    BY <1>1, <1>3, <2>3 DEF Received, Context
  <2>4. CASE c.ctype # "tcp" /\ c.sock \notin Tcp
    <3> DEFINE a == IF c.namelen = 0 THEN c.addr
                    ELSE IF c.namelen < SizeOf(p) THEN Mangled ELSE p
    <3>1. a \in Address
      BY <1>1, <1>3 DEF Context
    <3>2. new = [c EXCEPT !.st = "done", !.peer = p, !.namelen = SizeOf(p), !.addr = a]
      BY <2>4 DEF Received
    <3> HIDE DEF a, new
    <3>3. QED
      BY <1>1, <1>3, <2>1, <3>1, <3>2 DEF Context
  <2>5. QED
    BY <2>2, <2>3, <2>4
<1>5. Used(new)
  <2> HIDE DEF new
  <2>1. QED
    BY <1>1, <1>4 DEF Used
<1>6. ASSUME ~Spoiled PROVE Kind(new) /\ Room(new)
  <2>1. Kind(c) /\ Room(c)
    BY <1>1, <1>6 DEF Sound, c
  <2>2. CASE c.sock \in Tcp
    <3>1. sockets \subseteq Tcp
      BY <1>1, <2>2, FamilyOf
    <3> HIDE DEF new
    <3>2. QED
      BY <1>4, <2>1, <2>2, <3>1 DEF Kind, Room
  <2>3. CASE c.sock \notin Tcp
    <3>1. ~(sockets \subseteq Tcp) /\ c.ctype # "tcp" /\ p \in PeersOf(c.sock)
      BY <1>1, <2>1, <2>3 DEF Kind, Partners
    <3>2. SizeOf(p) = FamilySize /\ FamilySize \in {16, 28}
      BY <1>1, <3>1, FamilyOf
    <3>3. c.namelen \in Nat /\ c.namelen >= FamilySize
      BY <1>1, <2>1, <3>1 DEF Room, Context
    <3>4. new = [c EXCEPT !.st = "done", !.peer = p, !.namelen = SizeOf(p), !.addr = p]
      <4>1. c.namelen # 0 /\ ~(c.namelen < SizeOf(p))
        BY <3>2, <3>3
      <4>2. QED
        BY <2>3, <3>1, <4>1 DEF Received
    <3> HIDE DEF new
    <3>5. new.addr = p /\ new.namelen = FamilySize
      BY <1>1, <3>2, <3>4 DEF Context
    <3>6. QED
      BY <1>4, <2>1, <2>3, <3>1, <3>2, <3>5 DEF Kind, Room
  <2>4. QED
    BY <2>2, <2>3
<1>7. UNCHANGED <<sockets, context_pool, ended, event>> /\ contexts[i].st # "free"
  BY <1>1 DEF KernelReceives, c
<1> HIDE DEF new
<1>8. new.st # "free" /\ contexts' = [contexts EXCEPT ![i] = new]
  BY <1>2, <1>4 DEF new
<1>9. new.type = contexts[i].type /\ new.sock = contexts[i].sock
  BY <1>4 DEF c
<1>10. QED
  BY <1>4, <1>5, <1>6, <1>7, <1>8, <1>9, MovingKeeps

\* A read that ends may cost its context the room for a name, but the context is not
\* in the pool yet.
LEMMA KernelEndsKeeps ==
    ASSUME ReuseIInv, NEW i \in ContextIds, KernelEnds(i)
    PROVE  ReuseIInv'
<1> DEFINE c == contexts[i]
<1>1. /\ ReuseTypeOK /\ (Spoiled \/ Sound) /\ c \in Context /\ Used(c)
      /\ c.st = "pending" /\ c.type = "read"
  BY DEF ReuseIInv, ReuseTypeOK, KernelEnds
<1>2. PICK n \in Nat : contexts' = [contexts EXCEPT ![i].st = "ended", ![i].namelen = n]
  <2>1. c.namelen \in Nat
    BY <1>1 DEF Context
  <2>2. PICK n \in {c.namelen, IF c.ctype = "tcp" THEN c.namelen ELSE 0} :
           contexts' = [contexts EXCEPT ![i].st = "ended", ![i].namelen = n]
    BY DEF KernelEnds
  <2>3. n \in Nat
    BY <2>1
  <2>4. QED
    BY <2>2, <2>3
<1> DEFINE new == [c EXCEPT !.st = "ended", !.namelen = n]
<1>3. contexts' = [contexts EXCEPT ![i] = new]
  BY <1>1, <1>2 DEF ReuseTypeOK
<1> HIDE DEF c
<1>4. /\ new \in Context /\ new.st = "ended" /\ new.type = c.type /\ new.sock = c.sock
      /\ new.ctype = c.ctype
  BY <1>1 DEF Context
<1> HIDE DEF new
<1>5. Used(new)
  BY <1>1, <1>4 DEF Used
<1>6. Spoiled \/ (Kind(new) /\ Room(new))
  BY <1>1, <1>4 DEF Sound, Kind, Room, c
<1>7. UNCHANGED <<sockets, context_pool, ended, event>> /\ contexts[i].st # "free"
  BY <1>1 DEF KernelEnds, c
<1>8. new.type = contexts[i].type /\ new.sock = contexts[i].sock /\ new.st # "free"
  BY <1>4 DEF c
<1>9. QED
  BY <1>3, <1>4, <1>5, <1>6, <1>7, <1>8, MovingKeeps

\* sendmsg of a UDP socket finds the name long enough.
LEMMA KernelSendsKeeps ==
    ASSUME OneFamily, ReuseIInv, NEW i \in ContextIds, KernelSends(i)
    PROVE  ReuseIInv'
<1> DEFINE c == contexts[i]
<1>1. /\ ReuseTypeOK /\ (Spoiled \/ Sound) /\ c \in Context /\ Used(c)
      /\ c.st = "pending" /\ c.type = "write"
      /\ c.sock \in sockets /\ c.peer \in Partners(c.sock)
  BY DEF ReuseIInv, ReuseTypeOK, KernelSends, Used
<1> DEFINE st == IF Refused(c) THEN "refused" ELSE "done"
<1> DEFINE new == [c EXCEPT !.st = st]
<1>2. contexts' = [contexts EXCEPT ![i] = new]
  BY <1>1 DEF KernelSends, ReuseTypeOK
<1> HIDE DEF c
<1>3. st \in {"refused", "done"}
  OBVIOUS
<1>4. ASSUME ~Spoiled PROVE st = "done"
  <2>1. SUFFICES ASSUME Refused(c) PROVE FALSE
    OBVIOUS
  <2>2. Kind(c) /\ Room(c)
    BY <1>1, <1>4 DEF Sound, c
  <2>3. c.sock \notin Tcp /\ c.namelen < Needed(c.addr)
    BY <2>1 DEF Refused
  <2>4. ~(sockets \subseteq Tcp) /\ c.addr \in PeersOf(c.sock)
    BY <1>1, <2>2, <2>3 DEF Kind, Partners
  <2>5. Needed(c.addr) <= FamilySize /\ FamilySize \in {16, 28} /\ Needed(c.addr) \in {16, 24}
    BY <1>1, <2>4, FamilyOf DEF Needed
  <2>6. c.namelen >= FamilySize /\ c.namelen \in Nat
    BY <1>1, <2>2, <2>4 DEF Room, Context
  <2>7. QED
    BY <2>3, <2>5, <2>6
<1> HIDE DEF st
<1>5. /\ new \in Context /\ new.st = st /\ new.type = c.type /\ new.sock = c.sock
      /\ new.ctype = c.ctype /\ new.peer = c.peer /\ new.addr = c.addr
      /\ new.namelen = c.namelen
  BY <1>1, <1>3 DEF Context
<1> HIDE DEF new
<1>6. Used(new)
  BY <1>1, <1>3, <1>5 DEF Used
<1>7. Spoiled \/ (Kind(new) /\ Room(new))
  BY <1>1, <1>4, <1>5 DEF Sound, Kind, Room, c
<1>8. UNCHANGED <<sockets, context_pool, ended, event>> /\ contexts[i].st # "free"
  BY <1>1 DEF KernelSends, c
<1>9. /\ new.st # "free" /\ new.type = contexts[i].type /\ new.sock = contexts[i].sock
  BY <1>3, <1>5 DEF c
<1>10. QED
  BY <1>2, <1>5, <1>6, <1>7, <1>8, <1>9, MovingKeeps

\* The handlers that submit the next read or write.
LEMMA HandlesReadKeeps ==
    ASSUME OneFamily, ReuseIInv, NEW i \in ContextIds, HandlesRead(i)
    PROVE  ReuseIInv'
<1>1. /\ ReuseTypeOK /\ Pooled /\ Used(contexts[i]) /\ contexts[i] \in Context
      /\ contexts[i].st = "done" /\ contexts[i].type = "read" /\ context_pool # <<>>
      /\ Reading(contexts[i]) /\ contexts[i].sock \notin ended
  BY DEF ReuseIInv, ReuseTypeOK, HandlesRead, OneRead, Reading
<1> DEFINE s == contexts[i].sock
<1> DEFINE p == contexts[i].peer
<1> DEFINE h == Head(context_pool)
<1> DEFINE new == Receiving(contexts[h], s)
<1>2. s \in sockets \ ended /\ p \in Address /\ contexts[i].sock = s
  BY <1>1 DEF Used, Context
<1>3. h \in ContextIds /\ h # i
  BY <1>1, HeadTaken
<1>4. contexts' = [contexts EXCEPT ![i] = Recycled(contexts[i]), ![h] = new]
  BY <1>1, <1>3 DEF HandlesRead, ReuseTypeOK
<1>5. /\ context_pool' = Append(Tail(context_pool), i)
      /\ event' = Event(contexts[i]) /\ UNCHANGED <<sockets, ended>>
  BY DEF HandlesRead
<1> HIDE DEF s, p
<1>6. QED
  BY <1>1, <1>2, <1>4, <1>5, SucceedingKeeps

LEMMA ContinuesKeeps ==
    ASSUME OneFamily, ReuseIInv, NEW i \in ContextIds, Continues(i)
    PROVE  ReuseIInv'
<1> DEFINE s == contexts[i].sock
<1> DEFINE p == contexts[i].peer
<1> DEFINE a == current_sockaddr(contexts[i])
<1> DEFINE h == Head(context_pool)
<1> DEFINE new == Sending(contexts[h], s, a, p)
<1>1. /\ ReuseTypeOK /\ Pooled /\ Used(contexts[i]) /\ contexts[i] \in Context
      /\ contexts[i].st = "done" /\ contexts[i].type = "write" /\ context_pool # <<>>
      /\ s \notin ended
  BY DEF ReuseIInv, ReuseTypeOK, Continues
<1>2. s \in sockets \ ended /\ p \in Partners(s) /\ p \in Address
  BY <1>1 DEF Used, Context
<1>3. a \in Address
  BY <1>1 DEF current_sockaddr, Context, Address
<1>4. Spoiled \/ a = p
  BY <1>1, EventSound
<1>5. h \in ContextIds /\ h # i
  BY <1>1, HeadTaken
<1>6. contexts' = [contexts EXCEPT ![i] = Recycled(contexts[i]), ![h] = new]
  BY <1>1, <1>5 DEF Continues, ReuseTypeOK
<1>7. /\ context_pool' = Append(Tail(context_pool), i)
      /\ event' = Event(contexts[i]) /\ UNCHANGED <<sockets, ended>>
  BY DEF Continues
<1> HIDE DEF s, p, a
<1>8. QED
  BY <1>1, <1>2, <1>3, <1>4, <1>6, <1>7, SucceedingKeeps

\* The first request of a kind that a socket makes.
LEMMA RequestsKeep ==
    ASSUME OneFamily, ReuseIInv, NEW s \in sockets \ ended, Starts(s) \/ Sends(s)
    PROVE  ReuseIInv'
<1> DEFINE h == Head(context_pool)
<1>1. ReuseTypeOK /\ Pooled /\ context_pool # <<>>
  BY DEF ReuseIInv, Starts, Sends
<1>2. h \in ContextIds
  BY <1>1, HeadTaken
<1>3. context_pool' = Tail(context_pool) /\ UNCHANGED <<sockets, ended, event>>
  BY DEF Starts, Sends
<1>4. CASE Starts(s)
  <2>1. contexts' = [contexts EXCEPT ![h] = Receiving(contexts[h], s)] /\ ~UnderWay(s, "read")
    BY <1>1, <1>2, <1>4 DEF Starts, ReuseTypeOK
  <2>2. QED
    BY <1>1, <1>3, <2>1, TakingKeeps DEF Address
<1>5. CASE Sends(s)
  <2>1. PICK p \in Partners(s) :
           contexts' = [contexts EXCEPT ![h] = Sending(contexts[h], s, p, p)]
    BY <1>1, <1>2, <1>5 DEF Sends, ReuseTypeOK, Partners
  <2>2. p \in Address
    BY ContextReuseAssumption, <1>1 DEF ReuseTypeOK, Partners, PeersOf, Address
  <2>3. QED
    BY <1>1, <1>3, <2>1, <2>2, TakingKeeps
<1>6. QED
  BY <1>4, <1>5

\* io_service's constructor fills the pool with contexts that were never used.
LEMMA ReuseInitEstablishes == ReuseInit => ReuseIInv
<1> SUFFICES ASSUME ReuseInit PROVE ReuseIInv
  OBVIOUS
<1>1. /\ sockets \in Programs /\ ended = {} /\ event = NoEvent
      /\ contexts = [c \in ContextIds |-> NewContext]
      /\ context_pool = [i \in ContextIds |-> i]
  BY DEF ReuseInit
<1>2. context_pool \in Seq(ContextIds) /\ Len(context_pool) = ContextPoolSize
  BY <1>1, ContextReuseAssumption DEF ContextIds
<1>3. NewContext \in Context /\ NewContext.st = "free" /\ NewContext.ctype = "tcp"
      /\ NewContext.namelen = 128
  BY DEF NewContext, Context, Address, Storage
<1>4. FamilySize \in {16, 28}
  BY DEF FamilySize
<1>5. ReuseTypeOK /\ Pooled
  BY <1>1, <1>2, <1>3 DEF ReuseTypeOK, Pooled, ContextIds
<1>6. Used(NewContext) /\ Kind(NewContext) /\ Room(NewContext) /\ ~Reading(NewContext)
  BY <1>3, <1>4 DEF Used, Kind, Room, Reading
<1>7. Sound
  BY <1>1, <1>6 DEF Sound, NoEvent
<1>8. OneRead
  BY <1>1, <1>6 DEF OneRead
<1>9. QED
  BY <1>1, <1>5, <1>6, <1>7, <1>8 DEF ReuseIInv

\* Every step of sockets, kernel and handlers keeps the invariant.
LEMMA ReuseNextPreserves == OneFamily /\ ReuseIInv /\ [ReuseNext]_reusevars => ReuseIInv'
<1> SUFFICES ASSUME OneFamily, ReuseIInv, [ReuseNext]_reusevars PROVE ReuseIInv'
  OBVIOUS
<1>1. CASE UNCHANGED reusevars
  BY <1>1 DEF reusevars, ReuseIInv, ReuseTypeOK, Pooled, OneRead, Reading, Used, Sound, Kind,
              Room, FamilySize, Spoiled
<1>2. ASSUME NEW s \in sockets \ ended, Starts(s) \/ Sends(s) PROVE ReuseIInv'
  BY <1>2, RequestsKeep
<1>3. ASSUME NEW i \in ContextIds, KernelReceives(i) PROVE ReuseIInv'
  BY <1>3, KernelReceivesKeeps
<1>4. ASSUME NEW i \in ContextIds, KernelEnds(i) PROVE ReuseIInv'
  BY <1>4, KernelEndsKeeps
<1>5. ASSUME NEW i \in ContextIds, KernelSends(i) PROVE ReuseIInv'
  BY <1>5, KernelSendsKeeps
<1>6. ASSUME NEW i \in ContextIds, HandlesRead(i) PROVE ReuseIInv'
  BY <1>6, HandlesReadKeeps
<1>7. ASSUME NEW i \in ContextIds, HandlesEnd(i) PROVE ReuseIInv'
  BY <1>7, HandlesEndKeeps
<1>8. ASSUME NEW i \in ContextIds, HandlesWrite(i) PROVE ReuseIInv'
  BY <1>8, HandlesWriteKeeps
<1>9. ASSUME NEW i \in ContextIds, Continues(i) PROVE ReuseIInv'
  BY <1>9, ContinuesKeeps
<1>10. QED
  BY <1>1, <1>2, <1>3, <1>4, <1>5, <1>6, <1>7, <1>8, <1>9 DEF ReuseNext

\* The invariant behind the two theorems below, in a program that keeps to one kind of
\* address: what a context held before is overwritten, or is what the next request needs.
THEOREM ReuseInvariance == ASSUME OneFamily PROVE ReuseSpec => []ReuseIInv
<1>1. OneFamily /\ ReuseIInv /\ [ReuseNext]_reusevars => ReuseIInv'
  BY ReuseNextPreserves
<1>2. QED
  BY <1>1, ReuseInitEstablishes, PTL DEF ReuseSpec

\* recv_event gets the address of its datagram, io_sent goes on to that of its write
\* (io_service.cpp:301-311), and no datagram is refused because msg_namelen, which
\* deallocate_context leaves alone (io_service.cpp:293-299), is too small, however often the
\* context was used before, until a UDP socket of several has ended.
THEOREM ContextsServeAgain == ASSUME OneFamily PROVE ReuseSpec => []NothingStale
<1>1. ReuseIInv => NothingStale
  BY DEF ReuseIInv, Sound, NothingStale, AddressTrue, NamesFit
<1>2. QED
  BY <1>1, ReuseInvariance, PTL
=============================================================================
