---------------------------- MODULE ContextPool -----------------------------
(***************************************************************************)
(* rioring::simple_pool< io_context >, the pool that the workers and the   *)
(* user threads take their io_contexts from and give them back to          *)
(* (simple_pool.h), behind a spin_lock (thread_lock.cpp).  Every request   *)
(* is identified by the address of its context, so two requests must never *)
(* share one.                                                              *)
(***************************************************************************)
EXTENDS Integers, Sequences

CONSTANTS
    Threads,      \* whoever calls allocate_context and deallocate_context
    PoolSize,     \* RIORING_CONTEXT_POOL_SIZE
    MaxContexts   \* bound: contexts ever made

ASSUME ContextPoolAssumption ==
    /\ PoolSize \in Nat
    /\ MaxContexts \in Nat
    /\ PoolSize <= MaxContexts

VARIABLES
    af,     \* the flag of the spin lock
    pool,   \* the list
    made,   \* how many contexts were made by new so far: 1 .. made
    pc,     \* where each thread is
    ctx,    \* its local ctx
    held    \* the contexts it has been given and not given back

vars == <<af, pool, made, pc, ctx, held>>

Contexts == 1..MaxContexts
NoContext == 0

Init ==
    /\ af = FALSE
    /\ pool = [i \in 1..PoolSize |-> i]
    /\ made = PoolSize
    /\ pc = [t \in Threads |-> "idle"]
    /\ ctx = [t \in Threads |-> NoContext]
    /\ held = [t \in Threads |-> {}]

Goto(t, label) == pc' = [pc EXCEPT ![t] = label]

-----------------------------------------------------------------------------

CallsPop(t) ==
    /\ pc[t] = "idle"
    /\ Goto(t, "lockPop")
    /\ UNCHANGED <<af, pool, made, ctx, held>>

CallsPush(t) ==
    /\ pc[t] = "idle"
    /\ \E c \in held[t] : ctx' = [ctx EXCEPT ![t] = c]
    /\ Goto(t, "lockPush")
    /\ UNCHANGED <<af, pool, made, held>>

\* test_and_set that found the flag clear; one that found it set changes nothing.
Locks(t) ==
    /\ ~af /\ af' = TRUE
    /\ \/ pc[t] = "lockPop" /\ Goto(t, "pop")
       \/ pc[t] = "lockPush" /\ Goto(t, "push")
    /\ UNCHANGED <<pool, made, ctx, held>>

\* pool.empty(): a new context, which will come to the pool when it is given back.
PopMakes(t) ==
    /\ pc[t] = "pop" /\ pool = <<>>
    /\ made < MaxContexts
    /\ made' = made + 1
    /\ ctx' = [ctx EXCEPT ![t] = made + 1]
    /\ held' = [held EXCEPT ![t] = @ \cup {made + 1}]
    /\ Goto(t, "unlock")
    /\ UNCHANGED <<af, pool>>

\* Mutant: the lock is released before pop_front().
PopReadsFront_Releases(t) ==
    /\ pc[t] = "pop" /\ pool # <<>>
    /\ ctx' = [ctx EXCEPT ![t] = Head(pool)]
    /\ af' = FALSE
    /\ Goto(t, "popFront")
    /\ UNCHANGED <<pool, made, held>>

PopReadsFront(t) ==
    /\ pc[t] = "pop" /\ pool # <<>>
    /\ ctx' = [ctx EXCEPT ![t] = Head(pool)]
    /\ Goto(t, "popFront")
    /\ UNCHANGED <<af, pool, made, held>>

PopDropsFront(t) ==
    /\ pc[t] = "popFront"
    /\ pool' = Tail(pool)
    /\ held' = [held EXCEPT ![t] = @ \cup {ctx[t]}]
    /\ Goto(t, "unlock")
    /\ UNCHANGED <<af, made, ctx>>

\* Mutant: a pool that is full takes no more.
PushAppends_Full(t) ==
    /\ pc[t] = "push"
    /\ pool' = IF Len(pool) < PoolSize THEN Append(pool, ctx[t]) ELSE pool
    /\ held' = [held EXCEPT ![t] = @ \ {ctx[t]}]
    /\ Goto(t, "unlock")
    /\ UNCHANGED <<af, made, ctx>>

PushAppends(t) ==
    /\ pc[t] = "push"
    /\ pool' = Append(pool, ctx[t])
    /\ held' = [held EXCEPT ![t] = @ \ {ctx[t]}]
    /\ Goto(t, "unlock")
    /\ UNCHANGED <<af, made, ctx>>

Unlocks(t) ==
    /\ pc[t] = "unlock"
    /\ af' = FALSE
    /\ ctx' = [ctx EXCEPT ![t] = NoContext]
    /\ Goto(t, "idle")
    /\ UNCHANGED <<pool, made, held>>

\* A context that one thread was given travels with the request to the worker that
\* handles its completion.
HandsOver(s, t) ==
    /\ pc[s] = "idle" /\ s # t
    /\ \E c \in held[s] : held' = [held EXCEPT ![s] = @ \ {c}, ![t] = @ \cup {c}]
    /\ UNCHANGED <<af, pool, made, pc, ctx>>

Pool(t) == \/ CallsPop(t) \/ CallsPush(t) \/ Locks(t) \/ PopMakes(t)
           \/ PopReadsFront(t) \/ PopDropsFront(t) \/ PushAppends(t) \/ Unlocks(t)

Next == \E t \in Threads : Pool(t) \/ \E s \in Threads : HandsOver(s, t)

Spec == Init /\ [][Next]_vars

-----------------------------------------------------------------------------

\* The threads between lock() and unlock().
Inside(t) == pc[t] \in {"pop", "popFront", "push", "unlock"}

InPool(c) == \E i \in 1..Len(pool) : pool[i] = c

\* Types.
TypeOK ==
    /\ af \in BOOLEAN
    /\ made \in PoolSize..MaxContexts
    /\ pool \in Seq(1..made)
    /\ pc \in [Threads -> {"idle", "lockPop", "lockPush", "pop", "popFront", "push", "unlock"}]
    /\ ctx \in [Threads -> 0..made]
    /\ held \in [Threads -> SUBSET (1..made)]

\* The spin lock excludes: one thread at a time is in the list.
Exclusive ==
    /\ \A t \in Threads : Inside(t) => af
    /\ \A s, t \in Threads : Inside(s) /\ Inside(t) => s = t

\* A context is with one thread, or once in the pool, and not both: two requests
\* never go to the kernel under the same user_data.
NoSharing ==
    /\ \A s, t \in Threads : s # t => held[s] \cap held[t] = {}
    /\ \A t \in Threads : \A c \in held[t] : ~InPool(c)
    /\ \A i, j \in 1..Len(pool) : pool[i] = pool[j] => i = j

\* The pool loses nothing: what was made is with a thread or in the pool.
NoneLost == \A c \in 1..made : InPool(c) \/ \E t \in Threads : c \in held[t]

\* What a thread inside the list has read is still so.
Locals ==
    /\ \A t \in Threads : pc[t] = "popFront" => pool # <<>> /\ ctx[t] = pool[1]
    /\ \A t \in Threads : pc[t] \in {"lockPush", "push"} => ctx[t] \in held[t]

IInv == TypeOK /\ Exclusive /\ Locals /\ NoSharing /\ NoneLost
=============================================================================
