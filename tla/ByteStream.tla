----------------------------- MODULE ByteStream -----------------------------
(***************************************************************************)
(* What the send side of a socket promises, whatever buffers, writes and   *)
(* completions it is made of: the bytes that send() accepted reach the     *)
(* wire once each and in the order of acceptance, until the connection     *)
(* breaks; and all of them get there if it does not.                       *)
(*                                                                         *)
(* A byte is named by its position, so `accepted' is how many there are.   *)
(***************************************************************************)
EXTENDS Integers, Sequences

CONSTANT MaxBytes   \* bound: the number of bytes ever accepted

VARIABLES accepted,  \* the number of bytes send() has accepted
          wire,      \* the bytes that left for the peer, in order
          broken     \* a write failed, nothing more will leave

svars == <<accepted, wire, broken>>

StreamInit == accepted = 0 /\ wire = <<>> /\ broken = FALSE

Accept == /\ accepted' \in accepted + 1 .. MaxBytes
          /\ UNCHANGED <<wire, broken>>

Transmit == /\ ~broken
            /\ \E k \in 1 .. accepted - Len(wire) :
                  wire' = wire \o [i \in 1..k |-> Len(wire) + i]
            /\ UNCHANGED <<accepted, broken>>

Break == /\ Len(wire) < accepted
         /\ broken' = TRUE
         /\ UNCHANGED <<accepted, wire>>

StreamNext == Accept \/ Transmit \/ Break

SafeStream == StreamInit /\ [][StreamNext]_svars

Stream == SafeStream /\ WF_svars(Transmit)
=============================================================================
