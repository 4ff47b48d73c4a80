---------------------------- MODULE MCTcpSocket -----------------------------
(***************************************************************************)
(* TcpSocket.tla for TLC: the threads of one role are interchangeable.     *)
(* The cases of a run divide what is too much for one instance.            *)
(***************************************************************************)
EXTENDS TcpSocket, TLC

Symmetry == Permutations(Workers) \cup Permutations(Users)

Of(sends, closes, data, refusable) ==
    [sends |-> sends, closes |-> closes, data |-> data, refusable |-> refusable]

\* Two sends and a close; a packet, a send and a close; a packet and two closes.
SafetyCases == {Of(2, 1, 0, {"read", "write"}), Of(1, 1, 1, {"read", "write"}), Of(0, 2, 1, {})}

\* What closes a connection by itself: a send and two closes, without a packet.
ClosingCases == {Of(1, 2, 0, {"read", "write", "shutdown"})}

\* A packet, and one close.
PacketCases == {Of(0, 1, 1, {})}
=============================================================================
