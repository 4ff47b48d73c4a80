---------------------------- MODULE ContextReuse ----------------------------
(***************************************************************************)
(* What an io_context still holds from its last use.  deallocate_context   *)
(* clears handler and iov, and nothing else: ctype, addr and               *)
(* msg.msg_namelen stay, and only UDP requests set ctype again.  submit()  *)
(* and current_sockaddr() decide by ctype, the kernel by msg_namelen.      *)
(*                                                                         *)
(* All sockets of an io_service share its pool, which is a queue.          *)
(***************************************************************************)
EXTENDS Integers, Sequences, FiniteSets

CONSTANTS
    Tcp,              \* the tcp_sockets; each also stands for the address of its peer
    Udp4, Udp6,       \* the udp_sockets of either family
    Peers4,           \* the addresses that talk to the sockets of Udp4
    Peers6,           \* and to those of Udp6
    Programs,         \* sets of sockets, each those of one program
    NoAddress, Mangled,
    ContextPoolSize  \* RIORING_CONTEXT_POOL_SIZE

Sockets == Tcp \cup Udp4 \cup Udp6

ASSUME ContextReuseAssumption ==
    /\ ContextPoolSize \in Nat
    /\ Tcp \cap (Udp4 \cup Udp6) = {} /\ Udp4 \cap Udp6 = {}
    /\ Peers4 \cap Peers6 = {}
    /\ Programs \subseteq SUBSET Sockets

VARIABLES
    sockets,       \* those of the program at hand
    context_pool,  \* the free contexts
    contexts,      \* all contexts
    ended,         \* the sockets whose io_shutdown was called
    event          \* history: the last request that was handled, see Event

reusevars == <<sockets, context_pool, contexts, ended, event>>

ContextIds == 1..ContextPoolSize

\* sizeof( sockaddr_storage )
Storage == 128

\* sizeof( sockaddr_in ), sizeof( sockaddr_in6 )
SizeOf(a) == IF a \in Peers6 THEN 28 ELSE 16

\* What sendmsg of an address family asks of msg_namelen.
Needed(a) == IF a \in Peers6 THEN 24 ELSE 16

PeersOf(s) == IF s \in Udp6 THEN Peers6 ELSE Peers4

\* A context after its constructor; peer is whom the request is about.
NewContext == [st |-> "free", type |-> "unknown", ctype |-> "tcp", sock |-> NoAddress,
               addr |-> NoAddress, namelen |-> Storage, peer |-> NoAddress]

NoEvent == [given |-> NoAddress, real |-> NoAddress, refused |-> FALSE]

ReuseInit ==
    /\ sockets \in Programs
    /\ context_pool = [i \in ContextIds |-> i]
    /\ contexts = [c \in ContextIds |-> NewContext]
    /\ ended = {}
    /\ event = NoEvent

UnderWay(s, type) == \E c \in ContextIds : /\ contexts[c].st # "free"
                                         /\ contexts[c].sock = s
                                         /\ contexts[c].type = type

-----------------------------------------------------------------------------
(* The submitting functions.  A pool with nothing in it makes a context,   *)
(* which is as good as one that was never used: the size is a bound.       *)

Submitted(old, s, type) == [old EXCEPT !.st = "pending", !.sock = s, !.type = type]

\* submit_receiving
Receiving(old, s) ==
    LET c == Submitted(old, s, "read")
    IN  IF s \in Tcp THEN c ELSE [c EXCEPT !.ctype = "udp"]

\* tcp_socket::submit_sending, udp_socket::submit_sending( a ), of bytes for p
Sending(old, s, a, p) ==
    LET c == [Submitted(old, s, "write") EXCEPT !.peer = p]
    IN  IF s \in Tcp THEN c ELSE [c EXCEPT !.ctype = "udp", !.addr = a]

Starts(s) ==
    /\ context_pool # <<>> /\ ~UnderWay(s, "read")
    /\ contexts' = [contexts EXCEPT ![Head(context_pool)] = Receiving(@, s)]
    /\ context_pool' = Tail(context_pool)
    /\ UNCHANGED <<sockets, ended, event>>

Sends(s) ==
    /\ context_pool # <<>> /\ ~UnderWay(s, "write")
    /\ \E p \in (IF s \in Tcp THEN {s} ELSE PeersOf(s)) :
          contexts' = [contexts EXCEPT ![Head(context_pool)] = Sending(@, s, p, p)]
    /\ context_pool' = Tail(context_pool)
    /\ UNCHANGED <<sockets, ended, event>>

-----------------------------------------------------------------------------
(* The kernel, by the operation that submit() chose.                       *)

\* recvmsg writes as much of the address as msg_namelen has room for and then sets
\* it to the size of the whole; a TCP socket reports no address.  readv does not.
Received(c, p) ==
    IF c.ctype = "tcp" THEN [c EXCEPT !.st = "done", !.peer = p]
    ELSE IF c.sock \in Tcp THEN [c EXCEPT !.st = "done", !.peer = p, !.namelen = 0]
    ELSE [c EXCEPT !.st = "done", !.peer = p, !.namelen = SizeOf(p),
                   !.addr = IF c.namelen = 0 THEN @
                            ELSE IF c.namelen < SizeOf(p) THEN Mangled ELSE p]

KernelReceives(i) ==
    /\ contexts[i].st = "pending" /\ contexts[i].type = "read"
    /\ LET s == contexts[i].sock
       IN  \E p \in (IF s \in Tcp THEN {s} ELSE PeersOf(s)) :
              contexts' = [contexts EXCEPT ![i] = Received(@, p)]
    /\ UNCHANGED <<sockets, context_pool, ended, event>>

\* A read without data, or an error.  At the end of a UDP socket recvmsg reports no name.
KernelEnds(i) ==
    /\ contexts[i].st = "pending" /\ contexts[i].type = "read"
    /\ \E n \in {contexts[i].namelen, IF contexts[i].ctype = "tcp" THEN contexts[i].namelen
                                      ELSE 0} :
          contexts' = [contexts EXCEPT ![i].st = "ended", ![i].namelen = n]
    /\ UNCHANGED <<sockets, context_pool, ended, event>>

\* sendmsg on a UDP socket looks at the name; writev, and TCP, do not.
Refused(c) == c.ctype = "udp" /\ c.sock \notin Tcp /\ c.namelen < Needed(c.addr)

KernelSends(i) ==
    /\ contexts[i].st = "pending" /\ contexts[i].type = "write"
    /\ contexts' = [contexts EXCEPT ![i].st = IF Refused(contexts[i]) THEN "refused"
                                              ELSE "done"]
    /\ UNCHANGED <<sockets, context_pool, ended, event>>

-----------------------------------------------------------------------------
(* io_service::io.                                                         *)

\* Mutant: always the address in the context.
current_sockaddr_Own(c) == c.addr

current_sockaddr(c) == IF c.ctype = "tcp" THEN c.sock ELSE c.addr

Event(c) == [given |-> current_sockaddr(c), real |-> c.peer, refused |-> c.st = "refused"]

\* deallocate_context: what it does not reset stays.
Recycled(c) == [c EXCEPT !.st = "free", !.sock = NoAddress, !.peer = NoAddress]

\* io_received takes the context of the next read before its own is given back.
HandlesRead(i) ==
    /\ contexts[i].st = "done" /\ contexts[i].type = "read"
    /\ event' = Event(contexts[i])
    /\ context_pool # <<>>
    /\ contexts' = [contexts EXCEPT ![i] = Recycled(@),
                                    ![Head(context_pool)] = Receiving(@, contexts[i].sock)]
    /\ context_pool' = Append(Tail(context_pool), i)
    /\ UNCHANGED <<sockets, ended>>

\* io_shutdown: no further read, and the send buffer is destroyed.
HandlesEnd(i) ==
    /\ contexts[i].st = "ended"
    /\ contexts' = [contexts EXCEPT ![i] = Recycled(@)]
    /\ context_pool' = Append(context_pool, i)
    /\ ended' = ended \cup {contexts[i].sock}
    /\ UNCHANGED <<sockets, event>>

\* io_sent with more in the buffer: it is sent to where this write went, by the next context.
Continues(i) ==
    LET old == contexts[i] IN
    /\ old.st = "done" /\ old.type = "write" /\ old.sock \notin ended
    /\ event' = Event(old)
    /\ context_pool # <<>>
    /\ contexts' = [contexts EXCEPT ![i] = Recycled(@),
                       ![Head(context_pool)] = Sending(@, old.sock, current_sockaddr(old), old.peer)]
    /\ context_pool' = Append(Tail(context_pool), i)
    /\ UNCHANGED <<sockets, ended>>

\* io_sent with nothing left, or io_error.
HandlesWrite(i) ==
    /\ contexts[i].st \in {"done", "refused"} /\ contexts[i].type = "write"
    /\ event' = Event(contexts[i])
    /\ contexts' = [contexts EXCEPT ![i] = Recycled(@)]
    /\ context_pool' = Append(context_pool, i)
    /\ UNCHANGED <<sockets, ended>>

ReuseNext ==
    \/ \E s \in sockets \ ended : Starts(s) \/ Sends(s)
    \/ \E i \in ContextIds : \/ KernelReceives(i) \/ KernelEnds(i) \/ KernelSends(i)
                            \/ HandlesRead(i) \/ HandlesEnd(i)
                            \/ HandlesWrite(i) \/ Continues(i)

ReuseSpec == ReuseInit /\ [][ReuseNext]_reusevars

-----------------------------------------------------------------------------

\* Every program keeps to TCP, or to UDP of one family.  Without it neither of the
\* properties holds.
OneFamily == \A p \in Programs : p \subseteq Tcp \/ p \subseteq Udp4 \/ p \subseteq Udp6

\* A UDP socket has ended, with a context that has no room for a name any more, and the
\* program had others.
Spoiled == \E s \in ended \ Tcp : sockets # {s}

\* The address that recv_event gets, and the one that io_sent sends what is queued to,
\* is that of the datagram or connection, whatever the context was used for before.
AddressTrue == Spoiled \/ event.given = event.real

\* No datagram is refused because of the name length an earlier request left behind.
NamesFit == Spoiled \/ ~event.refused

\* Nothing that an earlier use has left in a context matters to the next one.
NothingStale == AddressTrue /\ NamesFit
=============================================================================
