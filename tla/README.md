# rioring: a verification development

rioring is a C++ networking library: TCP and UDP sockets and servers whose input and output go
through io_uring on Linux and registered I/O on Windows. This directory holds TLA+ models of both
implementations and of a program that uses them, the TLC configurations that check them, and proofs
for TLAPS. `PROJECT.json`
lists the runs, the source lines behind each definition, the hazards and the theorems. Line numbers
below are those of `src/src/` unless another directory is named.

    tlc -workers 2 -config MCSendQueue.cfg SendQueue
    tlapm SendQueueProofs.tla

## 1. The system

| component | state | operations | talks to |
|---|---|---|---|
| `io_service` | `io_array` (the rings), `running_io`, the context pool, `thread_ring` per thread | `run`, `stop`, `submit`, `on_thread`, `io` (the completion loop), `allocate_context`, `deallocate_context` | the kernel through one ring per worker; calls `io_accepting`, `io_received`, `io_sent`, `io_shutdown`, `io_error` of the objects |
| `socket_object` | `socket_handler`, `shutdown_gracefully`, `send_buffer`, `recv_buffer`, `recv_bind_buffer`, `lock` | `close( force / graceful )`, `io_received`, `io_sent`, `io_shutdown`, `submit_shutdown` | `io_service::submit`; the user's events |
| `tcp_socket` | `connected_flag`, remote address | `connect`, `send`, `on_active`, `on_shutdown`, `submit_receiving`, `submit_sending` | as above |
| `tcp_server` | `server_socket`, `addr6` | `run`, `stop`, `io_accepting`, `on_accept`, `submit_accept` | creates and activates `tcp_socket`s |
| `udp_socket`, `udp_server` | as `socket_object` | `activate` / `run`, `send_to`, `stop`, receiving | as above |
| `io_buffer`, `io_double_buffer` | allocation, `buffer_size`, `buffer_offset`, `block_size`; `main_buffer`, `sub_buffer` | `assign`, `push`, `pop`, `elevate`, `destroy` | the kernel reads `main_buffer` during a write |
| `io_context`, `simple_pool` | `type`, `ctype`, `iov`, `msg`, `addr`, `handler`; the list and its `spin_lock` | `pop`, `push` | a context's address is the `user_data` of its request |
| the same classes on Windows | a completion queue per worker, `io_array` of them; `request_queue`, two registered buffers and `send_bind_buffer` per socket; a thread that accepts | as above; `create_request_queue`; `closesocket` in whatever thread closes | the system through `RIOReceive`, `RIOSend`, `RIODequeueCompletion` |
| chat server and client (`examples/`) | `pool::clients` and its lock; a `client` per connection | `on_accept`, `on_receive`, `on_close`; `chat_all`, `leave_all`, `wait_for_leave`; `main` | `tcp_server`, and the sockets it is given |
| `thread_generator`, locks, `object_base`, `address_resolver` | threads; a flag or a mutex; an id; none | | |

A request is prepared by any thread (a worker on its own ring, any other thread on a random one),
goes to the kernel, and its completion is handled by the worker that owns the ring. So one socket's
read, write and shutdown may complete on different workers at the same time, and user threads call
`send`, `close` and `stop` meanwhile. The only locks are `socket_object::lock` (held by `send`,
`send_to`, `io_sent` and `close( graceful )`, not by `io_received`, `io_shutdown`, `on_active` or
the shutdown completion), the pool's spin lock, and the one around `io_array.push_back`.

What is hard, and what correctness means:

* *Send path.* The kernel reads `main_buffer` without a lock while `send` appends. Its memory must
  stay put, and bytes must leave once, in order, across partial writes and the move from the sub
  to the main buffer. "Is a write under way" is never stored: it is inferred from the buffer being
  empty.
* *Receive path.* `recv_bind_buffer` and `recv_buffer` have no lock at all. One read at a time, on
  one ring, is what protects them.
* *Closing.* A graceful close must neither lose what was sent before it nor be forgotten; the close
  event must come, once, last; the descriptor must be closed once.
* *The rings.* liburing wants the uses of one submission queue kept apart; user threads, `stop()`
  and the owner share it. A request must not be lost or taken twice, and `stop()` must come back.
* *Accepting.* A chain of requests that share one address member; it must not break, must not mix
  up addresses, and must end with `stop()`.
* *Programs.* Callbacks of all sockets of a server share the program's data; a program that ends has
  to find and close every connection, including the one that is being accepted meanwhile.
* *Windows.* Reading `socket_handler`, closing that number and forgetting it are three steps of any
  thread, and the system may reuse the number at once. Requests that are refused are not noticed.
* *Contexts.* Two requests must never share one, none may get lost, and what an earlier use left
  in one must not matter.

## 2. Modules

| module | models | kind |
|---|---|---|
| `IoBuffer`, `IoDoubleBuffer`, `IoBufferProofs` | `io_buffer.cpp`, `io_double_buffer.cpp` | operators on records, lemmas about them |
| `ByteStream` | what the send path promises | abstract specification |
| `SendQueue` | `send`, `io_sent` and the kernel on one `send_buffer` | state machine, implements `ByteStream` |
| `SendQueueProofs` | | proofs |
| `TcpSocket`, `MCTcpSocket`, `TcpSocketProofs` | one `tcp_socket` from `on_active` to the close, step by step | state machine, proofs |
| `IoService`, `IoServiceProofs` | `run`, `on_thread`, `submit`, `io`, `stop` and the submission queues | state machine, proofs |
| `TcpServer` | `tcp_server` and its completions | state machine |
| `ChatServer`, `MCChatServer` | the chat server, its clients and sockets on top of `TcpServer` | composition |
| `ServerProofs` | | proofs about both |
| `RioService`, `MCRioService`, `RioServiceProofs` | the Windows implementation | state machine, proofs |
| `UdpSocket`, `UdpSocketProofs` | `udp_socket` / `udp_server` and their completions | state machine, proofs |
| `ContextPool` | `simple_pool` and `spin_lock` | state machine |
| `ContextReuse` | what a recycled `io_context` still holds | state machine |
| `ContextProofs` | | proofs about both |

`SendQueue`, `TcpSocket` and `UdpSocket` are built on `IoDoubleBuffer`; `ChatServer` extends `TcpServer`,
whose actions are steps of the program. Operators named
`Definition_Suffix`, each marked "Mutant", are mutated forms of the definition they precede; they
are used only to see that a property fails for them.

**Buffers.** A buffer is `[raw, data, size, block]`: `raw` names the allocation (0 is the null
pointer), `data` holds the bytes up to `buffer_offset`. Growing may keep the allocation or move
it (`realloc`), so `Pushes` is the set of results. `PushSpins` is the condition under which the
growth loop of `push` never ends: nothing to grow by (`block_size` 0). `Memory( d, p, k )` is what a
reader of pointer `p` finds; memory that is not allocated any more yields bytes of no meaning.

**SendQueue.** `send` and `io_sent` are one action each, since both hold the lock over all their
uses of the buffer; `KernelWrites( k )` takes any non-empty prefix, `KernelRefuses` is an error. Bytes
are numbered by the order of acceptance, so "in order, once each" is `wire = 1, 2, 3, ...`.

**TcpSocket.** One action per access that another thread can see. `pc` follows the code:
`on_active` is activate, assign, receive; `send` is send (the tests without the lock), push, submit,
unlock; `close( graceful )` is one test and its outcome under the lock; a completion is taken
(`TakesCqe`) and goes to received/callback, to sent/elevate, to flag/destroyMain/destroySub/notify, or
to check/copy/zero/closeFd. A request that is prepared goes to the kernel (`Enter`) or, at most once for each
kind in the case's `refusable`, is refused because the ring is full (`Refuses`): `io_error`, and the context is forgotten. Between preparing a request, which copies `socket_handler`, and giving
it to the kernel (`Enter`) other threads may run. After the shutdown completion `socket_handler` is
0, which is a descriptor: requests prepared from then on are about standard input
(`StdinAnswers`). User code runs in user threads and in the receive event.

**IoService.** `io_uring_get_sqe` and `io_uring_submit` are modelled by what they do to the ring's
memory: read the tail, move it, fill the slot, hand over what lies between head and tail. A slot
that is handed over without having been filled is what it was before, in a new ring a request with
`user_data` 0, which a worker takes for the signal to leave. `kernel` holds each ring's requests with the
place of the queue they came from, so that two that read the same are two. Nothing keeps the calls on one
ring apart, as nothing does in rioring: user threads submit to any ring from the moment `run()` returns until after
`stop()`, workers submit again from their handlers, and `stop()` visits the rings meanwhile. `clashes` is a
history of the meetings of calls (one began between another's `io_uring_get_sqe` and the end of its
`io_uring_submit`, on the same ring): the ring, and the workers among the callers, so that properties can say what such a meeting can do and where it cannot
reach. A thread that comes upon something undefined is followed no further: "crashed" is `stop()` writing
through the null pointer of a full queue, "astray" a call on a ring whose worker has left, or on an empty `io_array`.

**TcpServer.** The accept request, the member `addr6` that the kernel writes, the steps of
`io_accepting` on a worker, `stop()` from anywhere, clients that connect at any time, failing accepts.

**ChatServer.** The variables and actions of `TcpServer` and around them the program: `OnAccept` is
`Reports` with `pool::add`, `OnActive` is `Activates` with the first read, and the other actions of the
server leave the program alone. A worker is in a handler of the server or in an event of a socket
(`event`), never in both. Sockets are those of `TcpSocket` with the steps of a handler taken together;
what remains of them is where the one read is, which rings have a shutdown request, whether bytes wait
to be sent, and that a read prepared after `socket_handler` was reset is "stray": on descriptor 0. A
byte is a header with its kind and the length of the text behind it, or a byte of a text; the kernel hands over
any prefix of what the peer sent. A frame is a request with a text or with none (`Skips`: `chat_size` is 0), an
invalid one (`Refuses`), or one of size 0 (`Repeats`). `Picked` is what `io_buffer::read` leaves in the array of
`on_receive`, which is not cleared between two frames of one call. `ReceiveRoom` and `ChatRoom` are what the
arrays of `on_receive` and `client::chat` have room for behind their headers, 1017 and 996 bytes in the code; a text that
does not fit is `Overruns`, after which the worker is "corrupt" and is not followed. `hist` keeps the texts each peer has sent
and those that were chatted for it. `main` is `app_stop.wait`, `leave_all` (a `close()` per step,
with the pool's lock), `wait_for_leave`, which reads the pool without its lock, and `server->stop()`;
a program that does not wait (`patient = FALSE`) is that of `test/basic_test.cpp`.

**RioService.** `Appends` and `MovesEnd` are `push_back` in two workers at once. The thread that accepts goes
through `on_active` (flag, buffers, request queue, first receive). A close in any thread is
`ReadsHandle`, `ClosesHandle`, `Marks`; `owner` is the system's table of numbers, from which `WSAAccept` takes
any that is free. `RIOReceive` and `RIOSend` fail on a socket that is closed or has no request queue
(`Works`); `submit` does not look at the result, so the request is "lost". A receive that is
under way when its socket is closed completes with 0 bytes.

**UdpSocket.** As `TcpSocket`, except that what happens inside the lock is one action, and that the
completions of a ring are taken in any order (a superset of the real orders). A datagram that is
queued is a byte in the same byte buffer; what `io_sent` finds there leaves as one datagram. `log.wire` records the
datagrams with their addresses, `log.sent` their bytes one behind the other.

**ContextPool.** Every access between `lock()` and `unlock()` is a step, with the spin lock's flag as
the only thing that keeps threads apart. **ContextReuse** keeps `ctype`, `addr` and `msg_namelen` of each
context through its lives; the pool is the queue it is, since order decides who gets which context. A
request takes the context at the front, the kernel answers it by the operation that `ctype` chose
(`KernelReceives`, `KernelEnds`, `KernelSends`), and the handler gives it back behind the others, for a read
(`HandlesRead`) or a write with bytes left (`Continues`) after taking the next one. A socket in `ended` has
had its `io_shutdown` and asks for nothing more.

## 3. Runs

| run | configuration | checks |
|---|---|---|
| `send_queue` | block 2, chunks of up to 3 bytes, 7 bytes | `InFlightStable`, `WriteIffQueued`, `IInv`; implements `ByteStream!Stream` with its liveness |
| `tcp_socket` | 2 workers, 1 user; three cases of sends, closes, packets and refused requests (`SafetyCases`) | `TypeOK`, `ReceiveSerial`, `WireInOrder`, `GracefulDrains`, `ClosedOnceEach`, `CloseLast`, `CompleteTruthful` |
| `tcp_close` | 1 worker, 1 user, 1 send, 2 closes, a refused read, write and shutdown | under fairness `CloseAnswered`, `GracefulCloses` |
| `tcp_close_lost` | 1 worker, 1 user, 1 close, 1 packet | `CloseNotifies` is violated |
| `io_service` | 2 workers, 2 users, rings of 2, 2 requests, from `run()` to after `stop()` | `TypeOK`, `RunReady`, `DeliveredOnce`, `RingAlive`, `WorkersApart`, and under fairness `StopTerminates` |
| `service_lost_cancel` | 1 worker, 1 user, ring of 4, 1 request | `StopReturns` is violated |
| `chat_server` | 2 workers, up to 3 clients and 3 frames, 1 stop; six cases (`MCCases`) | `RemoteIsPeer`, `AcceptAlive`, `EventsInPool`, `EventsSerial`, `ChatsAsSaid`, `ArraysHold`, and under fairness `ClientServed`, `StopsForGood`, `SaidIsChatted`, `ServerEnds` |
| `rio_service` | 2 workers, 1 user, the accepting thread, 1 number; 2 connections, 1 call and 1 packet, or 1 connection, 3 calls and 2 packets | `QueuesKnown`, `OwnHandle`, `SendBufferStable`, and under fairness `CloseAnswered` |
| `udp_socket` | 2 workers, 1 user, 2 sends, 1 datagram, failures | `Listens`, `InOrder`, `StopDrains`, and under fairness `StopEnds` |
| `udp_misaddressed` | 1 worker, 1 user, 2 peers, 2 sends | `Addressed` is violated |
| `context_pool` | 3 threads, 2 contexts to begin with, 3 in all | `NoSharing`, `NoneLost` |
| `contexts_reused` | 2 TCP sockets, one UDP socket of either family, or 2 of one; 3 contexts | `NothingStale` |

Why the bounds are enough for the cases of interest:

* 7 bytes in chunks of up to 3 with blocks of 2 fill main, overflow into sub, grow sub by more than
  one block, hit exact multiples of the block size, and elevate twice, with every split of a write.
* Two workers are the least that let a read, a write and a shutdown of one socket be handled at the
  same time; two sends are the least for a byte to wait behind a write and for a send to race
  `io_sent`. With `BufferSize` 1 the second byte always goes to the sub buffer.
* `MaxContexts` never binds in `TcpSocket` and `UdpSocket` (one read, one write, two shutdowns, and the context being
  handled together with its successor).
* Sends, closes and packets together are beyond a run of a few minutes, so `tcp_socket` starts in any of three
  cases, which the history `log` carries along: two sends and a close; a send, a close and a packet; two closes
  and a packet. The first two may have a read and a write refused. The last is the least in which two shutdown completions of
  one socket are handled by two workers at once (two closes whose requests go to different rings), with
  a read among them.
* Rings of 2 entries wrap around (two requests and a cancel make a third entry) and run full: two calls that have not
  flushed yet fill one for a third, be it a user's or that of `stop()` in the middle of its loop. In
  `service_lost_cancel` the ring has more entries than there are threads, so that running full plays no
  part in what that run shows.
* `chat_server` starts in any of six cases (`MCCases`), each the least in which something happens: three
  clients (one being activated while the next is accepted and one is queued) with failing accepts and a
  `stop()` at any time; two clients of a program that waits for them, one of them talking; a client that may
  leave or say something invalid while the program ends; two frames of one client, of any mix of empty,
  short and long texts that fit; two clients that talk at the same time; three frames of one client with
  headers of size 0 and texts that do not fit among them.
* Room for 2 bytes in `client::chat` and 4 in `on_receive` stands for 996 and 1017: between them are texts that
  overrun only the one, above (5) those that overrun the other as well. Three
  frames are a text before such a one and one behind it. Programs that end have no such frames, since what
  these do to a worker is the end of the other promises.
* `rio_service` has a single number, so that every close makes it available to the other connection at
  once. Two connections, a call and a packet are the least for a close by the program, a close by
  a worker and a reuse to meet; the other case has one connection with a graceful close behind sends, or several
  closes. `stop()` of the server comes at any time, also while the accepting thread is in
  `on_active`; after a race in `push_back` connections get what the vector then holds.
* Three contexts in `ContextReuse`: a read and a write under way, and one that was used before by either socket
  and for either purpose, also by a socket that has ended. The proofs are about any number.

`CHECK_DEADLOCK FALSE` is in every configuration: a socket that is closed, a server that has stopped
and a program that has used up its bounded number of calls have no further step.

### Fairness

`FairSpec` asks for weak fairness of the threads' own steps (the operating system schedules them), of a
worker coming back from a callback, and of the kernel answering a request it can answer. Nothing is
asked of the peer, of user code making calls, of requests on standard input, or of io_uring
completing a request in `IoService`. In `TcpSocket` and `UdpSocket` fairness is stated for a role rather than
for each of its members, in `IoService` for all threads together; they have finitely many steps within the
bounds, so none is starved.
In `ChatServer` it is stated for the kernel, for the workers and for `main` as roles too; peers take what they are sent, but need not say anything, nor leave. In
`RioService` each worker, the accepting thread, a user thread inside `close` and the system's completions are
fair; calls, peers and the moment of `stop()` are free. `RIODequeueCompletion` is polled, so a completion
waits for its worker and for nothing else; and as it empties a queue in order, a completed receive is come to
(`TakesRead`) even if sends of the same connection keep completing.
A mutex is taken by a step whose guard is that it is free; a thread that waits for it gets it since
every holder but a spinning one releases it and the number of calls is bounded.

### What the exceptions in the properties mean

Some properties name the circumstances under which the code does not do what it otherwise does.
They are part of the result.

* `WriteIffQueued` names the failed write: from then on bytes are queued and nothing is under way, and no
  `send` ends that.
* `CloseAnswered` excepts a read on standard input (see 4), a thread in the endless loop of `push`, and a read
  that a full ring refused: it is the one that would have reported the end, and nothing submits it again.
* `GracefulCloses`, `StopEnds`: a failed write leaves its bytes in the buffer and nothing under way
  (`io_service.cpp:434`), so that a graceful close waits for good; likewise `send_to` with an
  unknown address family (`udp_socket.cpp:161`) or, for `GracefulCloses`, a write or shutdown that a
  full ring refused (`io_service.cpp:321-324`).
* `ClosedOnceEach` says what holds although two shutdown completions of one socket may both pass the test
  (`io_service.cpp:439`): without such an overlap the descriptor is closed once, and nothing else is. With one, it may be
  closed twice, or descriptor 0 closed; still each worker closes one, and the member is reset exactly when the
  connection's is closed or about to be.
* `DeliveredOnce`, `RingAlive`, `StopTerminates` speak of rings on which calls have met (`Clashed`): a request there may be
  lost or taken twice, a worker may leave because of a slot nobody filled, `stop()` may miss the worker. A meeting on one
  ring harms no other, and workers alone never bring one about (`WorkersApart`); it takes a user
  thread or `stop()`. `RingAlive` also excepts a user's `submit()` during or after `stop()`, which is
  the only other way to a ring that is gone or an empty `io_array`.
* `Listens`: an empty datagram ends reading (`io_service.cpp:424-427`).
* `AcceptAlive`, `ClientServed`: a failed accept ends accepting (`io_service.cpp:417`).
* `WireInOrder`, `InOrder`: `on_shutdown` destroys the send buffer without the lock; what a write that is
  still with the kernel puts on the wire afterwards is not determined.
* `ServerEnds` excepts a client that joins after `leave_all` has looked, which nobody asks to leave, and
  one whose read is on standard input (see 4).
* `EventsSerial` is a limit as much as a promise: the accepts of a server stay on the worker `run()`
  chose, each socket's reads on the worker that accepted it, so one worker serves all of them.
* `ChatsAsSaid` lets bytes of a longer text follow a shorter one of the same call, and does not count the
  chats of a frame of size 0. `SaidIsChatted` is the other half, that no text is left behind; it excepts a
  connection that was shut down or whose client has left, and a worker that is at a frame of size 0 for good or
  has overrun an array.
* `ArraysHold` leaves texts longer than `client::chat` has room for, which is all that overruns an array (see 4).
* `NothingStale` excepts a program with several UDP sockets of which one has ended (`Spoiled`, see 4).
* `QueuesKnown` says of every start of the workers that the vector has a first queue and an end within its
  capacity; that all queues are in it, only if no two were in `push_back` at once. `OwnHandle` excepts two threads that close
  one socket at the same time, the one way the model finds to close a stranger's number.
* `CloseAnswered` of `RioService` excepts a receive that was refused because the socket had been closed while
  its handler ran, a graceful close of a socket whose send was refused (its bytes stay queued), a
  thread in the endless loop of `push`, and a service that was stopped.

## 4. Disagreements between the code and what the repository says

1. **A close event that never comes** (`tcp_close_lost`). `io()` sets `socket_handler` to 0 when it handles
   the shutdown completion (`io_service.cpp:441`). If a read completion with data is handled after it,
   `io_received` submits the next read on descriptor 0 (`socket_object.cpp:89`), the read that would
   report the end is never made, and `socket_close_event` does not fire. `README.md:188-191` waits for
   these events after `close()`.
2. **A `stop()` that never returns** (`service_lost_cancel`). `stop()` and a worker or user thread in
   `submit()` may take the same slot of a ring (`io_service.cpp:278`, `319`); the cancel request is
   overwritten, the worker is not told, `join` waits. `test/basic_test.cpp:102-103` stops services right
   after traffic and expects `running_count()` to be 0.
3. **Datagrams to the wrong peer** (`udp_misaddressed`). `send_to` behind a write keeps the bytes and
   forgets the address (`udp_socket.cpp:173-174`); `io_sent` sends them to the address of the write before
   (`socket_object.cpp:101-102`).

Met in the models as well, without a run of their own:

* `push` on a buffer with no block size never ends, with the socket's lock held: `send` between
  `connected_flag = true` and `send_buffer.assign` (`tcp_socket.cpp:261`, `268`), and `send` or `send_to`
  after `on_shutdown` (`tcp_socket.cpp:285`, `udp_socket.cpp:90`). These are the steps `SendSpins` and
  `SendToSpins`, which the passing runs reach.
* A program with TCP and UDP sockets on one `io_service`: a context that served UDP keeps `ctype` and
  `msg_namelen` when a `tcp_socket` takes it, and the reverse way round a UDP read reports no address.
  `NothingStale` fails with `Programs = {{t1, s1}}` in `MCContextReuse.cfg`.
* A UDP socket that ends: `recvmsg` without a name sets `msg_namelen` to 0, and the context goes back to the pool like
  that (`deallocate_context` resets `handler` and `iov` only, `io_service.cpp:293`). Another UDP socket that gets it
  reports the address of an earlier datagram with the next read, or has its `sendmsg` refused. `NothingStale`
  fails without the exception `Spoiled`.
* `send` on Windows between `connected_flag = true` and `create_request_queue`, which needs the buffers to be
  assigned already: `RIOSend` is refused, nobody looks at the result (`io_service.cpp:134`), and all
  later sends of the socket queue up behind it.
* A server that accepts while the program ends: the chat server's `wait_for_leave` waits for a client that
  joined after `leave_all` (`examples/chatserver/pool.cpp:36`), because `server->stop()` comes later.
* `examples/chatclient/main.cpp:67` cuts a text to 1000 bytes to fit its array of 1024. The server's `client::chat` puts the
  text behind a longer header, 27 bytes, in an array of 1024 (`examples/chatserver/client.cpp:19`, `28-29`), which
  has no room for a text of 997 bytes or more (`Overruns`).
* A frame of size 0 pops nothing (`examples/chatserver/receiver.cpp:43`): the worker chats the request before
  it in the array again and again, or turns in the loop for good (`Repeats`).
* The chat server takes a text to its terminating 0 in an array that is cleared once per call
  (`examples/chatserver/receiver.cpp:38`, `52`): after a longer text a shorter one is chatted with the
  end of the longer one.
* A signal that arrives before `app_stop.wait` (`examples/chatserver/main.cpp:56-63`) is lost: the wait has no
  condition. The model starts when `main` waits.
* `udp_server::stop()` called from a receive event with a single worker waits for itself
  (`Workers = Stoppers = {w1}`).

## 5. Proofs

`SendQueueProofs` proves, for every block size, chunk size and number of bytes:

* `Invariance`: `Spec => []IInv`, and from it `TypeCorrect`, `InFlightSafe`, `OneWrite` (a write is under way
  only with bytes queued, and bytes are queued without one exactly when a write has failed), `SubFollowsMain`;
* `AppendOnly`: no step moves or overwrites `main_buffer` while a write is under way;
* `Refinement`: `SendQueue` implements the safety part of `ByteStream`.

None of those properties is inductive. `IInv` adds what the code relies on without saying so.
`BytesInOrder`: main and then sub hold exactly the bytes that follow those popped, in order.
`Allocations`: main always has an allocation; sub has one of its own if it holds bytes, and is like new
if not, which is why `elevate` may hand it over. `WriteProgress`: for each stage of the write, how its
length and result relate to main's length and to what is on the wire. The proof goes up in layers:
arithmetic of the growth loop (`GrownSizeFits`), what `push` and `pop` do to a buffer
(`PushesAppends`, `PoppedDrops`), to a double buffer (`DPushesAppends`), then one lemma per action, then
`NextPreserves`. The refinement reuses the action lemmas: a send is `Accept`, a completion `Transmit`,
a refusal `Break`, the rest stutters. The assumption is `SendQueueAssumption`:
a positive block size and natural bounds.

`ContextProofs` proves of `ContextPool`, for any number of threads and any pool size: `Invariance`, `LockExcludes`,
`NoContextShared`, `NoContextLost`. `NoSharing` alone is not inductive, since `front()` and `pop_front()` are two
steps: `IInv` adds mutual exclusion and that what a thread has read inside is still true (`Locals`), so
`PopDropsFront` removes the very context that the thread goes away with. One lemma per group of actions;
`Alone` turns exclusion into "nobody else's locals are affected". The assumption is
`ContextPoolAssumption`.

Of `ContextReuse` it proves `ReuseInvariance` and `ContextsServeAgain`, for any sockets, addresses and programs
and any number of contexts, under the hypothesis `OneFamily`: every program keeps to TCP, or to UDP of one
address family. The properties speak of the last event; the invariant says why no event can be wrong.
`Pooled`: the pool has free contexts only, each once. `Used`: a request under way has a socket of the program and a
peer of that socket. `OneRead`: a socket has one read, and none once it has ended; so the read whose end empties
`msg_namelen` is the last one. `Sound`, unless `Spoiled`: a context in use has the `ctype` of its socket and, for UDP, the address
of its request (`Kind`), and every context has room for a name of the program's family (`Room`). `recvmsg` leaves
`msg_namelen` at the size of that family, never smaller than what the next `sendmsg` needs: this is the
step the code does not state, and the one that `OneFamily` is for. The further assumption is `ContextReuseAssumption`.

`ServerProofs` proves of `TcpServer`, for any workers, clients and number of stops: `Invariance`, `TypeCorrect`,
`RemoteInfoRight`, `AcceptGoesOn`, `OneStopClosesOnce`. The invariant places the one accept: with the kernel, in a
completion queue, or with the worker that handles it (`OneAccept`, `GoesOn`); as long as a completed accept
has not been handled, `addr6` is the address of its connection (`Fits`); the one shutdown is pending,
done, or with a worker that holds the descriptor it will close (`StopsOnce`). The cardinality in
`AcceptAlive` is derived from "any two workers in an accept handler are the same" at the end. The assumption
is `TcpServerAssumption`.

It proves of `ChatServer` the theorem `UsesTcpServer`, that `ChatServer` implements `TcpServer` (each action of the program is an
action of the server or leaves its variables alone), so that the theorems above hold in the
program (`ServerKeepsItsPromises`); and `ChatInvariance`, from which `ChatTypeCorrect`, `ReceivesFromPool` and
`OneEventAtATime` follow. The invariant follows a connection: `AllAt( h )` says that the accept, all reads and all
events are with one worker h; `Stages` that a client is queued at most once, then accepted, then active, and
that a handler and an event never meet in one worker; `InPool` that a client is in the pool from before its first read until its
close event. Steps that touch neither reads nor events go through `QuietKeeps`, those that
only move requests through `RequestsKeep`. The further assumption is `ChatServerAssumption`.

On top of that invariant it proves `FrameInvariance` and from it `ChatsInOrder`, `ChatsAsSaid` for frames of all kinds, cut
anywhere, with shutdowns and closes at any time, and `ArraysOverrunByLongTexts`, both for arrays of any size. No induction over data is needed: the invariant keeps a witness. `Framed( U, whole, texts, count )`
says that the bytes U were sent behind some frame of all that was ever sent, with `count` texts in front of them, and to
the end if `whole`; `OnTheWay( c )` says it of what client c has in its buffer, with its read and in the
kernel (`Bytes`), with as many texts in front as were chatted. A frame that is said prolongs the witness
(`FramedSays`), a shutdown or a close cuts the bytes short (`FramedCut`), and a pop moves past one frame, whose
header is then the first byte of the buffer (`FramedPops`); a read and `io_received` leave `Bytes` as it is. `Ready`
is what the latter needs: a read that has not completed has brought nothing. `Array( w )` says that the array of
`on_receive` holds as much as the longest text chatted from it, so that what `client::chat` is given is too long only if a
text was. This gives the last part of `ChatsAsSaid`, and `ArraysHold`.

`IoBufferProofs` holds what the proofs about the sockets need of the buffers: `DPushesAppends`, where a
push puts the bytes; `PoppedFollows` and `ConcatFollows`, that bytes which follow byte n of the stream
still do after a pop and after an append; `ElevatedKeeps`.

`TcpSocketProofs` proves, for any number of workers and users, any block size and any bounds: `Invariance`,
`TypeCorrect`, `ReceivesSerially`, `WritesInOrder`, `GracefulCloseDrains`, `CloseComesLast`, `CompletesTruthfully`, `ClosesOnceEach`. The invariant is a
conjunction of layers, each about fewer variables than the socket has, and each preserved because of the
ones before it:

* `Places`: a context is in one place: free, prepared by one thread, with the kernel, once in the completion
  queue of its ring, or with that ring's worker.
* `Reads`: there is one right to read, and at most one holder of it: the thread in `on_active`, a read whose
  successor has not been submitted, or, for the last one, the worker on its way to the close event. While a
  worker is in the receive path all reads are on its ring.
  That is what stands in for a lock on `recv_buffer`, and it is proved, not assumed.
* `Locks`: who is past `lock()` has it.
* `Writes`: the right to write is with the thread that found the buffer empty, or with the one write; and
  while the bytes of a write are not popped the buffer is not empty, unless it was destroyed. This is the
  inference "the buffer was empty, so no write is under way" that `send` and `close` make, stated as an
  invariant.
* `Bytes`: as long as `on_shutdown` has not destroyed the buffer, main and then sub hold exactly the bytes from
  the first one not popped to the last one accepted; the memory of a write that is under way is that of
  main and starts with the bytes it was submitted for; the wire is what was popped and what a completed
  but not yet handled write has added.
* `Promises`: shutdowns are asked for by graceful closes only (unless there was a forced one), which promised to wait
  for the bytes accepted by then; when one is asked for, those bytes are on the wire.
* `Closes`: a worker that is between the test of `socket_handler` and `::close` has closed nothing so far; the
  connection's descriptor is in the member, then with a worker, then closed; and until two workers overlap there,
  one alone gets that far.

None of the checked properties is inductive: each needs at least `Places` and the layer it is about. The
cardinalities in `ReceiveSerial` and `WireInOrder` are derived from "any two are the same" at the end. The
proof has one lemma per action and layer, most through lemmas on what a step does to contexts at large
(a submit, a completion, a context that is given back). The assumption is `TcpSocketAssumption`.

`UdpSocketProofs` proves, for any number of workers and users, any addresses, any block size and any bounds:
`Invariance`, `TypeCorrect`, `ListensOn`, `LeavesInOrder`, `StopWaits`. The layers are those of `TcpSocketProofs` with fewer
places in each, and the same lemmas about the buffers. `Reads` and `Writes` say who may submit the next
read or write. `Bytes` says that main and then sub hold the bytes from the first one not popped (`Gone`) to the last
one accepted, and `WriteOf( c )` ties the one write to them: while it is pending it is about the front of
main, once it has succeeded its bytes have left and are still in main until `io_sent` pops them, and a write that
failed has changed nothing. `Stops` says what cannot be before `stop()`: without it a read that
ends with 0 bytes could come from a shutdown, and `Listens` would not be inductive. `Drains` follows from the
inference `EmptyDrained`: an empty buffer means that no write is under way and that all that was accepted has
left. Writes may fail in all of this; what fails then is `StopEnds`, not `StopDrains`. The assumption is
`UdpSocketAssumption`.

`IoServiceProofs` proves, for any finite number of workers, any users, ring size and number of requests: `Invariance`, `TypeCorrect`
(with it that `running_io` counts each worker once and never falls below 0), `ReadyWhenRunReturns`, `DeliversOnce`,
`WorkersKeptApart` and `RingsAlive`, whatever the threads do to each other. The invariant has a part that holds of all rings (which
thread may be where, who is in `io_array`, whose calls are on whose ring) and one that holds of a ring as long as no
two calls have met on it. In `DeliversOnce` the step that matters is that the tail
a thread has read is still the ring's tail when it writes it back: `Queue( r )` says so of such a ring, and
that the ring holds no entry but this thread's, so that what a flush hands over is one slot that has been
filled and `io_uring_get_sqe` has a slot to give. The proof shows where this ends: at a `GetsSqe` that finds another
thread in a call, which is what `clashes` records, and on that ring only. The assumption is `IoServiceAssumption`; the
number of workers is finite because `running_io` counts them.

`RioServiceProofs` proves, for any finite number of workers and any connections and `SOCKET` values, `Invariance` and from
it `QueuesFound`, `ClosesOwn`, `SendBufferKept`. The three promises have little to do with each other, and
so have the parts of the invariant. `Queues`: the end of the vector counts the workers that
are past `push_back`, and the slots below it hold their queues, a worker inside has its own in the next one;
and, if two have raced, still the end counts no more than those that are past, and one once one is, and
the first slot is filled. `OwnNumbers`: a thread that has read `socket_handler` has read what it still
holds, and the number in a member belongs to its connection until `closesocket`. `FrontQueued`: a send that
is under way or completed is about bytes at the front of what is queued. `OwnNumbers` and one half of `Queues` have the
exceptions of their properties as hypotheses (`overlap`, `raced`), so these are exactly where those parts
break: any other way to a lost queue or a stranger's number is excluded. The assumption is
`RioServiceAssumption`, in which the main, accepting and user threads are three.

Only model-checked: all liveness (`ByteStream!Stream`'s fairness part included), which is out of the prover's
reach. Every invariant of the passing runs is proved. Proved
only, and in no run: `OneStopClosesOnce` and the types of `UdpSocket` and `TcpServer`.

## 6. Not modelled

* On Windows: `connect`, the UDP sockets with the pool of address buffers, registrations that fail, a
  corrupt completion queue (which the code answers with a write to address 0).
* `address_resolver`, `object_base`'s id, host name resolution and the blocking part of `connect`: no state
  that another thread sees. The echo and UDP servers of `examples/`, and the tests.
* The kernel's own send buffer. Sockets have `SO_LINGER` with a timeout of 0 (`tcp_socket.cpp:265`), so
  `::close` may discard bytes that `writev` has taken; `GracefulDrains` speaks of what the kernel took.
* A descriptor number that is closed and given to another connection while an old request still
  names it.
* A request of `tcp_server` or `udp_socket` that a full ring refuses (it is in `IoService` and, for the requests of a
  `tcp_socket`, in `TcpSocket`). What a thread does after it has come upon a ring that is gone.
* Frames of the chat protocol with a size of 1 to 6 bytes, or with a `chat_size` that does not fit their size; what a
  worker does after it has overrun an array.
* `bind`, `listen` and `socket` failing when a server or a datagram socket starts: nothing has been shared by then.
* `io_uring_submit` failing, `io_uring_queue_init` failing, an interrupted `io_uring_wait_cqe`.
* What `memcpy` and `realloc` do to memory that was freed, past "bytes of no meaning".
* Calls that user code makes from `send_complete_event` or, on a full ring, from `io_error`: these run with the
  socket's lock held, and `send` there waits for itself.
* The contents of `recv_buffer`: only who uses it when.

## 7. Plan

Done, in this order: the buffers and the send path with its abstract specification and proofs
(the core), the socket with its races, the service and its rings, the server, the datagram socket,
the contexts; then the chat server on top of the server and its sockets, the proofs about both, the
Windows implementation, and the proofs about the sockets, the service and the Windows implementation.

Next, in this order:

1. The kernel's send buffer, with `SO_LINGER` 0, under `TcpSocket`: what a graceful close really keeps.
2. `RioService` with UDP sockets and the address contexts.
3. That the sockets of `ChatServer` are an abstraction of `TcpSocket`, as a refinement.
