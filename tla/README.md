# ae_proxy: a TLA+ development

ae_proxy is a small C++17 proxy built on a wrapper library around libuv. `src/ae`
is the library: an event loop that other threads can post callbacks to, TCP and
UDP endpoints, a timer, a timer wheel, buffers and a packet format. `src/app` is
the proxy: a TCP and a UDP server that unpack a msgpack request and pass its
payload to a "real server". `src/base` holds a trie and log macros.

The models follow the code of this commit, handler by handler. libuv, TCP and the
C++ threads are modelled from how the code uses them.

## 1. Inventory

| Component | State | Operations | Interacts with |
|---|---|---|---|
| `EventLoop`, `Async` (`event_loop.cpp`, `async_task.cpp`) | `status_`, `handle_` (a `uv_async_t`), `callbacks_` under `mutex_` | `run`, `run_no_wait`, `stop`, `run_in_this_loop`; inside: `init`, `runInThisLoop`, `process`, `close` | any thread posts; all handles below live on the loop |
| `TimerWheel`, `Timer` (`timer_wheel.h`, `timer.cpp`) | `wheel_`, `index_`, `timeoutSec_` | `set_timeout`, `start`, `insert`, the one-second tick; `Timer::start`, `close` | `TcpServer` inserts a `ConnectionWrapper` for each message; the wrapper's destructor closes the connection |
| `TcpServer`, `TcpAcceptor`, `TcpConnection` (`tcp_*.cpp`) | `connnections_` by peer name, `connected_`, three callbacks per connection, libuv's handle | `listen`, accept, message, EOF, error, `close_connection`, `close` of server and connection, `write`, `write_in_loop` | user callbacks; timer wheel; loop |
| `TcpClient` (`tcp_client.cpp`) | `socket_`, `connection_`, `connect_` | `connect`, `close`, `write` and their callbacks | a `TcpConnection` of its own |
| `TcpProxy`, `TcpAgent` (`app/tcp_*.cpp`) | `session_` by client name | `start`, a bind command, `connect_real_server`, its result | `TcpServer` and a `TcpClient` for each bind |
| `UdpSocket` (`udp_socket.cpp`) | `handle_`, `on_close_` | `try_bind_and_read`, `try_read`, `send`, `close`, receive | loop |
| `UdpProxy`, `UdpAgent` (`app/udp_*.cpp`) | `session_` by client and server address | `forward`, `get_agent`, the answer of a server | one `UdpSocket` to listen, one for each session |
| `Packet`, `PacketBuffer`, `ListBuffer` (`packet.cpp`, `list_buffer.cpp`) | a queue of bytes | `append`, `read_buffer_n`, `clear_buffer_n`, `pack`, `read_from_buffer` | `TcpConnection` fills the buffer, the user reads packets |
| `Trie` (`base/trie.hpp`) | nodes | `insert`, `search` with a wildcard, `deletion` | the domain list test |
| `SocketAddr`, `GlobalConfig`, `LogWriter`, `logger.h`, `main.cpp` | addresses, constants, log output, options | formatting and set-up | everybody |

What is hard in it, and what makes each component correct:

* **EventLoop.** `run_in_this_loop()` decides without a lock (`status_`, thread id,
  `handle_`) and wakes the loop through a flag that coalesces. Correct means: no
  callback is lost or run twice, a queued one gets its wake-up, callbacks of one
  thread run in order, none overlaps one of the loop, `stop()` ends the loop.
* **TimerWheel.** One index out of place makes a timeout a tick or a whole turn
  wrong. Correct means: a value goes at exactly the timeout-th tick after its last
  activity, and the unchecked vector index is in range.
* **TcpServer and TcpConnection.** EOF with a pending `uv_shutdown`, a read error,
  the wheel, the user and `TcpServer::close()` may all close the same connection,
  in any order, while libuv finishes handles in its own phase and shared pointers
  come and go. Correct means: the `uv_tcp_t` outlives libuv's use of it, every
  connection is reported and removed once, idle ones on time, gone ones eventually,
  and the loops over `connnections_` never erase under their iterator.
* **Timer.** The close callback deletes the handle and `handle_` keeps pointing to it.
  Correct means: a user that counts the answers to `close()` never meets freed memory.
* **TcpClient.** `close()` or another `connect()` may come while a connect is pending.
  Correct means: what the user is told from the loop comes after libuv has let go of the
  handle, so that he may act on it; each `connect()` has one outcome and one end, and after `close()` the
  user hears no more of it.
* **TcpProxy.** The callback of an agent outlives the client's place in the server, and
  closes the client past the server. Correct means: a bind is answered, a client does not
  outlive its agent's connection, and the map is stale only where an agent has closed its
  client. The other way round nothing is meant: the end of a client never ends its agent.
* **UdpProxy.** One socket for each pair of client and server, for ever, and a network
  that keeps no order, with clients, servers and proxy on one host or several. Correct means: what comes back goes to the client that asked, and
  a request that is repeated is answered.
* **Packet, ListBuffer.** Fragmentation, resynchronisation after garbage, 16-bit
  lengths.
* **Trie.** Deletion prunes nodes other keys may need; the wildcard rule.

`PROJECT.json` lists each hazard at its line with the property that covers it.

## 2. Modules

| Module | Role |
|---|---|
| `SerialExecutor` | abstract: what posting to a loop promises |
| `EventLoop` | `EventLoop` and `Async`, interleaved between accesses to shared state |
| `EventLoopProofs` | theorems about `EventLoop` and `LoopWrite` |
| `MCEventLoop` | `EventLoop` for TLC |
| `LoopWrite` | `write_in_loop()`: `EventLoop` composed with a connection the writes go to |
| `IdleTimeout` | abstract: a timeout with one age per value |
| `TimerWheel` | the ring of sets; part of `TcpServer` by `INSTANCE` |
| `TimerWheelProofs` | theorems about `TimerWheel` |
| `Timer` | the Timers of a loop, their handles and their users |
| `TimedWheel`, `TimedWheelProofs` | `TimerWheel` and the `Timer` that turns it, beside other Timers; theorems about both |
| `TcpServer`, `TcpServerProofs` | server, acceptor, connections and wheel, with libuv's phases; theorems about it |
| `MCTcpServer` | `TcpServer` for TLC |
| `TcpClient`, `MCTcpClient`, `TcpClientProofs` | client, its sockets and connection, connect to deletion; theorems about it |
| `ClientLink` | abstract: what the user of a `TcpClient` sees of a `connect()` |
| `TcpProxy` | `TcpServer` with agents, each a `ClientLink` |
| `UdpProxy` | sessions, agents and their sockets on a network that loses, repeats and reorders |
| `Program`, `ProgramProofs` | `main()`: one of the two proxies runs; theorems about both |
| `PacketStream`, `MCPacketStream`, `PacketStreamProofs` | `Packet` and `ListBuffer` between a sender and a reader; theorems about it |
| `KeySet` | abstract: a set of keys |
| `Trie`, `TrieProofs` | the trie, its search, and theorems about it |
### EventLoop

A step is what one thread does between two accesses to state others can see:

| Code | Actions |
|---|---|
| `run_in_this_loop()` off the loop | `RunInThisLoop` (reads `status_`), then `Push` (mutex) and `Signal` (`handle_`), or `BeginInline`, `EndInline` once the loop has stopped |
| the same on the loop thread | `RunNested` |
| `run()`, `run_no_wait()` | `Run`, `AsyncInit`, `SetStarted`, iterations, `SetReturned` |
| `uv_run` | `Wake`, `PollEmpty`, `CloseCompleted`, `EndIteration` |
| `Async::process()` | `Swap` (mutex), `BeginTask`, `EndTask`, `EndDrain` |
| `stop()` | `Stop`, from a callback of the loop |

`PostBeforeStart` says whether other threads post before `status_` has first been `Started`
(`BeenStarted`); after that they always may, also between two calls of `run_no_wait()`, which
leaves `status_` at `NotStarted`. `write_in_loop` has it `TRUE`, `event_loop` `FALSE`, as
`SendsOnLiveHandle` does not hold otherwise.

`handle_` points to an object that is `raw` between `new` and `uv_async_init()`,
`freed` after the close callback deleted it (`handle_` keeps its value). Using it
then is recorded in `fault`. `executed`, `posted` and `fault` are history.
Other handles of the loop are not listed: `PollEmpty` lets the loop live on them or
end without them. `stop()` off the loop thread is left out: libuv forbids
`uv_close()` there, and what it would do is inside libuv.

### LoopWrite

Every callback posted to the `EventLoop` is the lambda of `TcpConnection::write_in_loop()`,
which `TcpClient::write_in_loop()` and `TcpServer::write_in_loop()` lead to. The moment
the lambda runs is the moment `EventLoop` begins the callback (`BeginTask`, `BeginInline`,
`RunNested`), and `Perform` is what it does: the buffer goes to libuv (`Taken`), or the
`AfterWriteCallback` is called at once, because the weak pointer has expired, the
connection is not connected, or `uv_write()` fails, as it does on a closing handle.
`conn` is the connection as seen from there, `inflight` what libuv holds. `WriteDone`
answers the oldest write, `ConnectionClosed` all of them, as libuv cancels what is left
before it calls the close callback. Who calls from another thread has a shared pointer.

### TimerWheel

One action for each method. `set_timeout()` after `start()` is allowed only
with `MayReconfigure`: the vector is not resized then, and `InBounds` says so.
`Kept` are the values some slot refers to; a value's destructor runs when it
leaves `Kept`.

`Timer` models the Timers of a loop: `started_`, libuv's view of `handle_`, whether it
repeats, and which `close()` the stored callback came with. The user is one that counts:
he goes on calling a Timer until every `close()` has been answered, which is what the
code asks of him, since a `close()` answered at once (`CompletesAtOnce`) is indistinguishable
from one that is done. `TimedWheel` puts the wheel on such a loop: `StartBoth` is `start()`
with its `timer_.start()`, `Turn` is `wheel_callback()` called by `Timer::process()`.
How late a timer is due is left open, so a tick is any turn of the loop.

### TcpServer

Everything runs on the loop thread, so one step is one libuv callback with all
it calls, or one user call made inside some callback. `phase` follows
libuv: timers (`Tick`), poll (`Accept`, `ReadData`, `ReadEof`, `ReadError`,
`WriteDone`, `ShutdownDone`), closing (`FinishConnection`, `FinishAcceptor`).
`handle` is libuv's view of a `uv_tcp_t`; the object dies with its
`TcpConnection`, which lives while the map or the user holds a shared pointer
(`Alive`); the wheel holds only weak ones. `attached` says whether the two server
callbacks are still set, `completion` whether the close completion is the one of
`close_connection()`. `OnSocketClose` and `CloseConnections` are the shared tails of
five handlers. Constants `CloseTwice`, `DirectClose` and `PortReuse` say which
unusual calls and peers the environment makes.

`CloseTwice = FALSE`, in all runs and in the theorems but for types, excludes more than
a careless user: `close_connection()` then never comes for a connection whose close is under
way, also when the wheel, a read error or the server began it, of which a user hears nothing
until it is done. The code has a branch for such a call (`tcp_connection.cpp:89`), and
it frees the `uv_tcp_t` under libuv: see section 5.

Left out: a failing `listen()`; a second `listen()`, which replaces `accetper_`
(`tcp_server.cpp:60`) and frees the old acceptor with its open handle under libuv;
calls on a connection from within its own close callback; and which callback a second
`TcpServer::close()` leaves to be called.

### TcpClient

Same conventions as `TcpServer`, with `socket` and `connection` for the two pointers of
the client and one `uv_tcp_t` for each `connect()`. `handle = "refused"` is a socket
whose `uv_tcp_connect()` returned an error, which the code does not look at.
`completion` is what libuv's close callback will call: the callback of a `close()`,
`on_close()` or `after_connect_fail()`. `told`, `target`, `answered` and `over` are history:
what the user heard, about what, and whether it was the end of his last `connect()`. The
user acts on what he hears and knows nothing of handles: `MayReuse` lets him connect
again or delete the client once he was told of a failure or of an end, or a `close()` of his was
answered, whatever libuv is doing. That it has let go of the handle by then is for the code
to see to. One answer he has to distrust: `close()` without a connection, or with one
that is closing already, calls back before it returns (`tcp_client.cpp:97`,
`tcp_connection.cpp:89`). With `ActsAtOnce = FALSE` he does not take that for the end, and waits
for what comes later; with `TRUE` he does. `CloseEarly` says whether he calls `close()`
while the connect is pending.

`ClientLink` is what that comes to: a `connect()` is pending, then up or failed, then over,
or silent once `close()` was called; or it is refused and nothing is ever heard of it.
`ImplementsLink` is the refinement. `TcpProxy` builds its agents on `ClientLink`.

### TcpProxy

`TcpServer` with an agent for each bind. `Bind` is the message callback: `ReadBytes` is what
the server does with any message, then `unpack()` and `connect_real_server()`. The callback
given to the agent captures the client's shared pointer: the client stays in `held` for
ever, as nobody deletes agents. `AgentConnected` writes the bind's message back,
`AgentEnded` closes the client with `close(nullptr)`. A message cut before its command
leaves `command` uninitialised, which is a bind or is not. `unpack()`, here and in `UdpProxy`,
does not test the msgpack type of a field and takes `via.str` of whatever it is
(`tcp_proxy.cpp:84,90`, `udp_proxy.cpp:78,84`): a field that is no string is a wild pointer,
undefined behaviour that has no outcome to model, and left out. The other commands, 0x01 to 0x04,
are named in a comment and ignored by the code; what comes for them is `ReadData`.
`echoed` is history.

### UdpProxy

A step is one datagram received with everything its callback does. `Forward` is
`UdpProxy::forward()`: `unpack()`, `get_agent()` for the sender's address and what `unpack()`
returned, `send_to_server()`; `AgentReceive` the callback
of an agent. A session's key stands for its agent and for its agent's socket, whose
address is the key again. Where a datagram goes is a matter of its address alone: clients,
servers and the proxy may be on one host, as they are in `src/tests`, a client may be named
as somebody's server, and a request may name the proxy itself (`FrontAddr`), which then
takes what the agent sends for a request of that agent's. `of` is history: the requests a datagram
was sent for, more than one if it went through the proxy more than once.
`Address` is what `SocketAddr` makes of an ip and a port: the
port is cut to 16 bits (`PortRange`), and a text that is no address becomes 0.0.0.0, which
leads to the machine itself (`Local`). `Unpacked` is what `unpack()` can return for a
datagram that is no request, with a port the code never set. A descriptor is taken when
an agent first reads (`ReadingNew`); past `MaxSockets` that fails, and nobody looks. `net`
holds the datagrams on their way, `Received` lets one stay as a duplicate and `Lose` takes one.
Left out: fields of another msgpack type than expected (see `TcpProxy`), and a request that
names the port an agent's socket happens to have.

### Program

`mode` is what the options say; the steps are those of the proxy that was started, and
the loop runs once there is something to wait for.

### PacketStream

`Send` packs, `Arrive` appends any piece of what is on its way to the buffer,
`ReadPacket` calls `read_from_buffer()`, and each round of its loop is one of
`ReturnNothing`, `SkipByte`, `TakePacket`. `data` is the local string, which
`read_buffer_n()` appends to, or leaves alone when there is not enough. A byte has
`ByteBase` values, 256 in the code; sizes have two bytes and wrap like `uint16_t`. With four
values sizes and payloads collide with head and end bytes all the time. Nothing in
the library calls `append()`: the user does so in his message callback.

### Trie

A node is the path to it. `Pruned` states what the recursion of `deletion()` deletes on its
way back: the part of the path below which there is nothing but the path and no other
key. The root may go too, as in the code, and is made anew (`Renew`). `Search` follows
the loop: the longest prefix that exists, then the wildcard below it.

## 3. Runs

| Run | Bounds | What it shows |
|---|---|---|
| `event_loop` | 2 threads that post 2 times each after the first start, 2 posts of the loop thread, 2 runs of the loop | no overlap, no lost wake-up or callback, `uv_async_send()` meets only live handles until `stop()`, the executor of `SerialExecutor` is implemented |
| `write_in_loop` | 1 thread and the loop thread, 2 writes each, 1 run, 1 connection | one answer for each write, order of what is sent; writes are answered; `stop()` ends the loop |
| `timer_wheel` | 2 values, timeouts 0..4, the wheel's Timer and another, 2 closes | in bounds, an exact idle timeout; no use of a freed handle, no tick after `close()`; closes are answered, idle values are let go |
| `tcp_server` | 2 connections, 2 names, timeout 2, closes through the server and on the connection | ownership, valid map entries, one report per connection, idle close on time |
| `tcp_server_live` | 2 connections, 1 name, timeout 1 | what lost its peer leaves the map; a closed server empties it |
| `tcp_server_reuse` | violation | see findings |
| `tcp_client` | 2 sockets, 2 closes at any time, a user who goes by what the loop tells him | owners of handles, a `connect()` is a `ClientLink`; connects, losses and closes are answered |
| `tcp_client_early` | violation | see findings |
| `program` | TCP: 2 clients, 1 name, 2 agents. UDP: 2 clients and a server on one host, the proxy where 0.0.0.0 leads, a port text of 3 in a range of 3, 2 sockets, 2 datagrams in flight | agents' callbacks meet live clients, stale map entries only by an agent; binds are answered, no client outlives its agent's connection; replies find who asked, repeated requests are answered |
| `packet_stream` | 3 units of up to 15 bytes, 4-valued bytes, every fragmentation | what is read is what was packed, in order, and every packet is read |
| `packet_stream_corrupt` | violation | see findings |
| `trie` | keys up to 2 characters of 3 | no stray nodes, search by keys, a set of keys |

Why the bounds are enough. Two posting threads and the loop thread give each pair
of critical sections every order, and with two posts a thread can find its earlier
post in the queue, in the batch, running or done. One thread and the loop's own are
enough for writes, as writers meet only in the queue. Two runs cover a loop that ran
`UV_RUN_NOWAIT` and starts again, with and without `stop()` in between.
The wheel treats values alike; with timeouts to 4 the index takes all of its
cases, first, inner, last and wrap-around, and a timeout of 1 has them in one slot.
Two connections under one name let one follow the other, under
two names they interfere only through the server. `TcpServer` has no counter to
bound: `reported` and `idle` are bounded by the behaviour itself.
Two sockets let a `TcpClient` replace one of each state by one of each state.
UDP: both clients share the host with the server, so only ports tell them apart; the one
port text overflows to a port of its own, 0, and with the address of `""` leads to the proxy
itself, so that a session's agent may be the client of the next; with two sockets the third
session finds no descriptor. Two datagrams in flight are enough for a reply to overtake another and for a
duplicate; a second port text or a third datagram takes the run past five minutes.
More clients, servers and ports than these are the matter of `RoutedHolds`.

`CHECK_DEADLOCK FALSE` is set only for `EventLoop` and `LoopWrite`, which really comes to rest: a loop
that has stopped and threads that have made their posts.
Symmetry is used in runs without liveness; `SerialExecutor` treats threads alike too,
so it is sound for the refinement.

Fairness. `LoopWrite`: weak fairness of each thread's and the loop's own
steps (threads are scheduled, user callbacks return); nobody has to post, run or stop.
`TcpServer`: the loop turns (`WF` of `LoopStep`) and libuv calls every close callback of
a closing phase (`WF` of `FinishConnection`). The one-second timer comes round and
poll is level triggered, so each of `Tick`, `ReadEof`, `ReadError` and `ShutdownDone`
happens if it is possible again and again (`SF`), whatever else the loop
is busy with. No fairness for peers, for the user, or for pending writes: a peer need
not read.
`TcpClient`: the same, and a pending connect comes to an end (`SF`; the kernel's timeout).
`TimedWheel`: the loop goes through its phases, close callbacks of a phase are called, and
a timer that is armed is due in the end.
`TcpProxy`: as `TcpServer`, without a tick as no timeout is set; a pending agent is connected or
fails (`SF`), which is `ConnectAnswered` of `TcpClient`. An agent's link need not end.
`UdpProxy`: for each request, what is sent again and again gets through at last, at each
of the four hops (`SF`); nobody has to ask, and unreadable datagrams have no fairness.
`PacketStream`: bytes arrive and the user calls `read_packet()` again and again.

## 4. Theorems

Each theorem holds for every value of the constants that its module's `ASSUME`s and its own
hypotheses allow. All safety properties of the runs are proved: each invariant, each action property and
each refinement of a passing run is the `property` of a theorem.

### What the hypotheses say, and why they are there

| Hypothesis | In | What it asks | Why |
|---|---|---|---|
| `~PostBeforeStart` | `SendsOnLiveHandle` itself | no other thread posts before the first `Started`; between runs they may | a rule of use: `run_in_this_loop()` does not test for it, and `async_` is there before `init()` |
| `~MayReconfigure` | the wheel's refinement, the wheel's types; `InBounds` itself | `set_timeout()` is not called after `start()` | a rule of use: it sets `timeoutSec_` and leaves the vector as it is (`timer_wheel.h:47`). `TcpServer::listen()` starts the wheel, so it is called before |
| `Disciplined`: `~CloseTwice` | `TcpServerProofs` but for types | no `close_connection()` while a close is under way, whoever began it | its completion runs at once (`tcp_connection.cpp:89`), and `HandleOutlivesLibuv` fails; a user can keep to it for his own closes only |
| `Disciplined`: `~PortReuse`; `~PortReuse` | the same; `ProgramProofs` | no peer comes back under a name the map still has | `map::insert` keeps the old entry; run `tcp_server_reuse` has the counterexample. The program itself does not need `~CloseTwice`: `TcpProxy` never calls `close_connection()` |
| `~ActsAtOnce` | `TcpClientProofs` | the user does not take an answer that comes before `close()` returns for the end; he acts on every other at once | run `tcp_client_early` has the counterexample |
| `AddressAssumption` | `Program`, UDP | no client has the address the proxy is bound to, and `""` is no server's address | two sockets cannot be bound to one address; `uv_ip4_addr()` reads the one and not the other |
| `Regular` | `PacketStreamProofs` but for types | no end byte is damaged, noise has no head byte, no payload is longer than 65531 bytes | run `packet_stream_corrupt` has the counterexample for the first; `msgsize` wraps at the last (see 5) |

### `EventLoopProofs`: any threads, posts and runs

* `TypeCorrect`, `LoopExclusiveHolds` (a callback run inline after the loop stopped never
  overlaps one of the loop) and `WakeupNotLostHolds` (a queued callback has its wake-up
  while the handle is open), from `IInv`. It adds to the two properties `Posted` (who
  runs or queues a callback has counted it, so that it is a `Task`), `Draining` (the
  running callback is at the front of the batch, so `Tail` is defined), and
  `InlineAfterStop`. The last is what exclusion rests on: a thread is `inline` only
  after it read `Stopped`, `Stopped` is set only after `uv_run()` has returned and never
  goes back, so the loop thread is then outside of `drain` for good. The wake-up is
  preserved because a post pushes before it signals and libuv clears the flag before
  `process()` takes the queue.
* `SendsOnLiveHandleHolds`, from `Registered`: the handle is raw only while the loop thread is in
  `init()`, in the first run and before the first `Started`, and no thread is in the middle
of a post then.
* `NoneLostHolds`, from `Accounted`: `process()` swaps an empty batch, and a callback leaves the
  batch, or the thread that runs it inline, only when it has been executed.
* `ImplementsExecutorHolds`: the loop is a `SerialExecutor`. `OrderInv` says that what is in the
  batch was posted before what is in the queue (`QueueOrder`), that only what was posted is in
  either or has run (`InPast`), and that while the loop can still run it, what waits has not run and is newer than all that ran of its
  thread, the loop's own thread apart, which runs its callbacks inline (`NotYet`). `NotYet` stops at `Stopped`: from then on
  later callbacks run inline past those left in the queue, which never run, since the
  wake-up handle is gone (`Shut`). So a step that begins a callback finds it in turn.
* `AnsweredOnceHolds` and `SentInOrderHolds` of `LoopWrite`, from the same invariants and `WriteInv`:
  what `uv_write()` was given, or has been answered, is of the past (`Past`), in no
  queue but as the callback at hand, so that it does not come to `uv_write()` again.

### `TimerWheelProofs`, `TimedWheelProofs`: any values, timeout, Timers, closes

* `TypeCorrect` and `InBoundsHolds`, from `Ring`: the vector has a slot per second
  of the timeout and `index_` is below it.
* `ImplementsIdleTimeoutHolds`: the ring is an exact idle timeout. The age of a value is how
  far `index_` is past its youngest slot (`AgeIs`, `SlotAgeIs`). A tick ages
  each slot by one but the oldest, which it clears (`SlotAgeTick`), and an insert makes
  the age zero in whatever older slots the value still is.
* `UseIsSafeHolds` and `NoTickAfterCloseHolds` of `Timer`, for the Timers beside the wheel: the
  handle tells how many answers are missing, one as long as libuv has it
  and none once it is freed (`Counted`), and a user who counts them cannot call too late.
* `TimedWheelIsWheel`: a step of the wheel turned by its Timer is one of the wheel or leaves
  it alone. With it the two theorems of the wheel carry over.

### `TcpServerProofs`: any connections, names and timeout

* `TypeCorrect`, with no hypothesis.
* `HandleOutlivesLibuvHolds`, `AttachedIsOpenHolds`, `ReportedOnceHolds`, from `Ownership`: the map
  has a connection under its own name (`MapByName`) and has it as long as libuv has its
  handle (`OwnedByMap`). `AttachedIsOpen` and `ReportedOnce` are part of it: the close
  completion takes a name out of the map, and only what these say about who may call it tells
  that the entry is not another connection's.
* `IdleClosedOnTimeHolds`, an action property. `Watched` ties the wheel to the history `idle`:
  what may still be closed is in the wheel, and its age there is `idle`. The lemmas of
  `TimerWheelProofs` do the rest, by `INSTANCE`.

### `TcpClientProofs`: any sockets and calls of `close()`

* `TypeCorrect`, `HandleOutlivesLibuvHolds`, `AttachedIsCurrentHolds`, `AnsweredOnceHolds`. None is
  inductive. `Stands` lists the eight ways a socket can stand (`Fresh`, `Up`, `Failing`,
  `Losing`, `Silencing`, `Failed`, `Lost`, `Over`); each fixes the handle, what the
  close callback will call, what the user was told, and whether the socket is `connection_`.
  `OverIsClosed` is the heart of it: when the user has been told that it is over, no socket
  is left that libuv has. It holds because a failure, an end and a `close()` are told from the
  close callback, and a callback told at once comes where another is still to come.
  `OneLink` says that libuv knows no socket but the client's own, `Answers` how often a
  `close()` can have been answered when its socket is still closing.
* `ImplementsLinkHolds`: to the user a `connect()` is a `ClientLink`. Each step moves one socket from
  one of the eight to another, or none. The proof showed that two arms of the mapping's `CASE`
  overlapped; they are apart now (`Unheard`).

### `ProgramProofs`: both proxies, for any agents, clients, servers, datagrams

* `RoutedHolds`, `UdpTypeCorrect`. Nothing is assumed about who shares a host with whom. The
  invariant `UdpInv` says that a datagram is on one of the four ways of the last of its requests
  (`OnItsWay`): to the proxy, to the server, to the agent, to whoever asked. A reply carries its request
  back to the agent, which is the one of the request's key, so the way back leads to
  its client. `Chain` says who that is: a client for the first request, for each other the agent of
  the one before. `KeysApart` keeps an agent from being its own client, so that it can tell
  an answer to it from one to itself.
* `CallbackOnLiveClientHolds`, `StaleEntryByAgentHolds`, from `ProxyInv`: an agent that may still
  call back holds its client, and a connection that is closing without the server's
  completion (`Bypassed`) was closed by an agent that has ended. Only `AgentEnded` makes
  one; that the server's steps make none, and keep `Ownership`, is `ServerStepKeeps`.

### `PacketStreamProofs`: any payloads, bytes and number of packets

* `TypeCorrect`, with no hypothesis.
* `InOrderHolds`, `WellFormedHolds`. What is in the buffer and on the wire is one
  stream, and `Faithful` says that the packets not yet read lie in it, in order, one after the
  other, with no head byte outside (`Laid`). Where each begins is a function, `at`, which
  exists; sending extends it (`LaidMore`, `LaidNoise`), reading shifts it (`LaidShift`).
  The invariant is not about rounds that began in a wrong place because there are none: a head byte in
  front is the next packet's (`LaidFront`), its two bytes of size are those of its
  payload (`PackedNumber`), and `TakenIsNext` puts the packet together as `TakePacket` does.

### `TrieProofs`: any alphabet and length of keys

* `TypeCorrect`, `NoStrayNodesHolds`, `ImplementsKeySetHolds` (a refinement). The
  invariant says that the nodes are closed under prefixes and that each but the root
  has a key at or below it. `PrunedAreFree`, that `deletion()` takes no node on the path
  of another key, carries both the invariant and the refinement.
* `SearchByKeysHolds`: `search()` goes to the longest prefix that is a node (`StopIsLast`), and what is a node is
  decided by the keys (`NodeIsNeeded`), so that what was deleted before leaves no trace.

### Model-checked only

All liveness (`StopTerminates`, `WriteAnswered`, `CloseAnswered`, `IdleIsLetGo`, `GoneIsRemoved`,
`ServerCloseDrains`, `ConnectAnswered`, `LossTold`, `BindAnswered`, `EndsWithAgent`, `Answered`,
`AllReceived`) depends on fairness, with which `ENABLED` comes in, and is out of the
prover's reach. `ImplementsLink` says what a `TcpClient` never does; that a `connect()` is
answered is `ConnectAnswered`. The abstract wheel `IdleTimeout`, `SerialExecutor`, `ClientLink` and
`KeySet` have no fairness of their own, so their refinements are proved in full. No
recursive definition is left to prove anything about: `TrieProofs` and `PacketStreamProofs` go by
positions in a sequence in place of induction over it.

## 5. Findings

* **`tcp_server_reuse`** (`tcp_server.cpp:133`). `map::insert` keeps an entry there is. A
  peer that comes back from the same address and port before the old connection has
  left the map gets a `TcpConnection` nobody owns; it is deleted, with an open handle,
  when `on_accept()` returns. The comment at `tcp_connection.cpp:84` says that deleting a
  closing handle makes the program exit abnormally.
* **`tcp_client_early`** (`tcp_client.cpp:97`). `close()` while the connect is pending, or
  after it was refused, has no connection to close and calls back at once. The connect
  goes on. Connecting again, or deleting the client, then frees the `uv_tcp_t`
  (and `connect_`) under libuv. Same comment. `close()` of an established connection has the
  same effect when it comes right after the peer has ended it: the handle is closing, and
  `tcp_connection.cpp:89` calls back at once, and once more later. TLC shows that with
  `CloseEarly = FALSE` in this run's cfg.
* **`packet_stream_corrupt`** (`packet.cpp:41`). After a wrong end byte `data` keeps
  the old header. What follows is appended, taken by the old size and may be
  delivered as one packet, longer than its size field: `packet.h:9-10` draws N bytes.

Not counted as findings, since no text of the repository promises otherwise:

* Without `set_timeout()`, a half-closed connection whose peer does not read what it
  was sent is never removed: `uv_shutdown()` does not complete. `GoneIsRemoved`
  therefore asks for a timeout in that case.
* `EventLoop::run_no_wait()` after a `stop()` makes the loop look not started, with a
  dangling `handle_`; later posts use it. `SendsOnLiveHandle` allows that.
* `conn->close(nullptr)` replaces the completion of a `close_connection()` under way;
  the map then keeps a closed connection. `ReportedOnce` allows that.
* A callback queued while `stop()` is under way stays in `callbacks_` for ever.
* `close_connection()` of a connection that is being closed finds `uv_is_closing()`
  true and completes at once (`tcp_connection.cpp:89`): the map drops the connection and the
  `uv_tcp_t` is deleted while libuv still has to finish it. With `CloseTwice = TRUE` TLC finds
  `HandleOutlivesLibuv` of run `tcp_server` violated: after a close of the user's own,
  or, with no fault of his, after `TcpServer::close()`, the wheel or a read error has begun one.
* A write that libuv has when the loop stops, or that a thread makes on its own after that,
  is never answered: nobody runs the loop that would call back. `WriteAnswered` allows that.
  A null callback is tested everywhere but in the lambda of `write_in_loop()` for a connection
  that is gone (`tcp_connection.cpp:143`).
* `TimerWheel` never closes `timer_`, and `~Timer()` leaves the handle to libuv
  (`timer.cpp:17`): a `TcpServer` deleted while its loop goes on leaves a timer that calls a
  wheel that is gone. `TimedWheel` keeps the wheel.
* A Timer whose `close()` was called in the tick after its last answer tests a deleted handle
  (`timer.cpp:33`). `UseIsSafe` therefore asks for a user that counts the answers.
* Several binds that come in one read are one: `unpack()` of `TcpProxy` keeps the first four
  fields. An agent whose `uv_tcp_connect()` fails at once is never told of, and its client
  waits for ever: an exception in `BindAnswered`.
* A client of `TcpProxy` that half closes while something written to it is unread is not
  closed, as the proxy has no timeout: the other exception in `BindAnswered`.
* `session_` of `TcpProxy` is written and never read; a late agent may enter itself under a
  name that is another client's by now.
* `UdpSocket::send()` gives libuv a pointer into the caller's string. When the socket
  cannot take the datagram at once the string is gone by the time it is sent. The bytes of a datagram are
  outside the model.
* Past the limit of descriptors a UDP session is made all the same and stays mute for ever,
  even when descriptors are free again: the exception in `Answered`.
* `LogWriter::write()` drops `Fatal`, which is above `Error` (`log_writer.cpp:29`), and
  `get_level_name()` lets in an index one past the names (`log_writer.cpp:93`).
* The end of a client never ends its `TcpAgent`: the connection to the real server stays
  until that server ends it. `EndsWithAgent` is about the other direction.
* `msgsize` of `read_from_buffer()` (`packet.cpp:33`) wraps for the four largest sizes, so an
  incomplete packet of 65532 bytes or more looks complete, its header is thrown away and
  the packet is lost. `Longest` of `MCPacketStream` stops short of these sizes; with a longer
  payload `AllReceived` fails.
* `TcpClient::connect()` does not look at the result of `uv_tcp_connect()`; if that fails at
  once, nobody is told. `ConnectAnswered` speaks of connects that were accepted.
* When `TcpClient::close()` is called twice while the handle closes, the second
  callback runs twice and the first one never: `CloseAnswered`, `AnsweredOnce`.
* `Trie::search()` looks for the wildcard only where the key leaves the trie. With rules
  `*.baidu.com` and `w.x.baidu.com`, `y.x.baidu.com` is not found. `SearchByKeys` states the
  rule the code follows.

## 6. Plan

Every component with a behaviour of its own is modelled now. What is left, in this order:

1. Theorems: what the user of a `TcpServer` with `CloseTwice` can still rely on; `NoneLost` of
   the writes a `LoopWrite` leaves behind.
2. `TcpServer`: a record of which callback a second `TcpAcceptor::close()` leaves to be called, and
   a `listen()` that fails.
3. `UdpSocket::close()`, once something calls it.

## 7. Not modelled

* `LogWriter`, `logger.h`: output; nothing depends on it.
* `GlobalConfig`, `ae.h`, `assistant.h`: constants, aliases and macros. The default is
  `NoBuffer`; `PacketStream` models the buffer as the user of `ListBuffer` has it.
* The options' and the configuration's text, the printed and hashed forms of `SocketAddr`, IPv6.
* What libuv does when it is used from two threads: `stop()` off the loop thread, inline
  writes of several threads after the loop has stopped, the map of `TcpServer` read by a thread.
* The contents of messages, but for the packet format; memory that is leaked.
* `src/tests` are programs of their own, run by hand; `src/docs` is drawn from the headers.
