# TLA+ verification of TCPSHM

TCPSHM is a C++ header library for persistent, connection-oriented message
queues over TCP or shared memory. This directory holds TLA+ models of it, the
TLC configurations that check them on small instances, and TLAPS proofs, for
every size, about the send queue, the session over it, the shared memory ring,
the server's connection slots and the two example programs. `PROJECT.json` lists the runs, the source lines behind every
definition, the hazards the properties are aimed at, and the findings.

## 1. The system

| Part | State | Operations | Modelled in |
|---|---|---|---|
| `PTCPQueue` (`ptcp_queue.h`) | `blk_`, `read_idx_ <= send_idx_ <= write_idx_`, `read_seq_num_`, `ack_seq_num_`, all in an mmap-ed file | Alloc, Push, GetSendable, Sendout, Ack, LoginAck, MyAck, SanityCheckAndGetSeq | `PTCPQueue` |
| `MsgHeader`, `Endian` (`msg_header.h`) | none | byte order conversion | `PTCPQueue` (size field) |
| `PTCPConnection` (`ptcp_conn.h`) | socket, receive buffer and its indices, clocks, the queue | Open, Push, SendPending, SendHB, Front, Pop, Close, TryCloseFd, Reset | `PTCPSession`, `RecvBuf`, `EchoFlow` |
| `SPSCVarQueue` (`spsc_varq.h`) | ring of 64-byte blocks, `write_idx`, `write_idx_atom`, `read_idx_cach`, `read_idx`, in shared memory | Alloc, Push, Front, Pop | `SPSCVarQueue` |
| `TcpShmConnection` (`tcpshm_conn.h`) | the two names, one `PTCPConnection`, two rings | dispatch to TCP or SHM, OpenFile, Reset, Release | TCP branch in `PTCPSession`, SHM branch in `ShmLogin` |
| `TcpShmClient` (`tcpshm_client.h`) | `.lastserver` file, one connection | Connect (login), PollTcp, PollShm, Stop | `PTCPSession` (TCP), `ShmLogin` (SHM) |
| `TcpShmServer` (`tcpshm_server.h`) | new connections, groups of connection slots with `live_cnt` | PollCtl, HandleLogin, PollTcp, PollShm, Stop | `Server`, login in `PTCPSession` and `ShmLogin` |
| `my_mmap` (`mmap.h`) | none | system calls | what its callers rely on, in `ShmLogin` |
| `test/` | `send_num`, `recv_num` | a client that pushes as fast as it can, a server that echoes | `EchoFlow` |
| `crypto_market_example/` | `active_connections`, `total_sent`, `recv_num` | a thread that sends numbered data to every client, clients that check the numbers | `Market` |

How the parts interact. A user writes with Alloc and Push. Over TCP the message
goes to the connection's `PTCPQueue` and as much as possible of the queue to the
socket; it stays in the queue until a header from the peer acknowledges it. The
peer's Front cuts the stream into messages; Pop counts the message as consumed,
and that count travels back in the header of the next message or heartbeat.
After a disconnection the client logs in again: both ends exchange the range of
sequence numbers in their queue and what they have consumed, the server checks
that they fit (`CheckAckInQueue`), and both send again what the other has not
consumed. Over SHM messages go through two `SPSCVarQueue`s and TCP carries
heartbeats only.

What is hard, and what makes each part correct:

* `PTCPQueue`: blocks are moved while three indices refer to them, `Ack` walks
  headers without a bound, numbers wrap, and the process can die at any store.
  Correct: the window always holds the unacknowledged messages, whole and in
  order, and the file can be resumed.
* connection and login: partial sends, messages cut off by a disconnection,
  abandoned logins that the server still handles, restarts of either side.
  Correct: exactly-once, in-order delivery; logins always fit together;
  recovery needs no help.
* `SPSCVarQueue`: two processes without a lock, a stale copy of the other's
  index, rewinding with padding. Correct: the reader holds whole messages in
  order and the writer never touches them; nobody waits forever.
* receive buffer: bytes arrive in any portions, are compacted and moved to a
  larger buffer, and headers are converted in place. Correct: the stream comes
  out as it was sent, each header is converted once, nothing gets stuck.
* flow control: an acknowledgement travels behind the messages it must make
  room for, through bounded sockets and a bounded buffer. Correct: a full queue
  always empties again.
* SHM logins and the market example: rings outlive processes and are reset by
  either end, while a third thread works through a copy of the connection list.
  Correct: a client gets every number once, unless for a reason one can name.
* server: the control thread changes slots and connections under the polling
  threads without a lock. Correct: a name has one connection, live ones come
  first, ended ones are released, and a connection is in one thread's hands.

## 2. Modules

| Module | What it is |
|---|---|
| `SeqNumbers` | `uint32_t` numbers that wrap at `2 * HalfSeq`, differences cast to `int` |
| `PTCPQueue` | the send queue, one action per store; its properties; the refinement mapping to `SendWindow`; the inductive invariant `IInv` |
| `SendWindow` | the abstract send window: its messages and the next block to send, nothing else |
| `MCPTCPQueue` | `PTCPQueue` for TLC |
| `SeqNumbersProofs` | lemmas about remainders and wrapping differences, used by the proofs below |
| `PTCPQueueProofs` | the TLAPS proofs about `PTCPQueue` |
| `PTCPSession`, `MCPTCPSession` | client and server over any number of TCP connections |
| `PTCPSessionProofs` | its inductive invariant and the TLAPS proofs |
| `SPSCVarQueue`, `MCSPSCVarQueue` | the shared memory ring, one action per shared access |
| `SPSCVarQueueProofs` | its inductive invariant and the TLAPS proofs |
| `RecvBuf`, `MCRecvBuf` | the receive buffer of a connection: Front, DoRecv, Pop |
| `RecvBufProofs` | its inductive invariant and the TLAPS proofs |
| `Server`, `MCServer` | a group of server connections and the two threads that share it; `IInv` |
| `ServerProofs` | the TLAPS proofs about `Server` |
| `EchoFlow`, `MCEchoFlow` | the echo client and server with bounded queues, buffers and sockets |
| `EchoFlowProofs` | its inductive invariant and the TLAPS proofs |
| `ShmLogin` | logins, disconnections and restarts in SHM mode, and the ring they reset |
| `Market`, `MCMarket` | the market data example on top of `ShmLogin` |
| `MarketProofs` | its inductive invariant and the TLAPS proofs |

Definitions named `...Bug` are faulty variants of the operation that follows
them (a dropped guard, an off-by-one, a forgotten reset). They are used by no
specification; putting one in place of its operation breaks the property named
for it under `mutants` in `PROJECT.json`.

### PTCPQueue

Variables carry the names of the fields. `pc` says which store of the call in
progress comes next, so a call is a sequence of steps and the calls of the one
owning thread never overlap; a crash can come between any two. A cell of `blk_`
records which block of which message it holds instead of bytes, and for a header
its `size`, `ack_seq` and byte order. Sizes are converted by swapping bytes when
they are read in the wrong order: the model is of the configuration in which
`Endian::Convert` swaps, where a forgotten conversion shows. The environment:

* Alloc is followed by Push before the owning thread polls again, as the
  interface asks; Alloc may also be repeated or fail. Pop may come in between
  (the echo server calls Alloc, Pop, Push).
* A running connection acknowledges only messages that were sent completely, a
  login any in the queue. That this holds is checked in `PTCPSession`
  (`AckSafe`, `CheckAckInQueue`).
* Old and repeated acks of up to half the number space arrive at any time.
* A death of the process keeps every store made so far: mapped memory outlives
  it (the README of the library excludes power loss). `Death` is one between two
  calls, in Alloc or Push before they store an index, or in the Ack of a running
  connection between two iterations or before its last three stores
  (`Untouched`); nothing has to be repaired after it. `Crash` is one anywhere
  else: memmove may have moved any prefix of the blocks, and Reset may have
  zeroed any prefix of the object, blocks first and then the indices in the
  order of their addresses (`ResetUpTo`). `Spec` has no deaths, `DeathSpec` has
  `Death`, `CrashSpec` has both.

`AckLead` bounds the messages received while one waits for its ack: 2^31 of them
would make `SanityCheckAndGetSeq` reject the file. `MaxMsgs` bounds the messages
between two Resets.

### PTCPSession

The queue is the one of `PTCPQueue` seen between calls, as a sequence of
messages. A message is two blocks, header and body, and a heartbeat one, so that
a stream can end inside a message. Everything one poll does (SendHB, DoRecv,
Front, the handler's Pop, TryCloseFd) is an action that the other end's actions
interleave with. The socket takes none, some or all of what is pending; an
error in `send` closes the connection without advancing `send_idx_`, whatever
has gone out. `logins` are login messages that the server has not handled: one
whose client has given up is still there (`mine = FALSE`), and the answer to it,
or the whole opened connection, then leads nowhere. `opened` says that the user
can push, with or without a live connection. `q` and `last_server` are files and
survive `Crash`; everything else of the process is lost. Faults of all kinds
share the bound `MaxFaults`, and the messages that the two ends push, in
whatever shares, the bound `MaxMsgs`. `MaxMsgs <= HalfSeq` stands for what the
code takes for granted: a message keeps the ack of its Push for as long as it is
queued, and is sent again with it after a login, so an ack of any age must still
compare as older (`ptcp_queue.h:55`). With `uint32_t` numbers that means fewer
than 2^31 messages consumed while one waits for its own ack.

`Pop` in state `closing` covers the poll in which SendHB has just failed and
Front still returns what is in the buffer. Deaths are between calls here; deaths
inside a call are in `PTCPQueue`. The receive buffer has no bound, and the
number space is small (6) so that numbers wrap within two messages.

### SPSCVarQueue

Each access to memory the two processes share is a step of the writer (`wpc`) or
of the reader (`rpc`). Indices are published with release and loaded with
acquire, except read_idx in Front's rewind, which is relaxed: it gives back only
the padding, which the reader has finished with on the processors the library is
built for (x86 does not reorder a load with a later store). Locals are set to 0
when their call ends. Message ids of the history wrap at `Ids`, more than the
ring can hold, so the model has no bound on its length and the indices go round
the whole number space.

`BLK_CNT < HalfSeq` is true of any ring (2^31 blocks of 64 bytes). `EmptyAlloc` is
about messages of `n` blocks with `2 * n <= BLK_CNT + 1`. A longer one that meets
the end of the ring is refused even when everything has been popped, because the
padding counts as used (`spsc_varq.h:21`), until a shorter one is written; a
`UserSizes` of `{0, 121}` in `SPSCVarQueue_live.cfg` shows it.

### RecvBuf

Bytes are counted in units of four, so a header (`HDR = 2`) can arrive in two
reads. A cell of the buffer says which unit of which message it holds; a header
also has its length, kind and byte order, and a length read in the wrong order
is wrong. `Live` forgets what lies outside `readidx_ .. writeidx_ - 1`, which no
operation reads again. Each call is one step, because one thread makes them;
`read` and `readv` return any number of units up to what there is room for.
`fresh` is `last_my_ack_ # MyAck()`, by which Front tells a new message from one
that was returned and not popped. Connections that break are replaced by `Open`
at any moment; the stream then starts again at the first message not popped, as
`PTCPSession` shows (`Framing`, `ExactlyOnce`). `NeverStuck` is the reason why a
stream goes on: as long as no complete message waits to be popped, DoRecv has
room to read. Front's loop is `Visited`, the indices it comes by, as a recursive
function; what it converts, and where `nextmsg_idx_` ends, is read off that set
(`Parsed`). The allocation by `Open` of a
buffer of `TcpRecvBufInitSize` is in Init, since it happens once. Over shared
memory Front ignores what it reads; that branch has no state to model.

### Server

One group of TCP connections, the control thread in PollCtl (`cpc`) and the
polling thread in PollTcp (`ppc`). Every access to `conns`, `live_cnt`,
`sockfd_` and `fd_to_close_` is a step, `std::swap` is its two stores after the
change of `live_cnt`, and the polling thread may go on with the value of
`live_cnt` it has read, as the compiler is free to. `HandleLogin` is a step up
to Open: it touches only what no other thread uses; its failures (files, sequence
numbers, the answer not sent) end alike, with the name kept in the slot. A
connection can be closed at any moment, since RequestClose may be called by any
thread. What a visit does to the queue is left to the other modules.

### EchoFlow

One lasting TCP connection between the programs of `test/`, in fast mode. The
variables are the queue (`acked`, `msgs`, `out`), what each end has popped
(`my_ack`), the sockets of each direction (`chan`, at most `SockSize` units) and
the receive buffer (`buf`). A message is two units and carries the ack of the
moment it was pushed, a heartbeat is one. `pc` gives the order of each loop:
PollNum, then TcpFront with SendHB and Front; whether a heartbeat is due is left
open. Front acknowledges from every header it reads, including those behind a
message it has returned and the handler has not popped. OnClientMsg returns
without Pop when Alloc fails; otherwise Alloc, Pop and Push are one step, since
no one else touches the queue. The client's buffer has no bound because its
handler always pops.

`NeverBlocked` needs the server's queue to be larger than the client's, as the
comment in `test/echo_server.cpp:22` asks; then it holds for all sizes of the
sockets and of the receive buffer (`EchoFlowProofs`). For smaller ones the comment expects
that "ack_seq can only be sent through HB which is slow". It is worse: with
`ClientQueue = 3` and `ServerQueue = 1` in `EchoFlow.cfg` (and with equal
queues too) TLC finds states in which the server's queue and its receive buffer
are both full. From there DoRecv returns at `ptcp_conn.h:273`, before it reads
anything and before it looks at the timeout, so that not even a heartbeat's ack
is read, and the connection stands still for good.

### ShmLogin and Market

`ShmLogin` has the actions of the library in SHM mode, `Market` conjoins to each
the effect of the example's callback (`OnClientLogon`, `OnClientDisconnected`,
the counters that Run resets) and adds the publisher and the clients' handlers.
A ring is the sequence of its messages: what the accesses inside a call do is in
`SPSCVarQueue`. As in `PTCPSession`, a LoginMsg outlives the client that gave up
on it, and the server may accept it. A connection that PollCtl finds
disconnected is "closing" until the same thread closes it, in which the
publisher can look at it. `ServerEnd` and `ClientEnd` leave rings and
`.lastserver` alone: they are files.

The publisher's steps are the copy of the list, the check of IsClosed, Alloc and
Push; everything else may happen in between. A Reset between Alloc and Push
(`held`) zeroes the size of the block, and Push then adds nothing. Reset runs in
another thread or process than the publisher, so it may also fall between the
loads and stores of Alloc or Push; what the ring then holds is the message alone
or a block that no handler knows (`Torn`, `Junk`; it counts as a fault). `left` is
what a server that died in Push between `write_idx` and `write_idx_atom`
(`spsc_varq.h:41-42`) leaves to its successor, whose next Push publishes it with
its own message. A message is
its `instrument_id`, the number modulo `Pairs`. `lost` and `again` record the
reasons for which a client can be out of step:

* the number went to another client (each number goes to one connection), or to
  none, because the ring was full: `total_sent` counts it all the same;
* a ring with messages, or with an allocated block, was reset: at the first
  login the client does so after the server may have begun to send
  (`tcpshm_client.h:167`);
* the server was restarted after it had counted a message and numbers from 0
  again, or died in a Push and the next process publishes what it left behind;
* an earlier process of the client consumed messages. Run maps `recv_num` to a
  file "in case of program crash" and then sets it to 0, so such a client exits
  at the first message, does not pop it, and will exit again.

`InStep` says that there is no other reason, and `Completed` that a client to
which none applies gets all `MaxNum` messages. `MaxFaults` bounds timeouts of a
login, deaths, broken connections and Resets that tear a Push.

## 3. Runs

| Run | Checks | Instance |
|---|---|---|
| `queue_safety` | `TypeOK`, `IndexOrder`, `WindowIntact`, `ImplementsSendWindow` | 4 blocks; messages of 1, 2, 3 blocks: full, empty, moving, exact fit |
| `queue_wrap` | `FirstSeq`, `SanityCheckSound`, `ImplementsSendWindow` | 2 blocks, number space 6, 7 messages: numbers wrap; deaths that `DeathSpec` allows |
| `queue_crash` | `RecoveredSeqs`, **violated** | 3 blocks, death at any store (`CrashSpec`) |
| `session` | `TypeOK`, `ExactlyOnce`, `Framing`, `AckSafe`, `NoSeqMismatch`, `Retained`, `Recovers` | 3 messages, 2 faults, sockets of 2 blocks, numbers from 5 to the wrap at 6 |
| `session_first` | `Retained`, **violated** | the two ends have never talked before |
| `spsc_safety` | `TypeOK`, `InHand` | ring of 8, messages of 3 and 5 blocks (padding 1 to 3), index space 32, deaths |
| `spsc_live` | `EmptyAlloc`, `Progress` | ring of 4, messages of 1 and 2 blocks, index space 12 |
| `recvbuf` | `TypeOK`, `Stream`, `Converted`, `ClosedRightly`, `NeverStuck` | buffer of 2 to 5 headers, stack buffer of 3, messages that pad, that need enlargement, and one too large |
| `server_slots` | `TypeOK`, `LiveFirst`, `OneConnPerName`, `AcceptFree`, `Released` | 2 slots, 3 names, 2 connections not logged in |
| `server_thread` | `OneThread`, **violated** | 1 slot, 1 name, 1 connection not logged in |
| `echo_flow` | `TypeOK`, `NeverBlocked` | client queue of 2, server queue of 3, receive buffer of 2 messages, sockets of 2, 6 messages |
| `market` | `TypeOK`, `ActiveOnce`, `InStep`, `Completed` | 2 clients, each new or known, rings of 2, 3 numbers modulo 2, 1 fault |

Why the bounds are enough: the queue's behaviour depends on how a message's
blocks relate to the room left and to `read_idx_`, and with 1 to 3 blocks in 4
every such relation occurs; for the safety properties the proofs remove the
bound altogether. In the session, two faults allow a fault during the recovery
from another (for example an abandoned login and then a death), socket buffers
of one message allow partial sends, and three messages allow two in one
direction, one consumed while the other is cut off, and one that answers. A ring of 8 is the smallest in which a rewind skips
more than one block; in a ring of 4 padding is always one block. In `RecvBuf`
the sizes make every branch of DoRecv happen with a header or a message cut at
the end of the buffer, with reads that end in the buffer, fill it exactly, and
run over into the stack buffer. In
`Server` there is one name more than slots, so logins find their own slot, an
unused one or none, and the connection that ends is swapped with itself or with
the other live one. In `EchoFlow` six messages go three times round the client's
queue; a server queue of 4, a client queue of 3 with a server queue of 4, and
sockets of 3 give the same answers. In `Market` rings of two drop the third
number of a client that does not read, and one fault is enough for a login that
is handled after its client has gone, for a restart of either side, and for a
second login that resets the ring under the publisher's hands; with two faults
the invariants hold as well (6.3 million states, not kept as a run because
`Completed` takes too long there). `CHECK_DEADLOCK FALSE` is set in `Market.cfg`
only: when all numbers have been sent, clients without theirs wait for ever.

## 4. Fairness

Only the liveness runs use it. `PTCPSession`: both sides keep polling (the
library is polled in a loop, `test/echo_server.cpp`), handlers pop what they are
given, and the client calls Connect again after a disconnection. Each action of
a poll is weakly fair; nothing is assumed of Push, faults or the scheduling
between the two ends. Heartbeats need no clock for this: what matters is that
one is sent eventually when nothing else carries the ack. `SPSCVarQueue`: both
sides go on with a call they have begun; the writer's user retries every size
and pushes what it was given, and the reader's handler pops in the end (strong
fairness, since a handler may return without Pop and be called again).
`Server`: both threads keep polling, as the loops of `test/echo_server.cpp` do;
nothing is assumed of clients. `Market`: the publisher does not wait for anyone,
the control thread closes what it found disconnected, a client's threads handle
messages and notice a closed socket; nothing is assumed of logins.

## 5. Findings

* `queue_crash`: `Ack` moves `read_idx_` and `read_seq_num_` by two stores
  (`ptcp_queue.h:59-61`). A process that dies in between leaves a file that the
  sanity check accepts and whose messages are numbered one too low, against the
  README's "disconnects/crashes are tolerated".
* `session_first`: until the client has received its first LoginRsp its
  `.lastserver` is empty and each login makes the server Reset
  (`tcpshm_server.h:294`). When the first answer is lost after the server's user
  has pushed, the second login discards those messages. Once the first login has
  succeeded on both sides, `Retained` holds (`session`).
* `server_thread`: a login opens a connection, and the connection ends. Its slot
  counts as live until PollCtl has released it, so the polling thread enters
  TcpFront or the handler of it, before the close or after. While it is there the
  control thread closes the descriptor, takes the slot out of the live ones,
  accepts the client's next login and calls Open on the same connection
  (`tcpshm_server.h:329`), which resets the receive indices and the send position
  under that thread: nothing waits for the visit to end. `ptcp_conn.h:60` says
  "Single thread class except RequestClose()", and the comment at
  `tcpshm_server.h:172` takes into account only that a closed or swapped
  connection is visited. The instance has one slot, in which this is the only way
  for the two to meet. With two slots there is a shorter one: a login that fails
  leaves its name in the first slot, another client logs in on the second, and
  between `live_cnt++` and the swap the polling thread visits the connection in
  the first, which was never open; its client's next login then opens it.

## 6. Proofs

All proofs are for every value of the constants, under the assumptions named in
the modules that declare them, and each theorem states a property that a run
checks. Each invariant below marked `IInv` was first checked by TLC as an
invariant of the instances of section 3, then proved inductive with one lemma
per action.

### PTCPQueueProofs

For every `BLK_CNT`, every set of message sizes that fit in a `uint16_t` and
every number space with `BLK_CNT < HalfSeq` (`QueueAssumption`, `SizeAssumption`,
`BoundAssumption`): `TypeCorrect`, `IndicesOrdered` (`IndexOrder`),
`WindowStaysIntact` (`WindowIntact`), `FirstSeqKept` (`FirstSeq`),
`SanityCheckIsSound` (`SanityCheckSound`), `RefinesSendWindow`
(`ImplementsSendWindow`). They are theorems of `DeathSpec`, and so of `Spec`,
which allows less; the deaths of `CrashSpec`, inside memmove or Reset or between
stores that belong together, are not covered, and `queue_crash` refutes what one
would like to say of them. None of the first three properties is inductive. `IInv`
adds

* `IndexInv`: what the order of the indices is at each store inside a call, e.g.
  after the move shifted `write_idx_` and before it shifted `send_idx_`;
* `RoomInv`: the room Alloc has checked is still there at the store that uses
  it, and the cells of a message being written are as Alloc and Push left them;
* `AckInv`: the messages that Ack has still to drop are in the window and, on a
  running connection, sent completely (`SentId`), so `read_idx_` stops in time.

`WindowIntact` describes the window by a local condition on each header (its
message ends before the window does and the next header follows with the next
id), which the provers can shift, shorten and extend without induction.

`SanityCheckIsSound` needs two things more. `AcksInv`: the acks in the headers of
the window do not fall from one message to the next and are at most
`ack_seq_num_`, by which the walk accepts each header. And what `walk` returns:
a recursive function is defined by CHOOSE, so `WalkEquation` first shows that a
function with that equation exists (a partial one that covers all but the first
`k` indices can be extended by one more, and the smallest `k` is 0), and
`WalkCounts` that from any header it counts the messages up to `hi`: otherwise
there would be a last header from which it does not (`Smallest`), and the header
after it contradicts that. So the loop in the code ends on every window.

`RefinesSendWindow` maps each store to a step of `SendWindow` or to none: the
store of `write_idx_` in Push is `WPush`, of `read_idx_` in Ack `WAck`, of
`send_idx_` in Sendout `WSend`, and a move of the window, in which all three
indices and the blocks change, is none. `SendAt` says at which block the socket
is while the indices are only partly moved; `SendInv` bounds it inside Ack and
LoginAck, where `IndexInv` says nothing of a login that acknowledges more than
was sent.

### PTCPSessionProofs

For every capacity of queues and sockets, every number of faults and every
number to start from (`SessionAssumption`), between two ends that are in step
(`Established`): `TypeCorrect`, `DeliveredExactlyOnce` (`ExactlyOnce`),
`FramesKept` (`Framing`), `AcksWithinSent` (`AckSafe`), `LoginsInStep`
(`NoSeqMismatch`), `RetainedUntilPopped` (`Retained`). `Established` is needed:
without it `session_first` refutes `Retained`.

The argument counts the messages of an end, and the blocks it sends, without
wrapping: message `n` has number `Num(n)`, its header is block `2n` of the end's
stream and its body block `2n + 1`. The queue of the sender, the receive buffer
and the socket between them then hold adjacent pieces of one stream, and `IInv`
says which:

* `QueueInv`: the queue holds the messages from `First` on, with acks that are
  not newer than what its owner has popped, and the peer has popped none before
  `First` and none that is not pushed;
* `RecvInv`: the receive buffer continues where the user is;
* `ChanInv`: what is in the socket continues where the receive buffer ends, and,
  while the connection stands, reaches exactly to `send_idx_`. `Run` states this
  of a sequence of blocks through a function from places to positions, so that
  heartbeats take no position and no induction over the sequence is needed;
* `AcksInv`: an ack on its way is for messages that were popped, and sent on
  this connection or before it;
* `LoginInv`: the login of a waiting client carries its numbers as they still
  are, older ones carry older acks; when the server has answered, its answer and
  what it has already sent agree with what the client will resume from.

None of the six properties is inductive alone: `ExactlyOnce` depends on what the
socket holds, that on where `Open` resumes, that on both queues agreeing with the
login. TLC has checked `IInv` on an instance larger than the run's (three
faults, sockets of 3 blocks, 4.4 million states).

### SPSCVarQueueProofs

For every `BLK_CNT`, message sizes and width of the indices (`RingAssumption`),
with either process dying between any two accesses and restarting:
`TypeCorrect`, `MessageInHand` (`InHand`); without deaths `EmptyQueueHasRoom`
(`EmptyAlloc`, an action property). `IInv` says that there are positions, counted
without wrapping, of which the four indices are the remainders, with
`read_idx_cach <= read_idx <= write_idx_atom <= write_idx <= read_idx_cach +
BLK_CNT`, and that the blocks from `read_idx` to `write_idx` are a row of
messages and paddings (`Layout`). `InHand` alone is not inductive: it says
nothing of the messages after the one in hand, nor of what Alloc and Front have
found out between their accesses (`InAlloc`, `InFront`). As in `PTCPQueue` the
row is described by a condition on each start of an item.

### ServerProofs

For every number of slots, of connections not logged in and of names
(`ServerAssumption`): `TypeCorrect`, `LiveConnectionsFirst` (`LiveFirst`),
`NamesUnique` (`OneConnPerName`), `AcceptOverwritesNone` (`AcceptFree`, an action
property). `IInv` says what the slots will be once the `std::swap` in progress is
done (`Settled`), which of them then have a descriptor at each store (`HasFd`),
and that slots never used come last (`NameInv`). The last is why a returning
client always finds its own slot before an unused one.

### EchoFlowProofs

For every size of the queues, the sockets and the receive buffer and every
number of messages (`FlowAssumption`): `TypeCorrect` and, when the server's queue
is larger than the client's, `ServerNeverBlocked` (`NeverBlocked`). That
hypothesis is the one the comment in `test/echo_server.cpp:22` asks for, and TLC
refutes the property without it.

The streams are described as in `PTCPSessionProofs`: message `n` of an end has its
header at position `2n`, its body at `2n + 1`, and a heartbeat takes none; `Run`
says that a sequence of units stands at positions from `lo` to `hi`. `IInv` has

* `QueueInv`: the queues and sockets are within their bounds, and acks on their
  way are for messages that were popped. Message `n` of the server carries the
  ack `n + 1` (it has popped the message it echoes), message `n` of the client an
  ack of at least `n - TcpQueueSize["c"]` (`GoodMsg`);
* `StreamInv`: receive buffer and socket continue the peer's stream from where
  the user is to where the peer has sent, and the client has no ack beyond the
  echoes whose header it has read;
* `ServerInv`: every message popped has been echoed, and the acks of everything in
  the receive buffer have been applied: Front acknowledges from every header it
  reads, not only from those the handler takes;
* `ClientInv`: the client has pushed at most a queue and one more than it has
  popped, and at PollNum one less or it has at most one ack more than pops, so
  that the push Alloc then allows keeps the bound.

`NeverBlocked` follows: the message at the front of the server's buffer has the
number `my_ack` of the server, its ack, which is applied, is at least
`my_ack - TcpQueueSize["c"]`, so the server's queue holds at most as many echoes
as the client's queue has places. `ClientInv` and the bound in `GoodMsg` depend on
each other through both streams, which is why neither is inductive alone. TLC has
checked the parts of `IInv` without `Run`, which quantifies over functions on
`Nat`, on the instance of `EchoFlow.cfg`.

### MarketProofs

For every set of clients, every length of the rings and every number of messages
and faults (`ShmAssumption`, `MarketAssumption`): `TypeCorrect`, `ActiveExact`
(`ActiveOnce`), `ClientsInStep` (`InStep`). `IInv`, which TLC has checked on the
instance of `Market.cfg`, adds

* `LinkInv`: a client with a running connection has one on the server's side that
  is not closed;
* `LeftInv`: a ring that holds a message of a dead server behind `write_idx_atom`
  belongs to a client that `lost` has on record;
* `PublishInv`: between its steps the publisher has a connection to serve and a
  number for it, and the room that Alloc found is still there when Push fills
  it: only the reader and Reset touch the ring, and both make room;
* `RoomInv`: no ring holds more than `QCap`, what was left behind included;
* `StepInv`: `InStep` for a client that is not logged in as well. Its next process
  starts from 0, so unless one of the reasons applies its ring must then hold
  everything sent so far.

`InStep` is not inductive because it says nothing of a client between two logins.

### RecvBufProofs

For every initial and largest size of the buffer that is a multiple of a header,
every size of `stackbuf` and every set of message lengths of at least a header
(`BufAssumption`): `TypeCorrect`, `StreamKept` (`Stream`), `HeadersConverted`
(`Converted`), `ClosedForTooLarge` (`ClosedRightly`), `NeverOutOfRoom`
(`NeverStuck`). None of the last four is inductive. `IInv`, which TLC has checked
on the instance of `RecvBuf.cfg`, speaks of `Str`, the units from `readidx_` on
followed by those in the socket, counted from 0, wherever they stand:

* `Chain`: `Str` is whole messages, each unit linked to the next, with the ids
  from `got` up to the one before `sent`;
* `ParsedTo`: a message starts at `nextmsg_idx_` and is not complete; the
  connection is closed exactly if it is too large; a header is in host order
  exactly if all of it has been received;
* `BufType`: the order of the indices, and a size that is a multiple of a header;
* `Ready`: Front has returned a message, never a heartbeat.

Reading in place, and reading with compaction and enlargement, leave `Str` and
`Chain` alone and only move the border between buffer and socket
(`ReceivedInPlace`, `ReceivedMoved`, `ReceivedStream`). A length is read right
because the header there is in host order by then (`HdrFacts`), so the loop steps
from start to start of a message (`NextStart`) and cannot step over the one that
is not complete (`Apart`). As for `walk` above, `VisitExists` shows that there is a
function with the equation of `Visited`, from the end of the buffer backwards, and
`LoopStops` that the loop comes to an end: otherwise there would be a last start
of a message from which it does not come by all later ones. Heartbeats and popped messages leave the front
of `Str` (`DropChain`, `DropParsed`), arriving ones join its end (`AppendHolds`).

`NeverStuck` follows (`RoomLeft`): a full buffer with `readidx_ > 0` is compacted,
and one with `readidx_ = 0` holds the beginning of a message that is larger than
it and, since the connection is not closed, no larger than the largest buffer, so
there is nothing to pop, more than half of it is in use and DoRecv enlarges it.

### Only model-checked

* The liveness properties (`Recovers`, `Progress`, `Released`, `Completed`):
  liveness under fairness is beyond this prover.

## 7. Not modelled, and the plan

Not modelled:

* the system calls of `my_mmap` and their errors, CPU pinning and time stamps,
  power loss (excluded by the library's README), input from a peer that does not
  run this library;
* the clocks behind heartbeats and timeouts: a heartbeat or a timeout may come at
  any moment, which covers every setting of the intervals;
* the slots of the server's SHM groups, which PollCtl handles as it does the TCP
  groups in `Server`; a change of server name; a connection that changes between
  TCP and SHM;
* the market example in TCP mode, where its publisher and the polling thread
  share a `PTCPQueue` against the library's rules (README of the library,
  "Limitations"), and the contents and statistics of its messages.

Next, in this order:

1. `Server` composed with the session of one client: what the overlap of
   `server_thread` does to delivery, and descriptors reused while in use.
2. `Heartbeat`: SendHB and DoRecv's timeout with clocks: a live peer is not timed
   out, a dead one is.
