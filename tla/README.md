# A TLA+ model of io-uring-net-engine

This directory models the parts of the repository whose correctness depends on
order: threads that race, bytes that are split, peers that disappear, and
references that come back late. TLC checks the models on small instances; TLAPS
proves every invariant and every refinement that a run checks, for every instance.

`PROJECT.json` lists the components, the runs, the theorems, the hazards and,
for each definition, the source lines it stands for. Paths below are relative to
the repository.

## The system

| Component | State | Operations | Interacts with |
|---|---|---|---|
| byte ring `sds::ring_buffer` / `sds::pipe` (`engine-uring/src/sds`) | two i64 cursors, N bytes | enqueue, enqueue2, direct enqueue + commit, dequeue, peek, direct dequeue + commit | one producer thread, one consumer thread, the kernel as a zero-copy writer |
| mesh framing (`server-uring/src/mesh.h`, `message.h`) | one pipe per direction and worker | mesh_post, mesh_try_recv | acceptor and worker threads, through the ring only |
| thread control block, trampolines, engines (`thread_ctl`, `worker_ctl`, `acceptor_ctl`, `*_engine`) | lifecycle state, tid, thread handle, edges | install_pipes, start, request_stop, join, the trampoline's steps | owner, the new thread, any thread that asks for a stop |
| supervisor (`server-uring/src/main.cpp`) | local variables of main | ordered boot, sigwait, ordered shutdown | every control block |
| session table (`session_table`, `session_record.h`) | slots with id, generation, account, owner, state; next id; count | allocate, find, validate, mark_assigning, mark_in_world, remove | the acceptor; references to its records travel over the mesh |
| epoll chat server (`server-epoll/server.cpp`) | connections, rooms, tick buffers, doomed and dirty lists, epoll masks | accept, read/parse/handle, broadcast, tick, flush, reap, shutdown | kernel sockets, epoll, signalfd, clients |
| tick experiment (`tick_logic.h`) | next deadline, histograms, per-session arena | init, maybe_tick, timeout, session add/remove | the loop of both epoll servers |
| epoll server on sds (`server_sds.cpp`) | slab of rooms, per-connection rings and linear transmit queues | the same handlers | the same |
| packet pool, hash map, vectors, mutexes, profiler (`engine-uring/src`) | free lists, tables, buffers | acquire/release, find/insert/erase, push/erase, lock/unlock | used by the servers |
| load generator (`client-bench`) | connection states, counters, histograms | connect phase, traffic phase, report and verdict, merging | a server, over TCP |

The hard behaviours are: the unsynchronised byte copies of the ring between two
cursor accesses; a receive that reads the pipe's size, peeks and consumes in
separate calls; a stop request racing a thread's start-up; the order in which
main boots and stops threads that share storage in its own stack frame; stale
session references after a slot was reused; and, in the epoll server, what one
broadcast may do to other connections while a batch of events, a room or the
doomed list is being walked. The list of hazards in `PROJECT.json` names the
line of each and the properties aimed at it.

## The modules

* `ByteFifo` is the contract of a byte pipe: whole frames go in atomically, the
  oldest bytes come out or are looked at.
* `RingBuffer` is the ring, with producer and consumer as two processes. Loading
  and publishing a cursor are single steps (acquire load, release store). The
  memcpys between them are not: each byte is a step, in any order, and the
  storage starts with arbitrary bytes. `i64` cursors are capped by `MaxCursor`
  (the code's comment: they never wrap in practice). The code requires N to be a
  power of two so that `& MASK` is `% N`; the model only needs N >= 2.
* `RingBufferProofs` holds its theorems. `MCRingBuffer` is its TLC instance.
* `Mesh` puts `[size, type] body` frames on a `ByteFifo` (the thing `RingBuffer`
  is proved to implement). Each used_size, peek and dequeue of mesh_try_recv is a
  step, so the producer runs between any two. A header is two symbols, and
  symbols double as lengths and types, so a misaligned read can look plausible.
  Its theorems are in `EngineProofs`.
* `ThreadCtl` is one or more control blocks with their trampolines; request_stop
  is a load followed by compare-exchanges, by any number of callers. The worker's
  and the acceptor's trampoline are the same steps around different engines.
  `ThreadCtlProofs` holds its theorems.
* `Roster` names the threads of the process. `Supervisor` composes main with
  `ThreadCtl` (blocks 0..K-1 are workers, K is the acceptor) and a signal that may
  arrive at any moment. Its theorems are in `EngineProofs`.
* `SessionTable` is the acceptor's table; every operation may be called with any
  id ever minted, and the u32 generation wraps at `GenWidth`. Its theorems are
  in `EngineProofs`.
* `UringParts` puts `Mesh`, `ThreadCtl`, `SessionTable` and an instance `M` of
  `Supervisor` (with control blocks of its own), which share no state, side by
  side: in each behaviour one of them, `part`, runs, so that their state spaces
  add up and do not multiply.
* `EpollChat` is the event loop of `server-epoll/server.cpp`. Its delivery mode
  (`g_batch_flush`, `g_coalesce`) is read once, in Init, as main reads it from
  the environment. The loop is sequential; the interleaving is with the kernel.
  `send` takes nothing, a byte or everything and fails if the peer is gone;
  `recv` yields a frame, the end of the stream or EAGAIN; `epoll_wait` reports
  any subset of what is ready and the events are handled in any order; peers
  reset at any step. Buffers are byte counts, a nick is present or absent, lists
  whose order nothing depends on are sets. The variable `born` is history:
  descriptors accepted while the current batch is being handled. Handlers that
  broadcast twice are two steps. `EpollChatProofs` holds its theorems,
  `MCEpollChat` adds symmetry for TLC.
  `CoalesceOnce` adds one history variable, the lines owed to each connection
  under tick-coalesced delivery.
* `FrameParser` is the receive side of one connection, byte by byte: the recv
  loop of on_readable and parse_frames. `ring` says which server it is: the
  std::string of `server.cpp` or the byte ring of `server_sds.cpp`, the latter
  with or without the short-read exit. What a frame does is in `EpollChat`.
  `stream` and `ends` are history: every byte the client wrote, and where each
  frame ends in it. Its theorems are in `RingBufferProofs`.
* `SdsRooms` is what `server_sds.cpp` has in place of a map of sets: room records
  in a slab with a free list, an index that borrows its keys from the records,
  and member lists threaded through the connections. A name is a byte string;
  the index sees the C string it starts with. `joined` is history. Its theorems
  are in `SdsChatProofs`.
* `SdsChat` is the event loop of `server_sds.cpp` on these rooms: connections in
  slots, doomed and dirty lists as vectors walked by index (a reap may append to
  the list it walks), every handler. Its promise is stated as a refinement:
  it implements `EpollChat`. A room of the abstract server is what a broadcast
  would walk; the doomed set is what is left of the list; the room a join is about
  to enter is the one its name finds; a failed LNX_CHECK is mapped to no abstract
  state. Its theorems are in `SdsChatProofs`; `MCSdsChat` is its TLC instance.
* `SdsParts` puts `SdsRooms` and `FrameParser` side by side.
* `SendQueue` is what a connection's send side promises, the `std::string out` of
  `server.cpp`: whole frames are appended, bytes leave in order, a frame past the
  cap dooms. In both, only queueing looks at `closing`: in immediate delivery a
  broadcast flushes a connection right after it may have doomed it, so what is
  queued is still sent until the reap. `SdsSend` is the linear region of
  `server_sds.cpp` with its head, tail and compaction, and implements
  `SendQueue`; the theorems are in `PartsProofs`.
* `Loadgen` is the load generator's connections through connect, traffic and
  drain: attempts in a window, counters, the list `live`, unsent tails with their
  write interest, turns by `live[m % n]`. Bytes are counts; received data is not
  looked at. `LoadgenProofs` holds its theorems.
* `LoadgenRecv` is the receive side of one of these connections, byte by byte:
  what the connect phase discards, and how traffic and drain parse and count
  frames, tick frames with several deliveries included. `from` and `clean` are
  history: where counting began, and that no discard cut a frame.
  `RecvMapProofs` holds its theorems and those of `CstrHashMap`.
* `CstrHashMap` is the hash map with its chains, growth, `reserve`, `clear` and
  moves; `KeyMap` is the partial function per object it stands for. A key is an
  opaque value with a given hash.
* `PacketPool` is the per-thread pools: memory is a row of cells, the link of a
  free block lies in its first cell, and owners overwrite what they hold. Callers
  may use the wrong thread, size or moment; the checks then end the process. Its
  theorems are in `PartsProofs`.
* `TickDeadline` is the tick clock of `tick_logic.h` as main's loop drives it.
  Any time may pass between two readings of the clock. `ended` and `before` are
  history. Its theorems are in `EpollChatProofs`.
* `AcceptReserve` is `on_accept` with a budget of descriptors: what `EpollChat`
  leaves out of its accept loop.
* `Parts` puts `SdsSend`, `CstrHashMap`, `PacketPool`, `TickDeadline`,
  `AcceptReserve` and `LoadgenRecv` side by side. They share no state, so in each
  behaviour one of them, `part`, runs; their state spaces add up and do not
  multiply.
* `MallocVector` is `sds::malloc_vector`: buffers on a heap, objects that own them,
  malloc failing at any call. `SoftVector` is what the vectors stand for, sequences
  with some room each, where a step that finds no memory changes nothing. Reading
  an element past the old size after a resize may give anything. The theorems
  are in `EngineProofs`.
* `Locks` is `sync/mutex.h`: `unique_lock` variables constructed, moved, released
  and destroyed by several threads, `lock_guard`, and the two guards of
  `shared_mutex`. A blocking call is enabled when the pthread lock is free. Its
  theorems are in `EngineProofs`.
* `Profiler` is the scopes and the manager of one thread (the manager is
  `thread_local`) and the numbers its reports have in common.
* `RunSetup` goes from the load generator's command line to its frames: parse_args,
  the descriptor limit and the tables sized by it, source addresses, the corpus
  with its cut at a character, the frame buffer. A byte of text knows how long its
  character is and where in it it stands.
* `Verdict` is the histograms, the statistics, the server's CPU samples, and the
  report: which verdict in which order, the dump, the exit status; and what
  `merge.py` makes of that dump (`parse`, `merge_pct`, `merge_verdict`), whose
  percentiles are computed by another rule. Percentages are ratios of integers.
  The percentile the properties speak of (`Percentile`) is defined from the
  samples: the least of them that a share p or more of the samples do not exceed.
* `Tools` puts these five side by side. The theorems of `Profiler`, `RunSetup` and
  `Verdict` are in `PartsProofs`.
* `MCRingBuffer`, `MCUringParts`, `MCSdsParts`, `MCParts`, `MCTools` hold values for
  TLC that a configuration file cannot express.

Definitions named after a fault (`promote_store`, `leave_room_stale_lines`, ...) are
variants of the definition that follows them, used to show that a property is
able to fail; no specification uses them.

## What the runs show

| Run | Bounds | What it shows |
|---|---|---|
| `ring` | N = 4, two byte values, payloads of 0..2 bytes (frames of 0..4), cursors to 7 | The storage wraps with every split of a frame across its end, the ring gets full and empty, zero-copy regions stop at the end. No store meets a load or an unconsumed byte; a read's copy stays valid; the ring implements `ByteFifo`. |
| `uring`, mesh | pipe of 8 symbols, 3 posts, bodies of 0..3 symbols | The pipe fills and refuses; whatever is posted in the middle of a receive, messages arrive whole, once, in order, and eventually. |
| `uring`, threads | 2 blocks, 2 callers | Stop before start, during the preamble, after stopped, twice at once: a stop sticks and ends in a join. |
| `uring`, sessions | 3 slots, generation of 2 values, 5 ids | Slots are reused and generations wrap; every late or repeated reference. |
| `uring`, main | 3 workers | Boot and shutdown order, a signal at every point of boot. |
| `epoll` | 2 descriptors, 2 rooms, modes batch, immediate and coalesce, cap of 2 bytes, one line fills the tick buffer | Every interleaving of stalls, resets and full buffers with joins, chats, ticks and reaps; a chat line over the payload limit; a descriptor reused after a reap; rooms that empty and reopen between ticks. |
| `epoll_live` | 2 descriptors, 1 room, batch mode, cap of 1 byte | Progress under fairness. |
| `sds_chat` | 2 descriptors, 2 rooms, both modes, 2 events a batch, cap of one frame | The event loop of `server_sds.cpp` implements `EpollChat`: resets, full buffers, cascading reaps, rooms that empty and reopen, reused descriptors and records, dead entries on both lists. |
| `sds_parts`, frames | payloads of 0..2 bytes and one over the limit, recv of 3 bytes (string) or 7 into a ring of 5, 2 frames | Every cut of the stream by TCP, frames that end with the buffer, payload bytes that look like a header, a ring barely larger than a frame. |
| `sds_parts`, rooms | 3 descriptors, 3 records, 4 names | Leaving at the front, middle and end of a list; records reused under another name; two names that agree up to a NUL. A walk of a room's list meets exactly those whose last join named it. |
| `parts`, send | cap of 4, frames of 1..2 bytes of 2 values | The tail reaches the end of the region and is compacted; the cap is met exactly and passed. |
| `parts`, map | 2 objects, 3 keys of which 2 collide up to capacity 4, first capacity 1 | Growth from 1 to 8 with chains of two, erasures, moves and use after a move. |
| `parts`, pool | 2 threads, buckets of 2 and 1 blocks, one size too large | Blocks go round and are overwritten; every check fires. |
| `parts`, tick | period 3, 9 units of time, 2 wakes by events in a period | Ticks on time, late and overrun by more than a period; interrupted waits. |
| `parts`, accept | 2 descriptors, 4 clients | The process is full with the reserve, and again after each shed client. |
| `parts`, recv | slot of 7 bytes, 2 frames of 4 kinds, length with the header | Every cut of the stream; a slot filled exactly; parsing that starts inside a frame. |
| `tools`, vectors | 2 vectors, length to 2, first capacity 0..2 | Growth from nothing and by doubling, failing at any call; moves between vectors and onto themselves; the heap has one buffer more than there are vectors, so a leak is met. |
| `tools`, locks | 2 threads, 2 mutexes, 2 `unique_lock` variables each | Every order of construction, move, release, unlock and destruction. |
| `tools`, profiler | 2 scopes, 2 names, 3 calls, 2 ns | Scopes that overlap, are stopped and destroyed, and live across a clear. |
| `tools`, setup | options on both sides of every limit, 2 of them given, characters of 1 and 3 bytes, 4 frames | Each refusal; sizes below, at and above the cap; lines cut inside a character; limits that cannot be raised. |
| `tools`, verdict | 3 buckets, latencies below zero to past the range, 2 messages, 4 deliveries, percentiles of a half and of all | Percentiles of none, one and more samples, of whole ranks and others, in and past the range; every verdict, of the program and of `merge.py`. |
| `loadgen` | 3 descriptors, 4 attempts, window of 2, greeting of 2 bytes, frames of 1 or 2, skip threshold 2, 3 messages | Failures at each step, deaths while others open, reused descriptors, tails carried from the greeting into the traffic, skipped and lost turns. |
| `loadgen_deaths` | 2 descriptors, 3 attempts, 4 messages | Expected violation, see Findings. |
| `coalesce_once` | 2 descriptors, 2 rooms, coalesce mode | Expected violation, see Findings. |
| `beyond_range` | as `tools`, verdict | Expected violation, see Findings. |

Two descriptors are enough for the properties of `EpollChat` because each of
them relates one connection with one other: the one that acts and the one that
is hit by its broadcast, reap or accept. The cap is two one-byte frames or one
tick frame, so a buffer can be empty, partly sent, full, and over the cap. In
`sds_parts` the string server's recv is smaller than a frame on purpose: the bound
of its backlog guard is a recv plus a frame, and only then can two frames come
near it. A half of one, two and three samples is half a sample, a whole one and
one and a half: below the first, whole, and between two ranks. In `sds_chat` a cap of one frame makes every second send of a broadcast
meet the cap, which is what makes reaps cascade. `uring` checks for deadlock;
`sds_parts` and `tools` do not, because their parts end when their bounds are
spent.

## Fairness

* `Mesh`: the owner of the consuming end keeps polling (WF of mesh_try_recv).
* `ThreadCtl`, `Supervisor`: the scheduler runs every thread (WF of each
  thread's steps; the spin barriers yield). Nobody has to request a stop and no
  signal has to come.
* `EpollChat`: the loop keeps running its own steps; a broken peer is reported,
  because epoll is level-triggered and EPOLLHUP cannot be masked; `recv` and
  `accept4` answer EAGAIN again and again. The last one is an assumption about
  the clients: the code does not bound its drain loops, so a client that outruns
  the loop for ever would starve the others. The hazard is listed.
* `FrameParser`: the server's steps; EPOLLIN is level-triggered, so unread bytes
  are reported again. The client need not send or close.
* `Parts`: the steps of main's loop in `TickDeadline` and `AcceptReserve`. No event
  has to come, no wait has to be interrupted, no client has to leave.
* `Loadgen`: the loop's steps; the kernel reports the end of every connection
  attempt sooner or later (SF: attempts are answered, refused or time out).

## What is proved

Each theorem holds for every value of the constants that satisfies the named
`ASSUME` of its module. Every invariant below is a definition of the component's
module or of its proof module, so that it can be given to TLC as well.

### Byte ring (`RingBufferProofs`)

For every capacity N >= 2, every set of byte values and payloads and every cursor
bound: `TypeCorrect`, `RaceFreedom`, `ReadsStayIntact` and `Refinement`
(`Spec => ImplementsFifo`). The inductive invariant is

* `ProducerInv`: a call in progress was admitted against a dequeue cursor that
  can only have moved forward, so its frame or region still fits;
* `ConsumerInv`: a read covers only bytes published before it began;
* `Landed`: the bytes already copied in are where publishing will uncover them;
* `ReadsIntact`: the bytes already copied out are still in the storage.

None of the last two is inductive alone: that a store keeps `ReadsIntact` needs
that the write window and the live window are disjoint modulo N, which is a
lemma about two offsets less than N apart (`ModDistinct` and its users).
The refinement maps `queue` to the bytes between the cursors: publishing the
producer's cursor is Put, publishing the consumer's is Take, everything else
stutters.

### Mesh, sessions, locks (`EngineProofs`)

`MessagesStayWhole`: for every pipe size, set of types and bodies and every
interleaving of posts with a receive, the messages received are a prefix of the
ones posted. A symbol of a body may look like a header, so nothing can be read
off the pipe's content alone. `MeshInv` ties it to the history instead: `Framed`
says that the pipe can be cut into exactly the frames of the messages posted and
not received, `RecvKnows` that a receive in progress holds the header of the
next one. The cuts are a function that exists, not one that is computed: a post
extends it by one, a take shifts it, and no recursion over the pipe is needed.
`MeshAssumption` asks that 0 is a symbol, as it is a byte of the header that
mesh_try_recv zero-initialises.

`StaleIsRefused`, `DeadStaysDead`: for every capacity and generation width (a
width of one included), validate says yes exactly for a session that is alive,
and an id whose session is gone names none again. `TableInv` adds to the types
that a live record is the one its id was minted with, which is what makes ids
unique when slots and generations come round, and that the count is the number
of live slots.

`EveryLockIsOwnedOnce`: for every number of threads, mutexes and variables, a
locked mutex has one object that will unlock it, in the thread that holds it.
Counting the owners is not inductive. `LocksInv` says it without a count:
`HeldOnce` (the owners of a mutex are one object in its holder and none in any
other thread), `OwnsAMutex`, and `RwExact` for the shared lock.
`LocksAssumption` only says that names are distinct and threads are finitely many.

### Threads and the supervisor (`ThreadCtlProofs`, `EngineProofs`)

For every set of control blocks and callers: `NeverTraps`, `StopNeverLost`,
`TidIsPublished`, `StateIsTruthful`, `ForwardOnly`. The inductive invariant
`CtlInv` says which lifecycle states are possible at each point of the trampoline
and that a caller inside request_stop has observed a state before the stop
window.

For every number of workers K: `OwnerDiscipline` (main is a caller as `ThreadCtl`
requires one, so the theorems above hold of this program), `AcceptorAmongWorkers`
(the acceptor is live only among workers that run), `FrameIsLast` (main's frame,
which holds the mesh, outlives every thread) and `MainNeverTraps`. `SupInv` says,
for each place in main, which blocks were started and joined (`WorkerInv`,
`AcceptorInv`) and which stop is under way (`StopInv`), on top of `CtlInv`. That
the control blocks' own steps keep `CtlInv` is not proved again:
`EngineProofs` instantiates `ThreadCtlProofs` with the blocks 0..K and main
as the only caller.

### Epoll chat server (`EpollChatProofs`)

For any descriptors, rooms, caps, line lengths and delivery modes:

* `MaskIsExact`: EPOLLOUT is armed exactly when bytes are pending, whenever the
  loop waits;
* `RoomsAgree`: a room's members are the connections that name it;
* `LinesStayInRoom`: buffered lines belong to a room that exists;
* `NoReusedDescriptor`: an event of the batch never reaches a connection that
  was accepted after it was reported;
* `ChatTypeCorrect`.

They need each other and are proved from one invariant, `ChatInv`. The mask is
wrong in the middle of a batch, so `ConnInv` says what holds then: a mask is never
armed for nothing, and unsent bytes are armed or on the dirty list unless their
connection is the one being read; the doomed set is the set of closing
connections. `BatchInv` keeps descriptors alive until the batch is over, `TickInv`
and `JoinInv` cover the tick's and the join's intermediate states. The helpers
(append, flush, doom, broadcast) each have a lemma that says what they do to one
connection and to all; the proof has one lemma per handler.

Since `SdsChat` implements `EpollChat` (`SdsImplementsChat`, below), these are also
claims about `server_sds.cpp`, read through the refinement mapping.

### Frames (`RingBufferProofs`) and vectors (`EngineProofs`)

`FramesAreTheClients`, `NoBacklog`: for both servers, every payload limit, receive
buffer and ring larger than a frame, and every cut of the stream, the frames
handled are the ones the client sent and in their order, and neither backlog
guard ever fires. `ParserInv` ties the buffer to the stream by position:
`StreamFramed` (each frame begins where the one before it ended), `Buffered` (the
buffer is the stream from the first frame not handled up to what was read) and
`ParsedOut` (outside a parse the buffer holds less than a frame, which is what
leaves room for the next recv).

`VectorsAreSequences` (`VectorSpec => ImplementsVector`) and `VectorInvariance`:
for any number of vectors, elements and lengths, and malloc failing at any call,
every operation of `malloc_vector` is an operation on sequences or changes
nothing. `VectorInv` says that each buffer in use has one owner that knows its
length, and that a dead vector owns none. `VectorAssumption` makes the vectors
finitely many; the heap has one buffer more than there are vectors, and
`FreshBuffer` shows by counting that malloc can therefore always find one:
a shortage in the model would mean a leak. Every operation but a move changes one
vector and the buffers it owns before and after; `OneAltered` says once what that
does to the abstract state.

### Load generator (`LoadgenProofs`)

`EveryConnectionCounted`, `NoTailForgotten`: for every number of connections,
window, descriptor set, frame sizes and skip threshold, the counters are the
numbers of connections in each state whatever fails in whichever phase, and an
unsent tail is armed. `LoadInv` adds that the list `live` has no descriptor twice
(removal by value is then removal of that connection) and that the deaths counted
are among those that happened.

### Rooms of the sds server (`SdsChatProofs`)

`RoomsHold`: for every number of connections and of slots, and every set of names,
those that differ only past a NUL included, a walk of a room's list meets exactly
the connections whose last join named it. A walk is not what the proof works
with. `RoomsInv` says that for each live record a list *exists* (`IsList`: no
connection twice, its neighbours are its links, its ends have none) and that the
dead records are one (`IsFreeList`). A join prepends to such a list, a leave cuts
one out at the front, middle or end; neither computes it. `WalkOfRoom` then shows
that the walk from the head is that list. The index borrows its keys: `RoomsOK`
says that a node's key lies in a live record that begins with it. That
`room_acquire` finds a slot is a pigeonhole: between two calls no room is empty,
so there are at most as many rooms as connections. `RoomsAssumption` asks for as
many slots as connections (`server_sds.cpp` sizes both by the same number) and
that no name is empty, which is how the code says "in no room".

### The event loop of the sds server (`SdsChatProofs`)

`SdsImplementsChat` (`ChatSpec => ImplementsChat`): for every number of
descriptors and slots, every set of names, batch size, cap and message length, in
both delivery modes, every step of the loop of `server_sds.cpp` is the step of
`EpollChat` of its name on the mapped state. In particular no `LNX_CHECK` fails: a
trapped server maps to no state of `EpollChat`.

The inductive invariant is `ImplInv` (`ChatInvariant`). `Sound` says that the
rooms are `RoomsOK`, that the first `reaped` entries of the doomed list are dead
and the others are exactly the closing connections, none twice, and that a
connection is on the dirty list exactly if its flag says so; so a list is never
longer than the number of descriptors and a push finds its reserve (`PushOK`).
`Kernel` adds what the loop relies on between handlers, `Handling` which
connection is read and where a join is going.

The steps are walks over lists, some of which the body of the walk extends. Each
helper has a lemma that says, in the terms of the abstract server, what it does to
any sound server: `Acts` (to one connection, the others keep their records),
`Spread` (a broadcast: the members of the walk and nobody else are sent to),
`Flushed`, `Left`, `Entered`, `Removed`. A walk is a recursive function over its
length (`told`, `flushed`); the claim about its first n turns is an induction over
n, and that the walk is a list without repetition (`WalkOfRoom`) is what makes each
member told once. That a broadcast only appends to the doomed list (`Longer`) is
what lets a reap go on where it was. `StepWait` to `StepReapDone` are one lemma for
each action, `ImplStep` puts them together.

`AbsTarget` is where two names that agree up to a NUL meet: the room entered is the
one the index finds, under the name it was opened with. The theorem says that the
loop then does what the loop of `server.cpp` does for that room; it does not say
that `server.cpp` would have picked that room (see Observations).

### Send queue, packet pool, profiler, set-up, verdict (`PartsProofs`)

Send queue, for every cap, frame size limit and set of frames: `TypeCorrect` and
`Refinement` (`Spec => ImplementsOut`). `TypeOK` is inductive as it stands: head
and tail stay within the region because a frame is admitted against the cap and
the region holds the cap and one frame more, after a compaction if need be. The
refinement maps `out` to the bytes between head and tail; its lemmas say what
appending to, advancing and moving such a window do. Both cover the sends that
follow a doom.

Packet pool, for every number of threads, buckets and sizes: `BlocksHaveOneHolder`
(a block is on its free list once or has one owner, and what the owner wrote
stays) and `InUseNeverUnderflows` (the check that would catch a counter below zero
is dead code for callers that release what they own). The free list runs through
the memory that owners overwrite, so the invariant `PoolInv` must say that the
cells of two blocks are disjoint; that comes from the layout, an offset per bucket
that is a sum over the buckets before it, and the sums are proved about first
(`Total`, which does not depend on the order). `ListInv` says that a chain of free
blocks exists that ends, `OwnerInv` what an owner holds.

Profiler, for every scope, name and clock: `ReportsTellTheScopes` (count, total,
least, greatest and average of each name are those of the scopes that ended since
the last clear). `ProfilerInv` puts the records in a bijection with the scopes
that ended; sums and extrema over the one are then sums and extrema over the other.

Set-up, for all options, texts, size classes and limits of descriptors:
`AcceptedRuns` (a run that parse_args accepts has frames that fit, of whole
characters, and a table record for every descriptor). `SetupInv` says what each
stage has established when the next one starts.

Verdict, for every bucket width, number of buckets, sample and threshold:
`VerdictsAreJustified`. A printed percentile is the one of the samples (`Percentile`)
or, where the share of the samples is not a whole number, that of one sample
before it, never above it; the exit status is the one these percentiles, the
fan-out and the losses justify; `merge.py` finds `Percentile` itself in the dump,
knows when it is past the range, and judges by it, unless the lag is past the
range (see Observations); and the note on the CPU is about the traffic window.
`VerdictInv` ties the bins to the samples seen (`Tells`: the bins up to b count the
samples that fall in them). From there `RankedIs` finds the bin at which k samples
have been counted, `PctIs` shows that the loop of `pct` stops there for the cut
rank, `AskedIs` compares the cut rank with the asked one, and `MergeIsExact` shows
that this bin has a row in the dump, for rows are all that `merge.py` walks.

`PoolAssumption`, `ProfilerAssumption`, `SetupAssumption` and `VerdictAssumption`
only give numbers and tables their types, make sets finite, and ask that the
buckets grow in size, that a header fits into a blob, that no size class is above
the last and no limit above its hard limit.

### Tick clock (`EpollChatProofs`)

For every period, length of run and bound on wakes: `NeverBursts`, `KeepsCadence`,
`NothingCountedTwice` and the types. The inductive invariant adds that a deadline
is never before the end of the last tick and is a period after the one before it,
that a wait does not end before its deadline without an event, and that a phase
in progress began after all the time already accounted for.

### Counting what is received, and the hash map (`RecvMapProofs`)

`CountsAreExact`: for every stream of messages, slot size, cut of the stream and
meaning of the length field, the counters are those of the deliveries in the
frames consumed, tick frames with many deliveries included. `RecvInv` ties the slot
to the stream by position, as `ParserInv` does, and the counters to a number k of
frames; a frame is longer than nothing, so k is unique. If the connect phase
dropped part of a frame (`clean` is false), positions mean nothing any more and
only the types are claimed.

`ChainsImplementMap` (`MapSpec => ImplementsMap`): for every hash function, set of
keys and capacity, each operation of `cstr_hash_map` on a table is the operation
on a partial function, a moved-from table included. `MapInv` says that a key is in
the chain of its index and once, and that `size_` is the number of keys find knows. Then what find shows depends on
the *set* of entries alone (`Held`, `Shown`). A rehash, which rebuilds every
chain, is a loop over the nodes of all chains as one sequence and leaves that set
alone (`Pushed`).

### Recursion and induction

Walks, folds, `FlattenSeq` and sums are defined by recursion over data of any
length. The proofs never use an induction theorem that takes an operator: from
the well-foundedness of < on Nat follows that a set of naturals has a least element, and
from that an induction over a *set* (`SetInduction`): the set of lengths for which a
claim holds. A recursive definition is a CHOOSE of a function that obeys its
equation; that one exists is shown once for each, as a function built up to n.

### What stays with TLC

Every invariant that a run checks is proved, and so are the action properties and
the refinements. One kind of property is only model-checked:

* liveness (`EventuallyReceived`, `StopLeadsToJoin`, `SignalShutsDown`,
  `DoomedIsClosed`, `SignalStops`, `WholeFramesHandled`, `DueTickRuns`,
  `EveryClientAnswered`, `ConnectEnds`): the provers have no fairness.

The other way round, these are proved and no run repeats them: `NeverTraps`,
`TidIsPublished`, `StateIsTruthful`, `ForwardOnly`, `KeepsCadence`,
`MainNeverTraps`, `InUseNeverUnderflows`, the type invariants, and the inductive
invariants of the building blocks (`RoomsInvariant`, `ChatInvariant`, `PoolInvariant`,
`ProfilerInvariant`, `SetupInvariant`, `VerdictInvariant`, `RecvInvariant`,
`MapInvariant`), each of which TLC was given before it was proved.

## Findings

`loadgen_deaths`: the verdict of the load generator voids a run in which too many
"connections died during the run" (`client-bench/src/traffic.cpp:618`), because
"a connection that dies mid-run stops offering load" (line 600). A connection
whose send fails is marked dead at line 331 without `++lost_conns`, and the loop
skips its events from then on: it stops offering load and is not counted.

`coalesce_once`: `server-epoll/server.cpp:129-130` says of tick-coalesced delivery
that "every delivery still happens exactly once". A line is buffered with its
room (line 349) and sent at the tick to whoever is in the room then; a member
that joins another room before the tick was in the room when the line was said
and never gets it. The other delivery modes send it at once.

`beyond_range`: `client-bench/src/histogram.h:46-48` says that a percentile that
falls inside the overflow entries "is reported as "beyond range" rather than
invented". The wanted count is cut to a whole number (line 53), so a percentile is
read one sample low when it is not whole. A run whose only delivery came past the
range wants none of it, reports a p99 of 0, and is quotable with exit status 0.
`merge.py:47-55` does not cut the count and voids the dump of the same run.
`VerdictsAreJustified` bounds the damage: never more than one sample.

## Observations

Met while modelling, and not checked by a run:

* `server_sds.cpp` finds rooms by C string, `server.cpp` by the whole name: names
  that agree up to a NUL are one room in the former and two in the latter.
* Under ENFILE another process can take the descriptor between `close(g_reserve)`
  and `open` (`server.cpp:476`); the reserve is then lost for good.
* The load generator's connect phase drops what it read (`connect.cpp:141, 164`),
  which may be the first part of a frame; and a read that fills the 64 KiB slot
  exactly with complete frames is taken for "a frame that never completes"
  (`netutil.cpp:193`).
* In the drain the load generator does not flush tails (`traffic.cpp:440-458`):
  they stay armed and unsent.
* `summary_data::min_ns` starts as UINT64_MAX (`profiler_scope.h:28`), but
  `summarize` gives 0 for a name without records; no report prints such a name.
* `merge.py:201-202` says its verdict "is by construction the one the binaries
  themselves would have reached". It is not, even for one dump, in two cases: the
  program cuts the rank of a percentile and `merge.py` does not (see Findings);
  and for a lag whose p99 is past the range `merge.py` compares the highest bucket
  that is occupied (line 55), which may be small, where the program compares the
  end of the range. Its comment at lines 205-209 sees this for the floor, but the
  ratio at line 284 uses the same number: with 98 lags of 0 and two past the range
  a run that is otherwise good is [ OK ] for `merge.py` and [VOID] for the program.
  `FleetHolds` therefore speaks of dumps whose lag is within the range.

## What is not modelled

* The data path of worker and acceptor: their loops are skeletons in this
  commit. The admission and close-notify protocol described in `mesh.h:111-125`
  has no code yet.
* A failing accept4 ends the accept loop of `EpollChat`; the descriptor reserve is
  in `AcceptReserve`, with the limit of the process (EMFILE) and not that of the
  machine (ENFILE). An `epoll_wait` error other than EINTR is left out.
* In `EpollChat` a tick may come at the end of any batch; when it is due is in
  `TickDeadline`. The arena walk and the calibrated spin of the tick only take
  time; histograms and the report are left out.
* A block released twice to the packet pool, which the code leaves to the caller.
* Pushing or inserting an element of the vector itself (`malloc_vector` reads it
  after it may have freed the buffer); `static_vector`, an array with a count that
  server-uring fills once while it boots (`server-uring/src/main.cpp:88`).
* Construction and destruction of mutexes. `atomic.h` wraps compiler builtins:
  they are the atomic steps of the other modules.
* In `Profiler` memory for a record is always found; `MallocVector` has the other
  case.
* In `RunSetup` the ints of the command line do not overflow and getrlimit
  works; the seeded choice of corpus lines is any choice. In `Verdict` the pid of
  the server is not reused, and the share of kernel time is left out.
* The pacing arithmetic of the load generator: a message is due or not, and late
  by any amount.
* ENFILE in `AcceptReserve`; memory for the slab and the sockets made at boot.
* In `EpollChat` and `SdsChat` an `epoll_ctl` MOD that fails (`server.cpp:158-161`,
  `server_sds.cpp:188-191`), which would leave `armed_write` as it was: it cannot fail
  on a descriptor that is registered, and all connections are.
* `merge.py` on several dumps: adding them and checking that they go together;
  `fleet.py`, which starts the load generators, and `chatcli.py`.
* Logging, printing, corpus text, build scripts, tests.

## Plan

A run is added only for a question the present ones do not ask.

1. `Mesh` on `RingBuffer`: the composition by substitution of the proved
   refinement, stated as a theorem.
2. The worker's and the acceptor's data path, when it has code.
