# TLA+ models of tc_common_new

tc_common_new is the C++ library shared by a remote-desktop *render* (the machine
whose screen is streamed) and its *clients*. It holds the media protocol over UDP,
task threads, concurrent containers, an id generator, and many small utilities over
Windows. This directory models the parts of it whose correctness depends on order
(lost and reordered packets, restarts, threads, clocks), on every way out of a row of
system calls, or on a conversion that has to be undone exactly.

## Inventory

| Part | State | Operations | What is hard |
|---|---|---|---|
| Video packets (`gr_udp_protocol.h:92-285`) | none | `ShardVideoFrame`, `ParseVideoShard` | flags of parity packets, byte sizes |
| Frame reassembler (`:440-795`) | per monitor: assembly, highest closed frame, waiting for a key frame | `AddPacket`, `Reset`; callbacks frame, lost, status | loss, reordering, repetition, restart of the render, FEC |
| Audio jitter buffer (`:797-883`) | buffered packets, next number | `AddPacket` (with `Drain`), `Reset`; callbacks frame, lost | outages, full buffer, restart of the sender |
| Control and audio packets (`:285-437`) | none | builders and parsers | lengths in one byte |
| FEC (`gr_fec.h`, `reedsolomon/`) | none | `Encode`, `Decode` | GF(256), which parity replaces which shard |
| `Thread` | task list, `exit_`, its thread | `Poll`, `Post`, `RemoveTask`, `Clear`, `Exit` | condition variable, limit, exit |
| `MessageLooper` | task list, `exit_` | `Loop`, `Post`, `Exit` | the same loop on the caller's thread |
| `TaskRuntime` | threads | `Post`, `RemoveTask`, `Exit` | choice of a thread without a lock, task ids |
| `SnowflakeId` | epoch, machine, last timestamp, sequence | `initialize`, `generate` | clock set back, overflow, a second initialization |
| Containers (`concurrent_*.h`) | a map, deque or vector under a mutex | see there | operations that give up the lock halfway |
| `MemoryStat` | two such maps, a total | add, remove, `GetStatInfo` | inconsistent snapshot |
| `WsServer` | session table, `exiting_` | open, message, close, disconnect, `Exit` | reuse of socket numbers, exit during open |
| Clipboard | echo text, suppression count | `EchoFilter`, `WriteTextWithRetry` | two-way sync, other programs |
| `SharedPreference` | database handle, flags | `Init`, `Release`, get, put | failure of a second `Init` |
| `File` | a handle | read, write, `ReadAll` | a file that changes while it is read |
| `FolderUtil`, `ZipUtil` | none | `CopyDir`, `ZipFolder`, ... | a copy that fails in the middle |
| Processes, hardware, win32, start-up, AES, images | handles of the operating system | a row of system calls each | giving everything back on every way out |
| Base64, MD5, command lines | none, or the state of a digest | encode, decode, update, digest | last groups, padding, quotes and backslashes |
| the rest | none | | formatting, floating point, third-party code |

Interaction. The render's encoder cuts frames with `ShardVideoFrame`; the client's
receiving thread parses datagrams and calls `AddPacket` of the two receivers, which call
back into the decoder and send `FrameStatus` packets that drive the render's FEC rate.
`TaskRuntime` owns `Thread`s and takes task ids from `SnowflakeId`. `Thread` registers
itself with `MemoryStat`, which is built on `ConcurrentHashMap`, as is `WsServer`'s
session table. Sockets, encoder and decoder belong to the programs that use the library;
so does the code that carries clipboard texts from one machine to the other. The other parts
share no state.

`PROJECT.json` lists every part with its status, and the hazards, line by line.

## Modules

Media protocol:

| Module | Models | Correspondence |
|---|---|---|
| `VideoSharding` | packets and `ShardVideoFrame` | a packet is the record `ParseVideoShard` fills; bytes are left out, but shards know which run of the render (`origin`) they come from |
| `FrameReassembler` | `GrUdpFrameReassembler` | `asm`, `finished`, `needKey` are one monitor's entries of `assemblies_`, `finished_`, `need_key_`; `AddPacket` is one step, composed of `Late`, `NewStream`, `Supersede`, `Begin` (with `NoteGap`), `Store` in the code's order; `out` is the sequence of callbacks |
| `VideoChannel` | render, channel, client | `Send`, `Deliver` (lose = never deliver), `SilentRestart`, `Reconnect`; `PacketsOfFrames` asks that the client's packets include all the render can send |
| `Playout` | the promise of the jitter buffer | each number settled once, in order |
| `JitterBuffer` | `GrUdpAudioJitterBuffer` | `Add` is `AddPacket` up to `Drain`; `Play`, `Conceal`, `Return` are the turns of its loop, one callback each |
| `AudioStream` | an audio sender, its channel, the buffer | an orderly channel with outages, restarts of the sender; a wild one (any number); a mixed one, with stray packets between those of a sender that restarts |
| `ReedSolomon` | `rs.c`, `GrFec` | the field from its generator, `build_matrix`, `invert_mat`, encode and decode, as functions |
| `ControlBytes` | the common header, audio and control packets | builders and parsers byte for byte, with fields of the code's widths |
| `VideoBytes` | the data packets of a frame | how a frame is cut, a packet written and read, and what `EmitFrame` makes of the blocks |
| `PacketBytes` | video packets with parity | `ShardVideoFrame` and the receiver's recovery over `VideoBytes` and `ReedSolomon` |

Threads, containers, servers:

| Module | Models | Correspondence |
|---|---|---|
| `Mailbox` | the promise of the two classes to those who post | a task is put in once, begun in order, dropped from the front of a full box, or withdrawn |
| `WorkerLoop` | the loop of `Thread` and `MessageLooper` | one step per critical section; between `TestPredicate` and `Sleep` the loop holds the mutex |
| `Workers` | the two classes | their own operations around that loop: `Poll` (`KeepThread` is its assignment to `thread_`), `RemoveTask`, `Clear`, `Exit` (`BeginExit`, `Notify`, then `Join` or `ReturnUnjoined`) for a `Thread`; `Loop` on the caller's thread for a `MessageLooper`; `kind` says which it is |
| `SnowflakeId` | the id generator | `generate` in steps between two readings of the clock |
| `ConcurrentMap` | `ConcurrentHashMap` | an operation under one lock is a step; `VisitAll` and `VisitAllCond` are a walk: keys, then for each key read, visitor without the lock, write back |
| `MemoryStat` | `MemoryStat` | over `ConcurrentMap`: the atomic sum changed beside the map; `GetStatInfo` as three readings |
| `WsServer` | `WsServer` | `sessions` is the table by descriptor; the two halves of `open` (`OnConnected`, `Register`) are two steps, as are those of a message and of `Exit` |
| `ClipboardSync` | `EchoFilter`, `WriteTextWithRetry`, the Windows clipboard | two machines; a write is a loop of attempts, each of which can fail, and of a reading back |
| `TaskRuntime` | `FindMostIdleThread`, `Post` | threads are reduced to the length of their lists; each is asked under its own lock (`Ask`, `AskAgain`) |
| `SharedPreference` | `SharedPreference` | several processes over leveldb; an operation is a step |

Functions of one call:

| Module | Models | Correspondence |
|---|---|---|
| `OsCalls` | what a row of system calls does | an interpreter: `Take`, `Try`, `Use`, `Close`, `Free`, `Keep`, ... are steps; `rest` is what is left to do, `held` the handles open |
| `OsProcesses`, `OsDesktop`, `OsServices` | 51 functions, each a sequence of such steps | one definition per function, in the code's order, with its early returns; what a smart pointer releases is written at every way out of its scope |
| `OsFunctions` | one run of any of them | three tables name what the code is known to get wrong |
| `CommandLine` | `BuildCommandLine` and its escaping; the parser of the started program (external) | characters are told apart as far as the escaping does |
| `Base64` | `Base64`, `cereal::base64` | a character is its place in the table |
| `Md5Stream` | `gd::MD5` without its arithmetic | the state is the sequence of blocks transformed |
| `Conversions` | what is asked of them, and of `ControlBytes` | a `job` is a conversion with its input, `answer` what comes of it; inputs of any length and content |
| `DirectoryCopy` | `FolderUtil::CopyDir` | a tree is given by the folders each entry is in (`Above`); an entry is missing, old or new in the destination; an exception may end any of its steps |
| `FileReading` | `File::ReadAll` with a callback | the size is asked once; each turn reads a chunk at an offset, while another program resizes the file |

`MC*` modules give packets, inputs and compositions for TLC. `MCLibrary` holds the six parts from
`ConcurrentMap` to `SharedPreference`, and `MCFunctions` the functions of one call: rows of system calls,
conversions, frames, copies and file reading. Since the parts share no state, a behaviour is about one
of them, its `scene`, and leaves the others at rest.
`*Proofs` modules hold the proofs about the modules they extend.

Notes on faithfulness.

- The maps of the reassembler are keyed by monitor and `AddPacket` touches one key, so one
  monitor is modelled. A map without an entry is `Absent` (`finished_`) or `FALSE` (`need_key_`).
- Whether mixed shards of two runs decode is not in the code's hands; it is the free choice
  `luck`. Shards of one frame always decode; `PacketBytes` and `ReedSolomon` show why.
- In `Supersede` the branch that recovers the older frame is in the code, and
  `NothingHeldBack` shows that no assembly at rest can be recovered: the branch is dead.
- Frame and sequence numbers do not wrap (years of one connection). `finished` only grows
  within a stream.
- A task list holds each task once. `RemoveTask` is by id and takes the first match. The history
  variables `posted`, `ran`, `evicted`, `removed` exist for the properties only.
- `Poll` may come at any time, also after `Exit`. The thread it creates runs before `thread_` is set, and
  an `Exit` in between finds nothing to join. `over` is set when an Exit has returned that was not of this kind.
- `SnowflakeId` keeps the widths of an id as `SequenceSize` and `TimestampSize`. The clock
  does not read below an epoch, which would wrap the 64-bit difference.
- `MemoryStat`: an id is given to one block only; the sum is kept modulo `kWrap`.
- A walk of `ConcurrentMap` takes its keys in any order; the code's is ascending.
- asio2 is not in the repository. Assumed: the handlers of one connection run one after the other, its
  disconnect handler runs before its socket is closed, and `stop()` returns when every connection has
  gone. Assumed of leveldb: a database is open in one process at most, and what was put is there.
- The fields of packets have the code's widths, so the length of a string of more than 255 bytes
  is cut to a byte in `ControlBytes` as in `BuildCtrl`. Parity that was lost comes back as zeros, as in the decoder.
- A function's row in the `Os*` modules keeps what it does with handles; what the calls compute is left
  out. Every call that can fail may fail, in any combination. `Close` is a release the code makes without a
  test, so the handle must be open; `Free` is one that is tested for in the code, or that a smart pointer makes.
- `TrueMeansDone` asks whether the call a function is there for succeeded. The fields of a firewall rule or
  a task that are set before it, whose results the code does not look at, are left out.

Operators named as mutants in the modules' comments are deliberately wrong versions of the
definition that follows them; they are used by no specification and show which mistake each
property detects.

## Runs

| Run | Question | Bounds |
|---|---|---|
| `reassembler` | Is the receiver right under any sequence of any packets, also when shards of two runs of the render mix? | frames 0..2 of every kind, shapes 2+0 and 2+1, and frame 1 of a second run; enough for gaps, FEC, superseding and malformed packets |
| `video_channel` | Does a render's stream get through: FEC, key frames; does it come back after a restart nobody told of? | three frames, two runs, shapes 1+0, 2+0, 2+1, 2+2; packets lost, repeated and reordered within a frame; restarts with and without `Reset` |
| `audio` | Is the buffer right under any stray number, does it implement `Playout`, does it keep up with outages and restarts? | limits 4, 2, 6; 31 numbers, stray ones 0..14, one of them between two packets of the sender that are heard; outages of 1, 2, 3, 5, 8; two restarts: the buffer fills, evicts and resyncs |
| `workers` | Are tasks kept in order, once, within the limit; does each get its turn; is nothing begun once a Thread's Exit has returned? | four tasks, limit two, both classes, Poll before, during and after Exit, every interleaving |
| `snowflake` | Do ids increase and stay behind the clock; does generate return? | two ids a tick, five ticks, the clock set back twice, four ids |
| `library` | The small concurrent parts, in every interleaving | two keys, values, walkers and clients; three connections over two descriptors, so that one is reused, and a server that stops and starts; two machines, two texts, two copies, two attempts; three threads with lists of two; two processes and two databases. Walkers and clients are symmetric |
| `functions` | One call of one function, with everything that can fail or arrive | 51 functions, every call free to fail; arguments of up to four characters out of quote, backslash, space and letter; up to four calls of `update` around a block of four bytes; frames of 1 to 4 shards with 0, 40 and 100 percent of parity and every subset of their packets; strings of two bytes; two nested folders with a file in each; files of up to four bytes read by two |

`library` stops where a program may: connections are used up, copies are made, Post met a null thread.
`functions` stops when the call has ended. The other runs stop when their bounded numbers are used up.

What the properties say, hazard by hazard, is in `PROJECT.json`. The ones that take most steps to break:
`ReferenceChain` (no frame is decoded on a missing reference), `StatusOnceInOrder` (one status a frame),
`EveryTaskInOnePlace`, `NothingBegunAfterExit` (late posts and a late Poll included), `NothingComesBack` (a late write of a walk resurrects nothing),
`QuietReportAgrees`, `OneGoodbye` (a session is told of its end once, through reuse of descriptors and
restarts), `NoPingPong` (a text is not sent back and forth), `PicksOneWithRoom`, `OpenWhereUsed`,
`FrameFromAnyShards`, `NothingLeaks`.

The limits of `audio` are scaled. An outage the buffer catches up with is at most
`MaxBuffered * MaxConsecutiveLost` numbers long: a full buffer has been filled by that many
packets, each followed by a Drain that gives up that many numbers. It is 8 in `audio` and 80
in the code; `audio_outage` uses the constants of the code and one number more.

Runs that end in a violation show where the code and its own words part:

| Run | What it shows |
|---|---|
| `late_key_repeats_status` | a delayed first packet of a key frame is taken for a restart; the frame gets a second status (`:474`, `:515`) |
| `rfi_frame_dropped` | an RFI frame whose first shard is restored by FEC loses its mark and is dropped (`:171`) |
| `audio_outage` | after 81 lost packets the buffer is full and stuck for ever (`:839-843`) |
| `exit_lost_wakeup` | `Exit` of either class notifies without the mutex; the wakeup is lost and the loop never ends |
| `snowflake_two_runtimes` | a second `TaskRuntime` re-initializes the generator: an id twice |

Known limits of the code that the properties take into account and no run is spent on:

- A restarted render is noticed by the first packet of a key frame below the highest closed one
  (`:519`). When only frame 0, or none, is closed that test cannot succeed; the stream heals later
  (`RestartHeals`).
- Nothing is awaited before the first loss (`:453`): the first frame shown need not be a key frame.
  `ReferenceChain` is about the frames after it.
- 41 bits of milliseconds from epoch 0 end in 2039; ids then decrease. `Fits` excludes it.
- `audio`'s properties hold for outages within the product above.
- A stray packet behind a restarted sender moves the next number up again: each one may add
  `ResyncThreshold` packets to the silence. `SilenceBounded` counts them.
- An `Exit` that comes when `Poll` has started its thread and not yet set `thread_` (`thread.cpp:60`, `179`)
  returns with the thread running; `NothingBegunAfterExit` excepts it.
- A task posted while `Exit` is called may be listed afterwards. It stays there and is not run.
- `GetStatInfo` reads three things one after the other; a report made during changes need not add up.
- Strings of more than 255 bytes are cut by the packets' length bytes, and what follows them is misread;
  the round trips of `Conversions` are about shorter ones.
- An `Insert` or `Replace` made while a walk visits the same key is overwritten by the walk.
- When every list of a `TaskRuntime` is at its limit `FindMostIdleThread` finds none and Post calls
  through a null pointer (`task_runtime.cpp:56-66`, `34`).
- A failed `SharedPreference::Init` leaves no database open, also when one was.
- `ReadAll` never ends once the file is cut below its first size (`file.cpp:124`): `ReadEnds` excepts it.
- An MD5 digest whose padding takes a block of its own overwrites buffered bytes, so that a digest
  continued after it is wrong; `DigestOfAllBytes` excepts it.
- An empty command-line argument is written as nothing and is lost (`process_util.cpp:24-59`).
- `CopyDir` catches what is thrown over one entry and goes on: `true` may stand for a copy with holes.
- `Leaks`, `Misuses` and `SayTrueRegardless` in `OsFunctions` list the functions that do not give back a
  handle on some way out, use or close one that is not open (`process_util.cpp:248-249`, `283` and `310-311`
  close without a test what was never opened), or report a success that did not happen.
  `NothingLeaks`, `NothingMisused` and `TrueMeansDone` say that there is nothing else of the kind.
- `RemoveProgramFromFirewall` looks for the rule until it is gone (`firewall_helper.cpp:154-159`): it never
  returns if `Remove` keeps failing. The rows of system calls have no liveness property.

## Fairness

- `Workers`: every thread that can take a step takes it (weak fairness of `LoopTurn`, of a `Post`
  that passed its first test, of `Poll`, `KeepThread`, `Loop`, `Notify`, `Join` and `ReturnUnjoined`). Spurious wakeups and
  clients' calls get no fairness: nothing promises them.
- `AudioStream`: the sender goes on sending and `Drain` finishes. Outages and restarts get none.
- `SnowflakeId`: the clock ticks and the calling thread runs. The clock is set back finitely often.
- `MCFunctions`: the loop of `ReadAll` runs, and a read that could succeed does not fail for ever;
  the program that resizes the file gets none.
- The video modules, `MCLibrary` and the rows of system calls have safety properties only: the library
  never retransmits, and its concurrent parts wait for nothing but mutexes and the callers.

## Proofs

`tlapm` checks them from nothing; they hold for every value of the constants that satisfies the
assumptions named in the modules (a capacity is positive, the sets are finite, ...), and, where a
theorem says so, a hypothesis of its own. Of the properties the runs check, those not named here are
the ones under "Model-checked only".

- `FrameReassemblerProofs` (any set of packets): `TypeCorrect`, `NoUnnoticedLoss`,
  `ChainIsWhole`, `RestIsIncomplete`, `OneStatusEach`. `SyncedOrWaiting` is not inductive: a phase of
  `AddPacket` may leave the mark behind the assembly. The invariant `Good` adds that the
  assembly is newer than the mark, that the last two frames shown are adjacent unless the newer one
  anchors a chain, and that after a restart the receiver waits or starts from a key frame. Each
  phase has a lemma saying what it needs and keeps; a step is their composition. `OneStatusEach` follows
  the callbacks through the same phases: they rise, are above the old mark and not above the new one.
- `VideoChannelProofs` (any shapes, frames, restarts, and any loss, repetition and order of a frame's
  packets): `EnoughShardsDeliver`, `KeyFrameHeals`, `OneStatusAFrame` and `PlainRfiEndsWait`. Hypothesis: `Lag = 0`, a channel that keeps the
  bursts of two frames apart. The last two say what the violations above need: `late_key_repeats_status` a
  packet that arrives a frame late (`Lag = 1`), `rfi_frame_dropped` a frame with parity. What a receiver was
  told by earlier frames cannot be known, so the invariant `ChanInv` says only where it is: up to the
  old numbers (`OldNews`) the mark, the assembly and the reports are; past them, the newest frame is
  `Unseen`, `Coming` (the assembly holds exactly the packets that arrived) or `Closed`, complete or, if
  it has no parity, lost. `FirstShard`, `NextShard`, `LateShard` say what `Handle` makes of a packet in
  each of the three; `HandleUpTo` that a packet moves nothing above its own number. `NothingHeldBack` of
  the receiver then makes a frame with enough shards a closed one. `ToldOnce`: every number with a
  status is up to the mark, and a packet reports only numbers past it, each once (`Once`).
- `AudioStreamProofs`, of `JitterBuffer` (any limits): `TypeCorrect`, `BufferIsBounded`, `PlaysWhatItCan`, and
  `Refinement`: each step is a step of `Playout` or a stutter. The invariant adds that every part of the
  buffer has a newest packet, since `Newest` is a choice. Of `AudioStream` (any limits, restarts and stray
  packets): `StreamPlaysWhatItCan` and `StreamRefinement` (the stream is a use of the buffer),
  `RestartsAreHeard` and `OutagesAreMadeUp`.
  `RestartsAreHeard`: a packet that is passed over is at most `ResyncThreshold` behind the next number, and
  the sender's numbers rise, so each one passed over uses up some of that distance (`StillToCome`); a stray
  packet makes it at most `ResyncThreshold` again. What was spent and what is left stay within one
  `ResyncThreshold` for the restart and one for each stray (`Paid`, `Allowed`), on any of the channels.
  `OutagesAreMadeUp` has the hypothesis `ShortOutages`: at least 3 places, and no outage longer than
  `MaxBuffered * MaxConsecutiveLost`, 80 with the code's 16 and 5; at 81 `audio_outage` shows the buffer
  stuck, so the bound is sharp. The argument: k packets in the buffer have left, and the places above them
  still leave, `Room(k)` numbers that drains can give up. `RoomAhead` says each buffered packet is within the
  room that it and the packets above it leave; so the oldest is always reachable before the buffer is full
  (`NeverFull`). `Keeping` says that the last `streak` numbers are all there or settled.
- `WorkersProofs` (any tasks, any limit, both classes): `NoTaskIsSleptOn`, `ExitIsFinal` (of `NothingBegunAfterExit`),
  `OnlyTheOldestGoes`, `TasksAreInOnePlace`, `BegunAsPosted`, and `Refinement`: both classes implement `Mailbox`,
  with the list as the box, which is over when Exit of a Thread has returned. `ExitIsFinal` needs `Ended`: when
  an Exit is over, `exit_` is set and the loop has not begun or is done, and no step leaves that but a late
  Poll, whose loop ends at its head. The invariant is about the order of
  appending: what was begun or dropped is `Earlier` than what is listed. A task is appended once, so
  it is not earlier than itself, and the places it can be in are apart.
- `MemoryStatProofs`, of `ConcurrentMap` (any keys, values, walkers): `MapTypeCorrect`, `RemovedStaysRemoved`,
  `WalksMissNothing`. `WalkInv`: a key that stayed is seen or still to come, unless the visitor stopped.
  Of `MemoryStat` (any clients and blocks): `SumOfBlocks` and `ReportsAgree`. The lemmas on sums over
  finite sets say what adding, dropping and changing one block does; `StatInv` adds that a walk writes a
  block back as it was read (`WritesBackTheSame`), and that an undisturbed report has summed exactly the
  blocks it has seen, the others being still to come (`QuietSoFar`).
- `LibraryProofs`:
  - `SnowflakeId` (any widths, clock and number of calls): `TypeCorrect`, `NotAheadOfClock`,
    `IdsIncrease`. Assumed: initialize is not called again (`Once`) and the clock fits the
    timestamp (`Fits`); the run `snowflake_two_runtimes` shows what happens without the first, and the
    year 2039 without the second. The invariant is a mark
    (`last`, `sequence`) no id is above, and that a timestamp about to be used was shown by the clock.
  - `WsServer` (any connections and descriptors): `WsTypeCorrect`, `EachGoodbyeOnce`, `MessagesFindTheirSession`.
    Descriptors of connections that are there are apart (`FdsApart`), so what is registered under one
    is its connection's session, welcomed and not yet told (`Registered`, `Told`).
  - `TaskRuntime` (any threads and callers): `RoomIsFound`, `ShortestIsPicked`. Until a target is found
    the size to beat is the limit, so a thread passed over was full (`RoomFound`); in an undisturbed scan
    no thread asked is below the size to beat (`LeastSoFar`).
  - `SharedPreference` (any processes and databases): `NoDatabaseStaysLocked`, `FlagsAreTrue`. Only
    the two right pairs of flags occur (`FlagsPaired`).
  - `ClipboardSync` (any texts, copies and attempts): `TextsDoNotBounce`. A change that would be sent is an
    account of one, which a user's copy or a failed write has paid for (`AllOwed`); while a text is
    written it is the echo (`WritesTheEcho`), so a write that ends well owes nothing.
- `FunctionsProofs`: of `DirectoryCopy` (any finite tree, folders nested to any depth) `OldFilesAreKept` and
  `HolesHaveAReason`: every file that has been in work is accounted for (`Accounted`), and when no
  entry can follow, what is left lies in an unreadable folder, because of the folders it is in a least one is
  not left. Of `FileReading` (any block size and length) `ReadsJoin`: the offset is the end of the last chunk. Of
  `Conversions` (inputs of any length and content): an `answer` is the answer to its `job` (`ConvertInv`), so
  - `ArgumentsAreKept`: what the parser has read of an escaped argument, split anywhere, is its characters so far
    and a row of backslashes that is still open (`Reads`); between two arguments it is the arguments so far
    (`Between`). Hypothesis, as in the run: no argument is empty.
  - `DigestsAreOfAllBytes`, for any block size: after each call the blocks transformed, and the bytes
    buffered behind them, are the bytes of all calls so far (`Absorbed`), and every digest given is right,
    unless one given before has overwritten the buffer, as under "Known limits" (`Good`).
  - `WhatIsWrittenIsRead`: audio and control packets, and base64.
- `BytesProofs`: the lemmas under them, and `FramesArrive`: every data packet of any frame is read as it was
  made, and the frame made of them is the frame that was sent. Hypothesis `Sendable`: what `ShardVideoFrame`
  refuses is left out, and the packet size fits in 16 bits, as the field for a payload's length does.
  What a prefix of a packet says the packet says (`Begins`), so that each field is read where it was written
  last (`HeaderIsRead`); the last packet reaches the end of the frame and no packet begins past it
  (`ShardsCover`); i bodies one after the other are the frame up to where body i ends (`BodiesJoin`). Base64 is
  cut into whole groups and a last one (`Thirds`), each coded and decoded by itself (`DigitsOf`, `BytesOf`).

Proved and not run, because a proof for every value says more than an instance: the type invariants,
`OnlyOpenNumbers`, `PicksMostIdle`, `FlagsFit`, `ImplementsMailbox`.

Induction. The theorems that take a predicate as a parameter cannot be used here; what is
proved for every finite set or number (the sums, the least number, the nested folders) is proved by a least
counterexample, from the theorem that a well-founded relation has minimal elements (`WFMin`), which takes none.
So are the folds over sequences that the conversions are written with: that `FoldLeft` and `FlattenSeq` take
one element after the other (`FoldSteps`, `FlattenSteps`) follows from their definition and a least set of
positions for which there is no function as they describe it, or more than one (`FoldingExists`, `FoldingUnique`).

Model-checked only:

- `NothingLeaks`, `NothingMisused`, `TrueMeansDone`: the functions are given row by row and have no
  parameters, so that TLC's run over all of them and all outcomes of their calls is already the whole statement.
- `FrameFromAnyShards`: the field of the code is built with `Bitwise`, which the prover does not take.
  `FramesArrive` is the part of it in which no data packet is lost, for frames of every size.
- `EveryTaskGetsItsTurn`, `GenerateReturns`, `StreamSettles`, `ReadEnds`: liveness under fairness, beyond the prover.

## Plan

Done: `VideoSharding`, `FrameReassembler`, `VideoChannel`; `Playout`, `JitterBuffer`, `AudioStream` with the
refinement; `Mailbox`, `WorkerLoop`, `Workers`, also with theirs, and `SnowflakeId`; the map, `MemoryStat`, `WsServer`, `Clipboard`,
`TaskRuntime`, `SharedPreference`; copies and file reading, packets and conversions, all of these with proofs of every safety property
the runs check; FEC and the rows of system calls, by TLC.

Left, in this order:

1. An abstract map whose walks are atomic, to say which histories of `ConcurrentMap` are linearizable.
2. Files in the clipboard (`clipboard_platform_win.cpp`): the data object that is asked from other threads.
3. `MemoryStat`'s table of threads together with the `Thread`s that register in it.

## Not modelled

- `MessageNotifier` (a wrapper of the dexode event bus) and the HTTP client: the state is in libraries
  that are not in the repository.
- `ConcurrentQueue` and `ConcurrentVector`: each operation is one lock and one call of the container.
  That two calls of theirs make no transaction is a matter of their callers, of which `src/` has none.
- The single-task constructor of `Thread`, `on_front_task_callback_`, getters and names.
- Results of system queries (lists of windows, processes, devices, icons), their parsing and formatting.
- Signal, number and image helpers (floating point without state), logging, macros, types.
- Third-party code: `qrcodegen`, `vdf_parser`, `uuid`; asio2, leveldb and Windows, which are external.

`PROJECT.json` gives the reason part by part.
