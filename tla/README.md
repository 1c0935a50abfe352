# udp-sm: models and proofs

udp-sm receives a market data stream as (jumbo) UDP packets through ef_vi,
cuts the frames into messages and publishes these in a shared memory file that
consumers in other processes map. One thread does all of it in a loop:

    NIC -> network receiver -> RingBufferPtr0 -> parser -> RingBufferPtr1 -> inserter -> shared memory -> consumers
                                                   |                            ^
                                                   +---- CommonData (session) --+

Nothing of this is protected by locks. What is concurrent: consumers read the
shared memory while it is written, the network card fills packet buffers, and
SIGINT may come between any two instructions. What is hard in one thread: a
step that repeats a refused `Write` waits for a later step of the same loop,
and what one part leaves in a ring or in CommonData is used by another part an
unknown number of passes later.

## Inventory

| component | state | operations | what makes it correct |
|---|---|---|---|
| `RingFIFOBuffer` | array, read and write index, byte and frame count, marks, snapshot | Initialize, Uninitialize, Write, Read, Snap, Discard, GetCapacity | frames come out whole and in order; Discard removes exactly what was written since Snap; an empty ring takes any frame |
| `InserterImplementation` | flags, session id, max sequence, commit and reserve sequence, data section, heartbeat time | Initialize, Iterate, Uninitialize | no consumer takes a torn record for valid; messages appear under the right session |
| `ParserImplementation` | session state machine, frame being parsed | Iterate | a frame counts whole or not at all; sessions mix no further than the code lets them |
| `NetworkReceiverImplementationEFVI` | packet buffers and their free list, receive ring, jumbo reassembly | Initialize, Iterate, Uninitialize | no buffer lost or used twice; a frame is the bytes of one packet |
| `UDPJubmoFrameReceiverImplementation`, `main` | stream state, ownership of all parts | Initialize, Iterate, Uninitialize | every part gets its turn; SIGINT ends the loop; what was acquired is released, once |
| `KeyboardReadInput` | configuration flags; the buffer of stdin | KeyboardHit, ReadKeyboardInput, signal_handler | every key is read; a toggle does not spoil what is under way |
| `CommonData` | the flags and values the parts exchange | none | see the parts |
| `Percentile` | samples | Add, Print, Reset | percentiles of the samples added since the last reset |
| `NetInterface`, `ProcessorState` | a socket; none | open, close; stick to a core | what may fail at the start stops the start |
| `Tsc`, `InputArguments`, `Logger`, `utils`, `mjson` | none of interest | I/O, configuration, output; mjson is vendored | not modelled |

`PROJECT.json` lists the components with what is left out of each, every
hazard of the code at its line, and which property is there for it.

## Modules

| module | what it is |
|---|---|
| `FrameQueue` | what the ring promises: a queue with a mark and a roll back to it |
| `RingFIFOBuffer` | the ring, line by line; refines `FrameQueue` |
| `RingFIFOBuffer_proofs` | its inductive invariant, its properties, the refinement |
| `SharedLog` | what the shared memory promises a consumer: an append-only log and a cursor that may be overrun |
| `InserterImplementation` | the inserter, store by store, with a consumer; refines `SharedLog` |
| `InserterImplementation_proofs` | its inductive invariant, its properties, the refinement |
| `MessageStream` | what the parser promises the inserter: frames that count whole or not at all |
| `ParserImplementation` | the parser over an `INSTANCE` of `RingFIFOBuffer`; refines `MessageStream` |
| `ParserImplementation_proofs` | its inductive invariant, its properties, the refinement |
| `PacketChannel` | what the receiver promises the parser: whole packets, each once, in the order of arrival |
| `NetworkReceiverImplementationEFVI` | packet buffers, reassembly and the card, over an `INSTANCE` of `RingFIFOBuffer`; refines `PacketChannel` |
| `NetworkReceiverImplementationEFVI_proofs` | its inductive invariant, its properties, the refinement |
| `UDPJubmoFrameReceiverImplementation` | the main loop with SIGINT: the composition of `ParserImplementation` with the other parts as the parser meets them |
| `UDPJubmoFrameReceiverImplementation_proofs` | its inductive invariant, its safety properties, that it is a behaviour of the parser's module |
| `ProgramLifecycle` | what is around the loop: every call of the start that may fail, both calls of Uninitialize, SIGINT |
| `ProgramLifecycle_proofs` | its inductive invariant, its safety properties |
| `Percentile` | the array of latencies and its table |
| `KeyboardReadInput` | terminal, stdin and keys, with the time stamps that T switches; extends `Percentile` |
| `KeyboardReadInput_proofs` | the inductive invariant and the safety properties of both |
| `MC...` | the instances that TLC checks |

**Ring.** Every index and count of the code is a multiple of 64 bytes, so the
model counts lines; a frame is a length and a value that stands for its bytes.
`ptr` says for every line which part of which frame it holds, so a frame that
is written over shows. `layout` is an auxiliary variable: the stored frames in
order, with their distance from `read_index`. `Read` decides all it does from
`ptr` and the indices as the code does; `layout` is only compared with it. The
callers of `Discard` never read between `Snap` and `Discard`, which is why
`Read` forgets the snapshot.

**Inserter.** Each store to the shared memory is an action: the reserve
sequence, the begin and the end of the write of every line (in between it holds
bytes of two records), the commit sequence, flags, session id and the max
sequence. The program builds for x86-64 only, where stores take effect in
program order. The consumer is not in the repository; it follows the comments
of `HandleSharedMemoryFrames`: read up to the commit sequence, pass over
skips, and trust a copy only if the reserve sequence shows the lines were not
claimed while copying. It copies line by line between the writer's steps.
Between two calls of `Iterate` the parser handles at most one frame, and
CommonData changes as that frame may change it (`ParserLeaves`): shutdown flag
and session id, and the sequence number along with them.

**Parser.** `StartFrame` is the part of `IterateInternal` up to the loop,
`WriteMessage` one pass of the loop, `FinishFrame` the roll back or the new
sequence number; nothing else runs while a frame is stored, so all other
actions wait for `Idle`. A frame is what the checks can tell apart: its header,
type, session, its messages with length and verdict, and the bytes left over
behind the last one. `WriteAgain` is a refused `Write`, which the code repeats.
`phase` in a stored message is auxiliary: in which state, and of which session,
the parser was when it stored it. Sessions are filtered in ParserStateSession
only. Behind the shutdown frame, while the ring drains, frames of any session
are stored, and the inserter publishes them under the id of the session that
ends; what comes between two sessions is published under the shutdown flag, or
under the next session if it still waits then. `SessionsStayApart` states what
is left: what was stored in a session waits under that session's id, what came
between two sessions lies before all of it, what came behind the shutdown frame
after the rest of it, and no session begins while messages of the one before
wait. The inserter may take a message, and the keyboard may toggle a flag,
between any two frames; this is more than the loop does, which reads one
message per pass; the real schedule is the application's.

**Receiver.** The model starts when `Initialize` has ended. A buffer is in
`free_pool`, posted in `rx_ring`, or named by an event in `event_queue` or
`EfEventState`; `content` is what the card wrote to it last, so that a buffer
used twice shows in the packet that is put together. `Poll` is the call of
`ef_eventq_poll`, then comes one action per event and `RefillRxRing`. The card
takes its steps in between. What is assumed of it and of the library stands at
the head of the module, and follows from how the code uses them: the comment in
`HandleRxEventAccept` on sizes, the checks of start and continuation.
In the refinement a packet waits from the event of its last fragment on until it
is stored. An error of the receiver ends the program, and with it all that waits;
a packet for which too few buffers are posted never begins to arrive.

**Application.** A pass of the loop is the sequence `Turns[StreamState]`; `pc`
says whose turn it is, and each turn is one or more actions, so that SIGINT
comes between any two of them. The parser and RingBufferPtr1 are an `INSTANCE`
of `ParserImplementation`, steps and all. RingBufferPtr0 is the queue that
`FrameQueue` promises (and `RingFIFOBuffer_proofs` proves), counted in packets;
a poll of the receiver finds a batch of them and stores it one by one, as far
as there is room; the inserter reads one message per pass and publishes it.
`inserted` is auxiliary: what the pass has published, under which flags,
session and number.

**Lifecycle.** One action per call that may fail or that changes what the
program holds, in the order of the three Initialize functions; then the loop
as one step, then one action per object that Uninitialize deletes. `held` is
what the system would say that the program holds, `acquired` what the
receiver's own flags say. `faults` is auxiliary: whatever is freed without
being held, and every object used after it was deleted.

**Keyboard.** A line is a key and enter. KeyboardHit looks at the terminal,
getchar takes a whole line from it and returns half of it. The messages are
reduced to whether they carry a time stamp, because T decides that three
times: in the receiver, the parser and the inserter.

## Runs

| run | bounds | what it shows |
|---|---|---|
| `ring` | 6 lines, frames of 1 and 3 lines | types, stored frames intact, count never too low, empty ring takes all, marks cover the state, the ring refines the queue |
| `inserter` | 4 lines, messages of 1 to 3 lines, 2 sessions, 2 sequence numbers, 9 lines reserved at most | records intact, no torn copy, messages under the published session, max sequence of a committed message, the shared memory refines the log |
| `inserter_zero` | as `inserter`, 3 lines | *violated*: the max sequence does not start with 0 |
| `parser` | ring of 4 lines, gate of 3; frames of one or two messages of one or two lines: two sessions, shutdown, stamped, malformed; timing and filter toggled | frames count whole or not at all; shutdown only over a drained ring; messages wait under the id of the session they were stored in, filtered ones of that session alone; a frame that fits through the gate meets no full ring |
| `parser_long` | ring of 4 lines, gate of 2, a frame of 3 lines | *violated*: storing a frame need not end |
| `receiver` | 4 packets of 1 or 2 fragments, 5 buffers, receive ring of 4, batches of 2, 2 events per poll, ring of 3 lines, gate of 1 | buffers conserved, refill within bounds; the receiver refines the channel: whole packets in order, none left out |
| `receiver_discard` | as `receiver`, 3 packets | *violated*: a rejected jumbo packet leaves the reassembly inconsistent |
| `application` | rings of 2 lines and 1 packet, gates of 1, polls of 0 to 2 packets, two sessions with a shutdown between them, filter toggled, SIGINT and receiver errors at any step | the id, flags and numbers that messages are published under; every shutdown published before it is taken back; no refused `Write` without a burst; every pass ends; SIGINT ends the loop; in a session a full ring does not stay full |
| `application_sequence` | as `application` | *violated*: the number of a message is not that of its own frame |
| `application_shutdown` | as `application` | *violated*: nothing is inserted under the shutdown flag |
| `lifecycle` | none: the state space is finite | the loop runs only when all is ready; no release or use of what is not there; nothing held in the end; shutdown published; SIGINT ends the program |
| `keyboard` | 4 lines typed, 4 measurements, 2 percentiles, ints below 4, 1 message waiting | every key is read; the table shows percentiles; a stamp is published only after a toggle |

Why the bounds are enough. The ring has every relation of a frame to the end of
the array at these sizes: it fits, fits to the byte, skips one line, skips
two; the theorems cover all sizes. In the inserter `MaxReserve` lets the writer
go round the data section twice more than the consumer, so a consumer can be
overrun in the middle of a copy; it is the only bound on a counter.
`CounterModulus` is the width of two event counters of the ring that nothing
reads. In the parser's run each frame meets a ring that is empty, partly full
or below the gate, with its indices at every line; four lines hold messages of
the old session, of the shutdown, and one that comes after it. A message of two
lines may meet the last line of the array and needs exactly the three lines of
the gate then; the malformed frame may need four, so that `WriteAgain` occurs. In
the receiver's runs five buffers make every buffer go round once; a pass may
see half a packet, two packets or none, and the receive ring runs empty.
`MaxArrivals` bounds the packets. In the application two lines let messages of
two frames wait at once, and a poll of two packets is more than the ring of one
takes; no counter grows there. Four keys are T, %, # and one more in any
order, or T off and on again; measurements may be one apart, equal, or too far
apart for an int.

Fairness. `FrameIsFinished` is checked under weak fairness of the step inside
`IterateInternal`, the liveness of the application under `WF_vars(Thread)`, of
the lifecycle under `WF_vars(Main)`: no more than that the one thread runs on.
`KeysAreRead` uses `WF_vars(ReadKeyboardInput)`, because every pass of the loop
ends with the keyboard, which is what `EveryPassEnds` shows. Nothing is assumed
of the network, the signal, the user or the consumers. A refused `Write`
changes nothing when repeated, so a parser that spins is a behaviour that
stutters for ever: this is what `parser_long` finds.

The liveness of the application is stated under `NoBurst`: no poll brings more
packets than the receiver's gate asks room for, and the messages of every frame,
with the one skip that they may cause, fit into the lines of the parser's gate
(`FitsGate`). The code does not guarantee that: both gates ask for 16384 bytes once, while a poll
may bring 32 packets of up to 9000 bytes and a frame any number of messages.
Without the condition all three properties fail, the way `parser_long` shows;
the hazards at `ParserImplementation.cpp:136` and
`NetworkReceiverImplementationEFVI.cpp:274` are these. `NeverSpins`, which is
proved, says that a burst is the only way to get there. `BackPressureEnds` holds
in a session only: before the first one nobody reads RingBufferPtr1, and frames
of the shutdown type fill it for good (`UDPJubmoFrameReceiverImplementation.cpp:96`).

Deadlock is checked in all runs except those of the inserter and the receiver:
after `Uninitialize`, or after an error in the receiver, the program has ended,
and the bounds stop the writer and the card. In the application and the
lifecycle the end is a step of its own (`Ended`).

## Disagreements found

* `inserter_zero`: the max sequence starts from a member that nobody assigned.
* `parser_long`: the parser is held back below 16384 free bytes, but a frame of
  many short messages takes more, since each takes whole lines; its `Write` is
  repeated for ever by the only thread that could drain the ring.
* `receiver_discard`: the handler of a discard event does not end the
  reassembly, so one rejected jumbo packet makes the program stop at the next
  packet, as a state that its comment calls inconsistent.
* `application_sequence`: a message is published with the number of the frame
  that was parsed last, not of its own; `NumberOfNewestFrame` shows which number
  that is.
* `application_shutdown`: `InserterSharedMemoryFormatDefinitions.h:85` says of
  the shutdown flag that no further sequence numbers are being inserted; the
  frame that completes the shutdown, and what comes between two sessions, is
  inserted under it. That it is nothing else is `OnlyStraysUnderShutdown`; a
  late frame of the session that ended may be the one that completes it.

Met while modelling, and not a run of their own:

* The comments at `InserterImplementation.cpp:31` and `:261` say that the max
  sequence is written at the end of every tick; it is written with the
  heartbeat, once per second.
* Reading a frame behind a skip gives back the skipped bytes but not those of
  the frame (`RingFIFOBuffer.cpp:214`), so the byte count drifts above the truth
  until the ring is empty. The comment at `:221` expects bytes to be left over
  there; the model counts as the code does, and `RingNeverUndercounts` shows
  that the error is on the safe side.
* `SetWriterFlags`, called at the end of Initialize "to update WriterFlags to
  connected" (`UDPJubmoFrameReceiverImplementation.cpp:85`), sets a member and
  nothing in the shared memory.
* A SIGINT before the inserter is initialized is lost, because its Initialize
  sets the run flag (`InserterImplementation.cpp:364`); `InterruptEndsProgram`
  is stated from there on. A SIGINT after CommonData is deleted writes through a
  dangling pointer; `NoFaultAtEnd` names this and one other fault and excludes
  all the rest.
* A program that failed to start exits with the status of Uninitialize, not with
  its own (`main.cpp:12`), and a receiver that was initialized half way is never
  released (`NetworkReceiverImplementationEFVI.cpp:487`).

## Proofs

TLAPS checks everything below for all values of the constants, under the named
assumptions of the modules: sizes are positive; a frame takes at most half of
the ring (16384 bytes against 2 MiB); a message fits into the data section.

*Ring.* `IInv` ties the indices and counts to `layout`: frames lie in order
without overlap within the counted lines (`OrderedOK`, `NeverUndercounts`),
each starts where its predecessor ends or behind a zeroed line that sends the
reader to line 0 (`SkipsOK`), `write_index` is where the last one ends
(`IndicesOK`), and the snapshot is a prefix of the present state (`SnapOK`).
`StoredFramesIntact` alone is not inductive: that `Write` hits no stored line
needs the order of the frames and the byte count, that `Read` finds the frame
needs the skips, that `Discard` restores a good state needs the snapshot. The
marks need a statement of the snapshot's marks beside it (`MarksInv`).
`Room` says when frames that come one after the other all find room, wherever
the indices stand: the array has one end, so at most one of them skips, and a
skip costs less than the longest of them takes (`RoomAccepts`, `WriteKeepsRoom`).
Theorems: `RingInvariant`, `RingTypes`, `RingKeepsFrames`,
`RingNeverUndercounts`, `RingEmptyAcceptsAll`, `RingMarksCover`,
`RingImplementsQueue`.

*Inserter.* `IInv` says that the log is contiguous and ends at the commit
sequence (`LogOK`), where the record being written lies and which of its lines
are done (`WritingOK`), that the reserve sequence is ahead of the commit
sequence exactly while a record is written (`SequencesOK`), and that what the
consumer copied is the record at its position as long as that is unclaimed
(`ConsumerOK`). Two records whose positions are less than one round apart do
not share a line: this lemma about `%` carries the whole argument. Theorems:
`InserterInvariant`, `InserterTypes`, `LiveRecords`, `WholeRecords`,
`PublishedSession`, `MaxSequenceCommitted`, `InserterImplementsLog`.

*Parser.* The ring is used through its theorems
(`RP == INSTANCE RingFIFOBuffer_proofs`): what the parser needs of it is which
frames `StoredFrames` holds before and after an operation, never a line.
`DrainedBeforeShutdown` and `SessionsStayApart` are not inductive. `IInv`
adds that in a session each frame that passes the filter carries the published
id (`SessionPublished`, `FrameOfSession`), that between two sessions only
messages stored there wait, and before the shutdown frame none that came behind
it (`PhasesOfRing`), that of those stored between two sessions only the first
frame may be of another type than shutdown, because the announcement found the
ring drained (`StraysOK`), that an announced shutdown has ended
the session (`ShutdownIsOver`), and that a frame being stored lies behind the
snapshot with as many messages as were counted (`FrameBehindSnap`), so that the
roll back takes exactly these and the refinement can tell a whole frame from a
part of one.
That a frame which fits through the gate meets no refused `Write` needs more
than `IInv`: the room for the messages still to come (`GateRoom`). It holds at
the first message because the gate was open, and each `Write` takes no more
than its message's share (`WriteKeepsRoom`). The sum of the messages' lines is
stated without recursion, by the positions at which they end (`Placings`).
Theorems: `ParserInvariant`, `ParserTypes`,
`ParserDrainsBeforeShutdown`, `ParserKeepsSessionsApart`,
`ParserImplementsStream`, `ParserNeverSpins`.

*Receiver.* The chain of facts begins at the card: the buffer of every event
that waits still holds the fragment that the event announces
(`EventsFaithful`), because a buffer is at one place only (`BuffersConserved`)
and the card writes to posted ones. Events come in the order of packets and
their fragments (`EventsContiguous`, `NumbersOrdered`, `ArrivalOK`), so `data`
holds what came before the fragment handled next (`GatheredSoFar`), and what is
stored is whole and newer than all stored before (`StoredFirst`). That
`RefillRxRing` never finds the pool empty is counting: as long as no polled
event waits, pool and fill level add up to PKT_POOL_SIZE, the buffers being
conserved, and a refill takes no more than the receive ring has room for.
For the refinement a packet waits if an event of its last fragment does.
Fragments leave the front of the events and join them at the end, so handling
one removes at most the oldest packet that waits (`HandledPackets`,
`OldestFirst`), and what `AcceptLast` stores is that one: what has been put
together is what its event stands for (`AcceptLastStores`). What the card writes
meanwhile touches no packet that waits (`FragmentFacts`).
Theorems: `ReceiverInvariant`, `ReceiverTypes`, `ReceiverConservesBuffers`,
`ReceiverForwardsWholePackets`, `ReceiverRefillsWithinBounds`,
`ReceiverImplementsChannel`.
`ForwardsWholePackets` is what the channel means for one state of the ring; it is
part of `IInv`, and no run checks it beside the channel.

*Application.* Each step of the loop is a step of the parser, or leaves it
alone, so the parser's lemmas carry over (`PP == INSTANCE
ParserImplementation_proofs`). To them `IInv` adds the order of the turns
(`TurnsOK`), that nothing is published before the first session
(`SilentBeforeSession`), that the inserter has seen an announced shutdown
before the next session can start, because it has a turn between two turns of
the parser (`ShutdownSeen`), that it has had its first turn before the parser's
second frame of a session (`InserterComesFirst`), and that the id in the shared
memory is the parser's (`PublishedId`). From the two about turns follows that no
shutdown goes by unpublished (`ShutdownIsPublished`); without that the next
session would keep the last one's id, which is stored only when the flags change.
That every behaviour of the loop is one of the parser's module is a theorem too
(`LoopRunsParser`), so what is proved of the parser, its refinement included,
holds in the program. The receiver's half of `NeverSpins` is that a poll
finds the room for what it brings (`PolledFits`), since nothing else stores
packets; the parser's half is `GateRoom`.
Theorems: `LoopInvariant`, `LoopTypes`, `LoopPublishesIdOfStoring`,
`LoopPublishesOnlyStrays`, `LoopPublishesShutdown`, `LoopPublishesNewestNumber`,
`LoopRunsParser`, `LoopNeverSpins`.

*Lifecycle.* The run covers all of it, there being no constants; the proof says
why. At every step `IInv` ties the objects and the resources to how far the
start came (`ObjectsOK`, `AcquiredOK`, `MappingOK`): a part is deleted after
those that use it, and what the receiver's flags name it holds. A
return value of 0 says that every call succeeded (`ReadyOK`), and that the
program entered the loop says that it was 0 then (`RanOK`).
Theorems: `LifecycleInvariant`, `LifecycleTypes`, `ProgramRunsOnlyWhenReady`,
`ProgramEndsCleanly`, `ProgramHoldsNothing`, `ProgramPublishesShutdown`.

*Keyboard and percentiles.* That a list can be sorted is proved without
induction: an element goes to the position that is the number of elements not
behind it (`SortExists`). So `qsort` leaves a sorted arrangement whenever an int
tells the order, sorting twice leaves an arrangement of the same measurements,
ranks do not depend on the arrangement, and the element at `Index(i)` is the
percentile (`RowOfTable`). `IInv` adds that the array is what was measured until
it is full and an arrangement of it from then on (`ArrayArranged`), and that a
stamp which the inserter would not take off now was made before a toggle
(`StampsExplained`). Theorems: `KeyboardInvariant`, `KeyboardTypes`,
`PercentilesOfMeasurements`, `StampsOnlyAfterToggle`.

Assumptions, beside those of the ring and the inserter: a message takes at
most half of RingBufferPtr1 (`WireAssumption`, `RoomAssumption`); one batch of
the refill fits into the receive ring, and the pool has as many buffers as the
receive ring has room for (`PoolAssumption`); the number of measurements is a
multiple of the number of percentiles (`PercentileAssumption`).

Only model-checked: liveness, which is out of the prover's reach. `NeverSpins`
and `GateSuffices` are what can be proved of it: that no `Write` is refused, from
which every pass ends as soon as the thread runs on.

## Plan

1. done: `FrameQueue`, `RingFIFOBuffer`, proofs
2. done: `SharedLog`, `InserterImplementation`, proofs
3. done: `MessageStream`, `ParserImplementation`, proofs
4. done: `PacketChannel`, `NetworkReceiverImplementationEFVI`, proofs
5. done: `UDPJubmoFrameReceiverImplementation`, proofs
6. done: `ProgramLifecycle`, proofs
7. done: `Percentile`, `KeyboardReadInput`, proofs
8. open: `PacketChannel`, which the receiver is proved to implement, in the place
   of the queue that the application has for it; the application's queue counts
   packets, the channel's ring lines, so the gate has to be restated for both

## Not modelled

The time stamp counter, arguments and JSON, logging: they are I/O or run once
before the loop and keep no state. Of the keyboard, the keys that change only
what is printed. Of the inserter, the variant for System V shared memory, which
the build leaves out. A restart of the writer under readers that still map the
old file is the readers' affair, and these are not in the repository; the
truncation is the step `OpenFile`. The values of latencies: any may be measured.
The layout of headers and the byte order: a frame is what the checks tell apart.
