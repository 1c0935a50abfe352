---------------- MODULE UDPJubmoFrameReceiverImplementation ----------------
(***************************************************************************)
(* UDPJubmoFrameReceiverImplementation::Iterate and the loop of main.cpp:  *)
(* the one thread that gives the keyboard, the inserter, the receiver and  *)
(* the parser their turns, and SIGINT, which clears the run flag at any    *)
(* moment.  The parser and RingBufferPtr1 are their own module.            *)
(*                                                                         *)
(* The other two parts appear as far as the parser meets them.  Receiver:  *)
(* a poll finds some packets, which are stored one by one.  RingBufferPtr0 *)
(* is the queue that FrameQueue promises, counted in packets of the worst  *)
(* size.  Inserter: one message is read and published with the flags, the  *)
(* session id and the sequence number of that moment; how consumers see    *)
(* the stores is InserterImplementation's subject.                         *)
(*                                                                         *)
(* The model starts where Initialize has succeeded: ReturnValue is 0 and   *)
(* CommonFlagConnected set, and both stay so until Uninitialize.  The      *)
(* heartbeat, which touches nothing here, is left out.                     *)
(***************************************************************************)
EXTENDS Integers, Sequences

CONSTANTS
  BufferLines, LowWater, CounterModulus, WireFrames, Keys,   \* of the parser
  BufferPackets,   \* room of RingBufferPtr0, in packets
  LowWater0,       \* what the receiver asks for, in packets (16384 bytes)
  MaxEvents        \* packets that one poll may bring (32, EfEventState)

VARIABLES
  buffer_size, write_index, read_index, NumberOfStoredBytes, FramesStored, marks,
  SlipCounter, ptr, ringbufsnap, out, layout,      \* RingBufferPtr1
  state, SessionIdVal, CommonFlagShutdownReceived, CommonFlagSessionIdReceived,
  CommonValueSessionId, CommonValueSequenceNumber, timing, filter,
  frame, MessageIndex, DiscardFrame,               \* the parser's
  RingBufferPtr0,      \* packets stored for the parser
  polled,              \* events of the last poll, not handled yet
  StreamState, ApplicationRunFlag,
  pc,                  \* whose turn it is
  WriterFlags, WriterSessionId,                    \* shared memory
  inserted             \* auxiliary: what the inserter has published this turn

Parser == INSTANCE ParserImplementation

ASSUME RoomAssumption ==
  /\ Parser!WireAssumption
  /\ BufferPackets \in Nat /\ LowWater0 \in Nat \ {0} /\ MaxEvents \in Nat

ring1  == <<buffer_size, write_index, read_index, NumberOfStoredBytes, FramesStored,
            marks, SlipCounter, ptr, ringbufsnap, out, layout>>
parser == <<state, SessionIdVal, CommonFlagShutdownReceived,
            CommonFlagSessionIdReceived, CommonValueSessionId,
            CommonValueSequenceNumber, timing, filter, frame, MessageIndex,
            DiscardFrame>>
receiver == <<RingBufferPtr0, polled>>
writer   == <<WriterFlags, WriterSessionId, inserted>>
loop     == <<StreamState, ApplicationRunFlag, pc>>
vars     == <<ring1, parser, receiver, writer, loop>>

Nothing == [message |-> "none"]

BadEvent == [type |-> "bad"]

-----------------------------------------------------------------------------
Init ==
  /\ Parser!Init
  /\ RingBufferPtr0 = <<>> /\ polled = <<>>
  /\ StreamState = "wait" /\ ApplicationRunFlag = TRUE /\ pc = "iterate"
  /\ WriterFlags = {} /\ WriterSessionId = 0
  /\ inserted = Nothing

-----------------------------------------------------------------------------
(* Iterate: the turns that a pass is made of.                              *)

Turns == [ wait |-> <<"keyboard", "receiver", "parser", "return">>,
           in   |-> <<"inserter", "receiver", "parser", "keyboard", "return">> ]

TurnAfter(turn) ==
  LET turns == Turns[StreamState] IN
  turns[1 + CHOOSE i \in DOMAIN turns : turns[i] = turn]

SessionKnown == CommonFlagSessionIdReceived

WaitForSession ==
  /\ pc = "iterate" /\ StreamState = "wait"
  /\ IF ApplicationRunFlag /\ ~SessionKnown
       THEN pc' = "keyboard" /\ UNCHANGED StreamState
       ELSE pc' = "return" /\ StreamState' = "transit"
  /\ UNCHANGED <<ring1, parser, receiver, writer, ApplicationRunFlag>>

TransitToSession ==
  /\ pc = "iterate" /\ StreamState = "transit"
  /\ StreamState' = IF ApplicationRunFlag THEN "in" ELSE "transit"
  /\ pc' = "return"
  /\ UNCHANGED <<ring1, parser, receiver, writer, ApplicationRunFlag>>

MutantOnlyIfStored == IF layout = <<>> THEN "receiver" ELSE "inserter"
FirstTurn          == "inserter"

InSession ==
  /\ pc = "iterate" /\ StreamState = "in"
  /\ pc' = IF ApplicationRunFlag THEN FirstTurn ELSE "return"
  /\ UNCHANGED <<ring1, parser, receiver, writer, StreamState, ApplicationRunFlag>>

MutantTransitGoesOn == ApplicationRunFlag \/ StreamState = "transit"
Continues           == ApplicationRunFlag

\* while (StreamReaderPtr->Iterate());
Return ==
  /\ pc = "return"
  /\ pc' = IF Continues THEN "iterate" ELSE "done"
  /\ UNCHANGED <<ring1, parser, receiver, writer, StreamState, ApplicationRunFlag>>

-----------------------------------------------------------------------------
(* InserterImplementation::Iterate                                         *)

MutantNoShutdown == {"Connected", "InSession"}
MutantBothFlags  ==
  {"Connected", "InSession"} \cup IF CommonFlagShutdownReceived THEN {"Shutdown"} ELSE {}
FlagsNow ==
  {"Connected", IF CommonFlagShutdownReceived THEN "Shutdown" ELSE "InSession"}

MutantOnlyInSession ==
  IF CommonFlagShutdownReceived THEN UNCHANGED <<ring1, parser>> ELSE Parser!InserterReads
TakesMessage == Parser!InserterReads

\* Only the length field, no bytes of a message: nothing is published.
IsEmptyMessage(m) == m.len <= 2

\* The session id is stored whenever the flags change, and only then.
UpdateWriterFlags ==
  /\ WriterFlags' = FlagsNow
  /\ WriterSessionId' = IF FlagsNow # WriterFlags THEN CommonValueSessionId
                          ELSE WriterSessionId

Publish(m) ==
  [ message |-> m, seq |-> CommonValueSequenceNumber,
    flags |-> WriterFlags', session |-> WriterSessionId' ]

IterateInserter ==
  /\ pc = "inserter"
  /\ TakesMessage
  /\ UpdateWriterFlags
  /\ inserted' = IF layout' = layout \/ IsEmptyMessage(out'[2]) THEN Nothing
                   ELSE Publish(out'[2])
  /\ pc' = TurnAfter("inserter")
  /\ UNCHANGED <<receiver, StreamState, ApplicationRunFlag>>

-----------------------------------------------------------------------------
(* NetworkReceiverImplementationEFVI::Iterate                              *)

MutantAlwaysOpen == TRUE
ReceiverGateOpen == BufferPackets - Len(RingBufferPtr0) >= LowWater0

ReceiverHeldBack ==
  /\ pc = "receiver" /\ ~ReceiverGateOpen
  /\ inserted' = Nothing
  /\ pc' = TurnAfter("receiver")
  /\ UNCHANGED <<ring1, parser, receiver, WriterFlags, WriterSessionId, StreamState,
                 ApplicationRunFlag>>

PollReceiver(events) ==
  /\ pc = "receiver" /\ ReceiverGateOpen
  /\ polled' = events
  /\ inserted' = Nothing
  /\ pc' = "store"
  /\ UNCHANGED <<ring1, parser, RingBufferPtr0, WriterFlags, WriterSessionId,
                 StreamState, ApplicationRunFlag>>

StorePacket ==
  /\ pc = "store" /\ polled # <<>> /\ Head(polled) # BadEvent
  /\ Len(RingBufferPtr0) < BufferPackets
  /\ RingBufferPtr0' = Append(RingBufferPtr0, Head(polled))
  /\ polled' = Tail(polled)
  /\ UNCHANGED <<ring1, parser, writer, loop>>

\* do { ... } while (NumberOfPayloadBytes == 0)
StoreAgain ==
  /\ pc = "store" /\ polled # <<>> /\ Head(polled) # BadEvent
  /\ Len(RingBufferPtr0) = BufferPackets
  /\ UNCHANGED vars

\* An event in a bad state or of an unexpected type: the rest is forgotten.
ReceiverFails ==
  /\ pc = "store" /\ polled # <<>> /\ Head(polled) = BadEvent
  /\ ApplicationRunFlag' = FALSE
  /\ polled' = <<>>
  /\ UNCHANGED <<ring1, parser, RingBufferPtr0, writer, StreamState, pc>>

\* In __WAIT_FOR_SESSION__ the run flag is looked at once more before the
\* parser; the parser does so itself before it reads.
LeaveReceiver ==
  /\ pc = "store" /\ polled = <<>>
  /\ pc' = TurnAfter("receiver")
  /\ UNCHANGED <<ring1, parser, receiver, writer, StreamState, ApplicationRunFlag>>

-----------------------------------------------------------------------------
(* ParserImplementation::Iterate                                           *)

EndTurn == pc' = TurnAfter("parser")

ParserHeldBack ==
  /\ pc = "parser" /\ ApplicationRunFlag
  /\ Parser!IterateHeldBack
  /\ EndTurn
  /\ UNCHANGED <<receiver, writer, StreamState, ApplicationRunFlag>>

\* The ring is empty, or the run flag was found cleared.
NothingToParse ==
  /\ pc = "parser" /\ Parser!Idle
  /\ ~ApplicationRunFlag \/ (Parser!GateOpen /\ RingBufferPtr0 = <<>>)
  /\ EndTurn
  /\ UNCHANGED <<ring1, parser, receiver, writer, StreamState, ApplicationRunFlag>>

DropFrame ==
  /\ pc = "parser" /\ ApplicationRunFlag /\ RingBufferPtr0 # <<>>
  /\ Parser!DropFrame(Head(RingBufferPtr0))
  /\ RingBufferPtr0' = Tail(RingBufferPtr0)
  /\ EndTurn
  /\ UNCHANGED <<polled, writer, StreamState, ApplicationRunFlag>>

StartFrame ==
  /\ pc = "parser" /\ ApplicationRunFlag /\ RingBufferPtr0 # <<>>
  /\ Parser!StartFrame(Head(RingBufferPtr0))
  /\ RingBufferPtr0' = Tail(RingBufferPtr0)
  /\ UNCHANGED <<polled, writer, loop>>

WriteMessage ==
  /\ pc = "parser"
  /\ Parser!WriteMessage \/ Parser!WriteAgain
  /\ UNCHANGED <<receiver, writer, loop>>

FinishFrame ==
  /\ pc = "parser"
  /\ Parser!FinishFrame
  /\ EndTurn
  /\ UNCHANGED <<receiver, writer, StreamState, ApplicationRunFlag>>

-----------------------------------------------------------------------------
(* KeyboardReadInput::ReadKeyboardInput, of which the parser sees two keys *)

NoKey == UNCHANGED <<ring1, parser>>

ReadKeyboardInput ==
  /\ pc = "keyboard"
  /\ NoKey \/ Parser!Toggle
  /\ pc' = TurnAfter("keyboard")
  /\ UNCHANGED <<receiver, writer, StreamState, ApplicationRunFlag>>

\* signal_handler, between any two steps of the thread.
Interrupt ==
  /\ pc # "done" /\ ApplicationRunFlag
  /\ ApplicationRunFlag' = FALSE
  /\ UNCHANGED <<ring1, parser, receiver, writer, StreamState, pc>>

-----------------------------------------------------------------------------
\* What one poll may find; behind a bad event nothing is looked at.
GoodEvents == UNION { [1 .. n -> WireFrames] : n \in 0 .. MaxEvents }
Batches == GoodEvents \cup { Append(p, BadEvent) : p \in GoodEvents }

Iterate == WaitForSession \/ TransitToSession \/ InSession \/ Return

Receive ==
  \/ ReceiverHeldBack \/ StorePacket \/ StoreAgain \/ ReceiverFails \/ LeaveReceiver
  \/ \E events \in Batches : PollReceiver(events)

Parse ==
  \/ ParserHeldBack \/ NothingToParse \/ DropFrame \/ StartFrame
  \/ WriteMessage \/ FinishFrame

Thread == Iterate \/ IterateInserter \/ Receive \/ Parse \/ ReadKeyboardInput

Ended == pc = "done" /\ UNCHANGED vars

Next == Thread \/ Interrupt \/ Ended

\* The thread runs on; nothing is assumed of the network, the keyboard or the
\* signal.
Spec == Init /\ [][Next]_vars /\ WF_vars(Thread)

-----------------------------------------------------------------------------
\* Every field has the type of its declaration.
TypeOK ==
  /\ Parser!TypeOK
  /\ RingBufferPtr0 \in Seq(WireFrames) /\ Len(RingBufferPtr0) <= BufferPackets
  /\ polled \in Seq(WireFrames \cup {BadEvent})
  /\ StreamState \in {"wait", "transit", "in"} /\ ApplicationRunFlag \in BOOLEAN
  /\ pc \in {"iterate", "inserter", "receiver", "store", "parser", "keyboard",
             "return", "done"}
  /\ WriterFlags \in { {}, {"Connected", "InSession"}, {"Connected", "Shutdown"} }
  /\ WriterSessionId \in Nat

Inserted == inserted # Nothing

\* What was stored in the course of a session, its draining included, is published
\* under the id of that session and with the flag that says so, although the id
\* is stored only when the flags change and the messages wait in the ring for
\* any number of passes (InserterImplementation.cpp:139, ParserImplementation.cpp:203).
\* It is the id of the message's own header if it came before the shutdown frame
\* and the filter was on; behind the shutdown frame nothing is filtered, and a
\* message of any session comes out as one of the session that ends.
InsertedUnderIdOfStoring ==
  Inserted /\ inserted.message.phase.state # "startup" =>
    /\ inserted.session = inserted.message.phase.session
    /\ "InSession" \in inserted.flags
    /\ inserted.message.phase.state = "session" =>
         inserted.session = inserted.message.frame.session

\* What is published while the flags say shutdown was stored after the shutdown
\* was announced and before the next session: the frame that completed the
\* announcement, which may be a late one of the session that ended, and frames
\* of the shutdown type (ParserImplementation.cpp:245 and :252).
OnlyStraysUnderShutdown ==
  Inserted /\ "Shutdown" \in inserted.flags => inserted.message.phase.state = "startup"

\* No shutdown is overlooked: when the next session takes the flag back, the
\* inserter has published it.  The parser raises the flag with one frame and takes
\* it back with the next (ParserImplementation.cpp:249 and :220) without looking
\* at the inserter; if the latter missed it, the next session would go on under the
\* id of the last one, which is stored only when the flags change.
ShutdownIsPublished ==
  [][ CommonFlagShutdownReceived /\ ~CommonFlagShutdownReceived' =>
        "Shutdown" \in WriterFlags ]_vars

Newest == IF layout = <<>> THEN inserted.message.frame
            ELSE layout[Len(layout)].frame.frame

\* The number that a message is published with is the one of the frame that
\* the newest stored message came in, and nothing of a malformed frame ever
\* changes it (InserterImplementation.cpp:187, ParserImplementation.cpp:172).
NumberOfNewestFrame == Inserted => inserted.seq = Newest.seq

-----------------------------------------------------------------------------
(* What makes the properties of what is published inductive.                *)

\* Whose turn can be in which state of the stream; a frame is stored within one
\* turn of the parser, before which nothing published is left over.
TurnsOK ==
  /\ pc \in {"inserter", "receiver", "store", "parser", "keyboard"} =>
       StreamState \in {"wait", "in"}
  /\ pc = "inserter" => StreamState = "in"
  /\ ~Parser!Idle => pc = "parser"
  /\ pc \in {"store", "parser"} => ~Inserted

\* The inserter has no turn before the first session is known.
SilentBeforeSession ==
  /\ StreamState # "in" => WriterFlags = {}
  /\ state = "startup" => ~CommonFlagSessionIdReceived
  /\ state = "startup" /\ ~CommonFlagShutdownReceived =>
       StreamState = "wait" \/ (StreamState = "transit" /\ ~ApplicationRunFlag)

\* Between an announced shutdown and the next frame the inserter has its turn.
ShutdownSeen ==
  CommonFlagShutdownReceived /\ "InSession" \in WriterFlags =>
    ~Parser!Idle \/ pc \in {"keyboard", "return", "iterate", "inserter", "done"}

\* Once a session is known, the inserter has a turn before the parser's next frame.
InserterComesFirst ==
  /\ state # "startup" => CommonFlagSessionIdReceived
  /\ WriterFlags = {} =>
       /\ ~CommonFlagShutdownReceived
       /\ \/ state = "startup" /\ StreamState # "in"
          \/ ~Parser!Idle /\ StreamState = "wait"
          \/ pc \in {"return", "iterate", "inserter", "done"}

\* So the session id in the shared memory is never behind the flags.
PublishedId ==
  "InSession" \in WriterFlags => WriterSessionId = CommonValueSessionId

IInv ==
  /\ TypeOK
  /\ Parser!IInv
  /\ Parser!NewestNumber
  /\ TurnsOK
  /\ SilentBeforeSession
  /\ ShutdownSeen
  /\ InserterComesFirst
  /\ PublishedId
  /\ InsertedUnderIdOfStoring
  /\ OnlyStraysUnderShutdown
  /\ NumberOfNewestFrame

-----------------------------------------------------------------------------
\* "writer's current session has been shutdown (no further sequence numbers are
\* being inserted)" (InserterSharedMemoryFormatDefinitions.h:85).
NothingInsertedUnderShutdown == ~(Inserted /\ "Shutdown" \in inserted.flags)

\* "Sequence number of the message (int64)" (InserterImplementation.cpp:372).
NumberOfOwnFrame == Inserted => inserted.seq = inserted.message.frame.seq

\* Behind a bad event there is nothing.
NumberOfPackets(events) ==
  IF events # <<>> /\ events[Len(events)] = BadEvent THEN Len(events) - 1 ELSE Len(events)

\* Receiver and parser look for room once and then store all that one poll, or
\* one frame, brings.  A burst is more than they have made sure of.
WithinGates ==
  /\ NumberOfPackets(polled) <= LowWater0
  /\ ~Parser!Idle => Parser!FitsGate(frame)

NoBurst == []WithinGates

\* Neither of the two loops around a Write has to repeat it.
NothingRefused ==
  /\ pc = "store" /\ polled # <<>> /\ Head(polled) # BadEvent =>
       Len(RingBufferPtr0) < BufferPackets
  /\ ~Parser!Idle /\ MessageIndex <= Len(frame.messages) /\ ~DiscardFrame =>
       Parser!Ring1!Accepts(Parser!Ring1!Lines(Parser!ToStore))

\* The two gates are enough: with whatever fits through them, in any order of
\* turns and with the rings at any fill, no Write is refused, although nothing
\* looks for room again before the next packet or message is stored
\* (NetworkReceiverImplementationEFVI.cpp:274, ParserImplementation.cpp:136).
NeverSpins == NoBurst => []NothingRefused

\* What makes it inductive: a poll has found the room for what it brought.
PolledFits ==
  pc = "store" => Len(RingBufferPtr0) + NumberOfPackets(polled) <= BufferPackets

\* Every pass of the loop comes to its end: neither of the loops that repeat a
\* refused Write is entered for good (NetworkReceiverImplementationEFVI.cpp:274,
\* ParserImplementation.cpp:134), unless a burst comes.
EveryPassEnds == NoBurst => (pc # "iterate" ~> pc \in {"iterate", "done"})

\* SIGINT, or an error of the receiver, ends the loop from every state of the
\* stream and wherever in a pass it comes, again unless a burst is in the way:
\* the loops that repeat a Write do not look at the run flag.
InterruptEndsLoop == NoBurst => (~ApplicationRunFlag ~> pc = "done")

\* In a session a full RingBufferPtr0 never stays full: the parser takes from it
\* once the inserter has made room in RingBufferPtr1, message by message, which
\* it does under the shutdown flag as well (ParserImplementation.cpp:48).
BackPressureEnds ==
  NoBurst => ((StreamState = "in" /\ ~ReceiverGateOpen)
                ~> (ReceiverGateOpen \/ pc = "done"))

=============================================================================
