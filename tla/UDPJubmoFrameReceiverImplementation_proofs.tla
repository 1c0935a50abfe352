-------------- MODULE UDPJubmoFrameReceiverImplementation_proofs --------------
(***************************************************************************)
(* Proofs about the main loop: under which session, flags and number a     *)
(* message is published, for every size of the rings and every set of      *)
(* frames.  What the parser does is taken from its own theorems.           *)
(***************************************************************************)
EXTENDS UDPJubmoFrameReceiverImplementation, SequenceTheorems, TLAPS

\* The parser, with its theorems.
PP == INSTANCE ParserImplementation_proofs

-----------------------------------------------------------------------------
(* The parser, through its theorems.                                        *)

\* Parser and PP are two instances of one module.
LEMMA SameParser ==
  /\ Parser!WireAssumption <=> PP!WireAssumption
  /\ Parser!Init <=> PP!Init
  /\ Parser!IInv <=> PP!IInv
  /\ Parser!IInv' <=> PP!IInv'
  /\ Parser!NewestNumber <=> PP!NewestNumber
  /\ Parser!NewestNumber' <=> PP!NewestNumber'
  /\ Parser!InserterReads <=> PP!InserterReads
  /\ [Parser!Next]_(Parser!vars) <=> [PP!Next]_(PP!vars)
  /\ Parser!Stored = PP!Stored
  /\ Parser!GateRoom <=> PP!GateRoom
  /\ Parser!GateRoom' <=> PP!GateRoom'
  /\ Parser!GateSuffices <=> PP!GateSuffices
BY DEF
      Parser!MessageLines, PP!MessageLines, Parser!Placings, PP!Placings,
      Parser!Spares, PP!Spares, Parser!FitsGate, PP!FitsGate,
      Parser!GateSuffices, PP!GateSuffices, Parser!GateRoom, PP!GateRoom,
      Parser!Ring1!Room, PP!Ring1!Room,
      Parser!Verdict, PP!Verdict, Parser!FrameType, PP!FrameType,
      Parser!States, PP!States, Parser!StampBytes, PP!StampBytes,
      Parser!Phases, PP!Phases, Parser!StoredMessage, PP!StoredMessage,
      Parser!StoredMessages, PP!StoredMessages, Parser!common, PP!common,
      Parser!session, PP!session, Parser!flags, PP!flags, Parser!walk,
      PP!walk, Parser!ring, PP!ring, Parser!vars, PP!vars, Parser!NoFrame,
      PP!NoFrame, Parser!Idle, PP!Idle, Parser!Init, PP!Init,
      Parser!StartSession, PP!StartSession, Parser!EndSession, PP!EndSession,
      Parser!RingDrained, PP!RingDrained, Parser!AnnounceShutdown,
      PP!AnnounceShutdown, Parser!KeepState, PP!KeepState,
      Parser!UpdateParserState, PP!UpdateParserState, Parser!ForeignFrame,
      PP!ForeignFrame, Parser!GateOpen, PP!GateOpen, Parser!IterateHeldBack,
      PP!IterateHeldBack, Parser!HeaderOK, PP!HeaderOK, Parser!DropFrame,
      PP!DropFrame, Parser!StartFrame, PP!StartFrame, Parser!Last, PP!Last,
      Parser!FitsExactly, PP!FitsExactly, Parser!MessageBad, PP!MessageBad,
      Parser!Phase, PP!Phase, Parser!ToStore, PP!ToStore, Parser!WriteMessage,
      PP!WriteMessage, Parser!WriteAgain, PP!WriteAgain, Parser!TakesBack,
      PP!TakesBack, Parser!NumberAfter, PP!NumberAfter, Parser!FinishFrame,
      PP!FinishFrame, Parser!InFrame, PP!InFrame, Parser!InserterReads,
      PP!InserterReads, Parser!ToggleTiming, PP!ToggleTiming,
      Parser!ToggleFilter, PP!ToggleFilter, Parser!Toggle, PP!Toggle,
      Parser!Next, PP!Next, Parser!TypeOK, PP!TypeOK, Parser!Stored,
      PP!Stored, Parser!DrainedBeforeShutdown, PP!DrainedBeforeShutdown,
      Parser!Sessions, PP!Sessions, Parser!SessionsStayApart,
      PP!SessionsStayApart, Parser!UnderIdOfStoring, PP!UnderIdOfStoring,
      Parser!OnlyOwnIfFiltered, PP!OnlyOwnIfFiltered, Parser!InOneRun,
      PP!InOneRun, Parser!ShutdownIsOver, PP!ShutdownIsOver,
      Parser!PhasesOfRing, PP!PhasesOfRing, Parser!StraysOK, PP!StraysOK,
      Parser!SessionPublished, PP!SessionPublished,
      Parser!FrameOfSession, PP!FrameOfSession, Parser!FrameBehindSnap,
      PP!FrameBehindSnap, Parser!IInv, PP!IInv, Parser!Accepted, PP!Accepted,
      Parser!NewestNumber, PP!NewestNumber, Parser!Ring1!Next64Aligned,
      PP!Ring1!Next64Aligned, Parser!Ring1!LinesOf, PP!Ring1!LinesOf,
      Parser!Ring1!Lines, PP!Ring1!Lines, Parser!Ring1!indices,
      PP!Ring1!indices, Parser!Ring1!vars, PP!Ring1!vars, Parser!Ring1!NoSnap,
      PP!Ring1!NoSnap, Parser!Ring1!NoFrame, PP!Ring1!NoFrame,
      Parser!Ring1!Torn, PP!Ring1!Torn, Parser!Ring1!Zero, PP!Ring1!Zero,
      Parser!Ring1!Part, PP!Ring1!Part, Parser!Ring1!Copied, PP!Ring1!Copied,
      Parser!Ring1!Wrap, PP!Ring1!Wrap, Parser!Ring1!End, PP!Ring1!End,
      Parser!Ring1!UsedBy, PP!Ring1!UsedBy, Parser!Ring1!Used, PP!Ring1!Used,
      Parser!Ring1!At, PP!Ring1!At, Parser!Ring1!LineAt, PP!Ring1!LineAt,
      Parser!Ring1!Empty, PP!Ring1!Empty, Parser!Ring1!Init, PP!Ring1!Init,
      Parser!Ring1!first_run, PP!Ring1!first_run, Parser!Ring1!capacity,
      PP!Ring1!capacity, Parser!Ring1!Accepts, PP!Ring1!Accepts,
      Parser!Ring1!Skipped, PP!Ring1!Skipped, Parser!Ring1!Charged,
      PP!Ring1!Charged, Parser!Ring1!HigherOf, PP!Ring1!HigherOf,
      Parser!Ring1!LowerOf, PP!Ring1!LowerOf, Parser!Ring1!RaiseMarks,
      PP!Ring1!RaiseMarks, Parser!Ring1!Write, PP!Ring1!Write,
      Parser!Ring1!WriteRefused, PP!Ring1!WriteRefused, Parser!Ring1!AtSkip,
      PP!Ring1!AtSkip, Parser!Ring1!ReadStart, PP!Ring1!ReadStart,
      Parser!Ring1!ReadLen, PP!Ring1!ReadLen, Parser!Ring1!ReadReleases,
      PP!Ring1!ReadReleases, Parser!Ring1!Remaining, PP!Ring1!Remaining,
      Parser!Ring1!Read, PP!Ring1!Read, Parser!Ring1!ReadNothing,
      PP!Ring1!ReadNothing, Parser!Ring1!Snap, PP!Ring1!Snap,
      Parser!Ring1!Discard, PP!Ring1!Discard, Parser!Ring1!GetCapacity,
      PP!Ring1!GetCapacity, Parser!Ring1!SnapRecord, PP!Ring1!SnapRecord,
      Parser!Ring1!TypeOK, PP!Ring1!TypeOK, Parser!Ring1!Expected,
      PP!Ring1!Expected, Parser!Ring1!IndicesOK, PP!Ring1!IndicesOK,
      Parser!Ring1!OrderedOK, PP!Ring1!OrderedOK, Parser!Ring1!SkipsOK,
      PP!Ring1!SkipsOK, Parser!Ring1!SnapOK, PP!Ring1!SnapOK,
      Parser!Ring1!Frame, PP!Ring1!Frame, Parser!Ring1!First, PP!Ring1!First,
      Parser!Ring1!StoredFramesIntact, PP!Ring1!StoredFramesIntact,
      Parser!Ring1!NeverUndercounts, PP!Ring1!NeverUndercounts,
      Parser!Ring1!StoredFrames, PP!Ring1!StoredFrames, Parser!Ring1!IInv,
      PP!Ring1!IInv, Parser!Ring1!BufferAssumption, PP!Ring1!BufferAssumption,
      Parser!Ring1!FramesAssumption, PP!Ring1!FramesAssumption

\* What the parser assumes is assumed here.
LEMMA ParserAssumption == PP!WireAssumption
BY RoomAssumption, SameParser

\* The parser starts well.
LEMMA ParserStarts == Parser!Init => Parser!IInv /\ Parser!NewestNumber
BY ParserAssumption, SameParser, PP!InitEstablishes, PP!InitNumber

\* No step of the parser breaks its invariant.
LEMMA ParserStep ==
  ASSUME Parser!IInv, Parser!NewestNumber, [Parser!Next]_(Parser!vars)
  PROVE  Parser!IInv' /\ Parser!NewestNumber'
BY ParserAssumption, SameParser, PP!NextStep, PP!NewestNumberStep

\* The message that the inserter reads, and the number that goes with it.
LEMMA InserterGets ==
  ASSUME Parser!IInv, Parser!NewestNumber, Parser!InserterReads, layout' # layout
  PROVE  /\ out'[2] \in Parser!Stored
         /\ layout' = <<>> => out'[2].frame.seq = CommonValueSequenceNumber
         /\ layout' # <<>> => layout'[Len(layout')].frame.frame.seq
                                = CommonValueSequenceNumber
BY ParserAssumption, SameParser, PP!InserterGets

-----------------------------------------------------------------------------
(* The turns of a pass.                                                     *)

\* Whose turn is next.
LEMMA TurnOrder ==
  /\ StreamState = "wait" =>
       /\ TurnAfter("keyboard") = "receiver" /\ TurnAfter("receiver") = "parser"
       /\ TurnAfter("parser") = "return"
  /\ StreamState = "in" =>
       /\ TurnAfter("inserter") = "receiver" /\ TurnAfter("receiver") = "parser"
       /\ TurnAfter("parser") = "keyboard" /\ TurnAfter("keyboard") = "return"
<1>1. CASE StreamState = "wait"
  <2> DEFINE t == <<"keyboard", "receiver", "parser", "return">>
  <2>1. Turns[StreamState] = t
    BY <1>1 DEF Turns
  <2>2. DOMAIN t = 1 .. 4
    OBVIOUS
  <2>3. ASSUME NEW k \in 1 .. 3 PROVE (CHOOSE i \in 1 .. 4 : t[i] = t[k]) = k
    <3>1. \A i \in 1 .. 4 : t[i] = t[k] <=> i = k
      OBVIOUS
    <3>2. QED
      BY <3>1
  <2>4. ASSUME NEW k \in 1 .. 3 PROVE TurnAfter(t[k]) = t[1 + k]
    BY <2>1, <2>2, <2>3 DEF TurnAfter
  <2>5. QED
    BY <1>1, <2>4
<1>2. CASE StreamState = "in"
  <2> DEFINE t == <<"inserter", "receiver", "parser", "keyboard", "return">>
  <2>1. Turns[StreamState] = t
    BY <1>2 DEF Turns
  <2>2. DOMAIN t = 1 .. 5
    OBVIOUS
  <2>3. ASSUME NEW k \in 1 .. 4 PROVE (CHOOSE i \in 1 .. 5 : t[i] = t[k]) = k
    <3>1. \A i \in 1 .. 5 : t[i] = t[k] <=> i = k
      OBVIOUS
    <3>2. QED
      BY <3>1
  <2>4. ASSUME NEW k \in 1 .. 4 PROVE TurnAfter(t[k]) = t[1 + k]
    BY <2>1, <2>2, <2>3 DEF TurnAfter
  <2>5. QED
    BY <1>2, <2>4
<1>3. QED
  BY <1>1, <1>2

-----------------------------------------------------------------------------
(* The invariant.                                                           *)

\* The parser is given packets of the network.
LEMMA PacketType ==
  ASSUME TypeOK, RingBufferPtr0 # <<>>
  PROVE  /\ Head(RingBufferPtr0) \in WireFrames
         /\ Tail(RingBufferPtr0) \in Seq(WireFrames)
         /\ Len(Tail(RingBufferPtr0)) <= BufferPackets
<1>1. RingBufferPtr0 \in Seq(WireFrames) /\ Len(RingBufferPtr0) <= BufferPackets
  BY DEF TypeOK
<1>2. /\ Head(RingBufferPtr0) \in WireFrames
      /\ Tail(RingBufferPtr0) \in Seq(WireFrames)
      /\ Len(Tail(RingBufferPtr0)) = Len(RingBufferPtr0) - 1
  BY <1>1, HeadTailProperties
<1>3. QED
  BY <1>1, <1>2, RoomAssumption

\* Every step of the program is one of the parser's module, or leaves the
\* parser and its ring alone.
LEMMA StepIsOfParser ==
  ASSUME IInv, [Next]_vars
  PROVE  [Parser!Next]_(Parser!vars)
<1>1. UNCHANGED <<ring1, parser>> => UNCHANGED Parser!vars
  BY DEF ring1, parser, Parser!vars, Parser!ring, Parser!session, Parser!common,
     Parser!flags, Parser!walk
<1>2. CASE Iterate \/ Receive \/ Interrupt
  BY <1>1, <1>2 DEF Iterate, WaitForSession, TransitToSession, InSession, Return,
     Receive, ReceiverHeldBack, PollReceiver, StorePacket, StoreAgain, ReceiverFails,
     LeaveReceiver, Interrupt, vars
<1>3. CASE IterateInserter
  BY <1>3 DEF IterateInserter, TakesMessage, Parser!Next
<1>4. CASE ParserHeldBack \/ NothingToParse \/ WriteMessage \/ FinishFrame
  BY <1>1, <1>4 DEF ParserHeldBack, NothingToParse, WriteMessage, FinishFrame,
     Parser!Next, Parser!InFrame
<1>5. CASE DropFrame \/ StartFrame
  BY <1>5, PacketType DEF IInv, DropFrame, StartFrame, Parser!Next
<1>6. CASE ReadKeyboardInput
  BY <1>1, <1>6 DEF ReadKeyboardInput, NoKey, Parser!Next
<1>7. CASE Ended \/ UNCHANGED vars
  BY <1>1, <1>7 DEF Ended, vars
<1>8. QED
  BY <1>2, <1>3, <1>4, <1>5, <1>6, <1>7 DEF Next, Thread, Parse

\* So what is proved of the parser holds in the program.
LEMMA ParserNext ==
  ASSUME IInv, [Next]_vars
  PROVE  Parser!IInv' /\ Parser!NewestNumber' /\ Parser!TypeOK'
BY StepIsOfParser, ParserStep DEF IInv, Parser!IInv

\* It holds at first.
LEMMA InitEstablishes == Init => IInv
<1> SUFFICES ASSUME Init PROVE IInv
  OBVIOUS
<1>1. Parser!Init /\ Parser!IInv /\ Parser!NewestNumber /\ Parser!TypeOK
  BY ParserStarts DEF Init, Parser!IInv
<1>2. /\ state = "startup" /\ ~CommonFlagShutdownReceived
      /\ ~CommonFlagSessionIdReceived /\ Parser!Idle
  BY <1>1 DEF Parser!Init, Parser!Idle
<1>3. TypeOK
  BY <1>1, RoomAssumption, EmptySeq DEF Init, TypeOK
<1>4. QED
  BY <1>1, <1>2, <1>3 DEF Init, IInv, TurnsOK, SilentBeforeSession, ShutdownSeen,
     InserterComesFirst, PublishedId, InsertedUnderIdOfStoring, OnlyStraysUnderShutdown,
     NumberOfNewestFrame, Inserted

\* Steps that leave parser, ring and shared memory alone.
LEMMA QuietStep ==
  ASSUME IInv, [Next]_vars,
         UNCHANGED <<ring1, parser, WriterFlags, WriterSessionId>>,
         inserted' = inserted \/ inserted' = Nothing,
         RingBufferPtr0' \in Seq(WireFrames), Len(RingBufferPtr0') <= BufferPackets,
         polled' \in Seq(WireFrames \cup {BadEvent}),
         StreamState' \in {"wait", "transit", "in"}, ApplicationRunFlag' \in BOOLEAN,
         pc' \in {"iterate", "inserter", "receiver", "store", "parser", "keyboard",
                  "return", "done"},
         TurnsOK', SilentBeforeSession', ShutdownSeen', InserterComesFirst'
  PROVE  IInv'
<1>1. Parser!IInv' /\ Parser!NewestNumber' /\ Parser!TypeOK'
  BY ParserNext
<1>2. UNCHANGED <<layout, CommonFlagShutdownReceived, CommonValueSessionId>>
  BY DEF ring1, parser
<1>3. TypeOK'
  BY <1>1 DEF IInv, TypeOK
<1>4. PublishedId'
  BY <1>2 DEF IInv, PublishedId
<1>5. CASE inserted' = Nothing
  BY <1>1, <1>3, <1>4, <1>5 DEF IInv, InsertedUnderIdOfStoring,
     OnlyStraysUnderShutdown, NumberOfNewestFrame, Inserted
<1>6. CASE inserted' = inserted
  <2>1. /\ InsertedUnderIdOfStoring' /\ OnlyStraysUnderShutdown'
        /\ NumberOfNewestFrame'
    BY <1>2, <1>6 DEF IInv, InsertedUnderIdOfStoring, OnlyStraysUnderShutdown,
       NumberOfNewestFrame, Inserted, Newest, Nothing
  <2>2. QED
    BY <1>1, <1>3, <1>4, <2>1 DEF IInv
<1>7. QED
  BY <1>5, <1>6

\* The steps of Iterate and of the loop around it.
LEMMA IterateStep ==
  ASSUME IInv, Iterate
  PROVE  IInv'
<1>1. /\ UNCHANGED <<ring1, parser, WriterFlags, WriterSessionId, inserted,
                     RingBufferPtr0, polled, ApplicationRunFlag>>
      /\ pc' \in {"iterate", "inserter", "keyboard", "return", "done"}
      /\ pc \in {"iterate", "return"}
  BY DEF Iterate, WaitForSession, TransitToSession, InSession, FirstTurn, Return, receiver,
     writer
<1>2. /\ UNCHANGED <<state, CommonFlagShutdownReceived, CommonFlagSessionIdReceived>>
      /\ (Parser!Idle' <=> Parser!Idle)
  BY <1>1 DEF parser, Parser!Idle
<1>3. /\ StreamState' \in {"wait", "transit", "in"}
      /\ StreamState' # "in" => StreamState # "in"
      /\ pc' = "inserter" => StreamState' = "in"
      /\ pc' = "keyboard" => StreamState' \in {"wait", "in"}
  BY DEF Iterate, WaitForSession, TransitToSession, InSession, FirstTurn, Return, IInv,
     TypeOK
<1>4. TurnsOK'
  BY <1>1, <1>2, <1>3 DEF IInv, TurnsOK
<1>5. SilentBeforeSession'
  <2>1. state = "startup" /\ ~CommonFlagShutdownReceived =>
          StreamState' = "wait" \/ (StreamState' = "transit" /\ ~ApplicationRunFlag)
    BY DEF IInv, SilentBeforeSession, Iterate, WaitForSession, SessionKnown,
       TransitToSession, InSession, Return
  <2>2. QED
    BY <1>1, <1>2, <1>3, <2>1 DEF IInv, SilentBeforeSession
<1>6. ShutdownSeen'
  BY <1>1 DEF ShutdownSeen
<1>7. InserterComesFirst'
  <2>1. /\ pc' = "keyboard" => state = "startup" /\ StreamState' # "in"
        /\ pc' # "keyboard" => pc' \in {"return", "iterate", "inserter", "done"}
    BY DEF IInv, InserterComesFirst, Iterate, WaitForSession, SessionKnown,
       TransitToSession, InSession, FirstTurn, Return
  <2>2. QED
    BY <1>1, <1>2, <2>1 DEF IInv, InserterComesFirst
<1>8. ApplicationRunFlag' \in BOOLEAN /\ Next
  BY <1>1 DEF IInv, TypeOK, Next, Thread
<1>9. QED
  BY <1>1, <1>3, <1>4, <1>5, <1>6, <1>7, <1>8, QuietStep DEF IInv, TypeOK

\* The steps of the receiver.
LEMMA ReceiveStep ==
  ASSUME IInv, Receive
  PROVE  IInv'
<1>1. /\ UNCHANGED <<ring1, parser, WriterFlags, WriterSessionId, StreamState>>
      /\ inserted' = inserted \/ inserted' = Nothing
      /\ pc \in {"receiver", "store"}
  BY DEF Receive, ReceiverHeldBack, PollReceiver, StorePacket, StoreAgain,
     ReceiverFails, LeaveReceiver, receiver, writer, loop, vars
<1>2. /\ UNCHANGED <<state, CommonFlagShutdownReceived, CommonFlagSessionIdReceived>>
      /\ (Parser!Idle' <=> Parser!Idle)
  BY <1>1 DEF parser, Parser!Idle
<1>3. StreamState \in {"wait", "in"} /\ Parser!Idle
  BY <1>1 DEF IInv, TurnsOK
<1>4. /\ RingBufferPtr0' \in Seq(WireFrames) /\ Len(RingBufferPtr0') <= BufferPackets
      /\ polled' \in Seq(WireFrames \cup {BadEvent})
  <2> USE DEF IInv, TypeOK
  <2>1. CASE \E events \in Batches : PollReceiver(events)
    <3>1. PICK events \in Batches : PollReceiver(events)
      BY <2>1
    <3>2. \A p \in GoodEvents : p \in Seq(WireFrames \cup {BadEvent})
      BY RoomAssumption DEF GoodEvents
    <3>3. \A p \in GoodEvents : Append(p, BadEvent) \in Seq(WireFrames \cup {BadEvent})
      BY <3>2, AppendProperties
    <3>4. QED
      BY <3>1, <3>2, <3>3 DEF Batches, PollReceiver
  <2>2. CASE StorePacket
    <3>1. /\ Head(polled) \in WireFrames
          /\ Tail(polled) \in Seq(WireFrames \cup {BadEvent})
      BY <2>2, HeadTailProperties DEF StorePacket
    <3>2. /\ Append(RingBufferPtr0, Head(polled)) \in Seq(WireFrames)
          /\ Len(Append(RingBufferPtr0, Head(polled))) = Len(RingBufferPtr0) + 1
          /\ Len(RingBufferPtr0) \in Nat
      BY <3>1, AppendProperties
    <3>3. QED
      BY <2>2, <3>1, <3>2, RoomAssumption DEF StorePacket
  <2>3. CASE ReceiverHeldBack \/ StoreAgain \/ ReceiverFails \/ LeaveReceiver
    BY <2>3, EmptySeq DEF ReceiverHeldBack, StoreAgain, ReceiverFails, LeaveReceiver,
       receiver, vars
  <2>4. QED
    BY <2>1, <2>2, <2>3 DEF Receive
<1>5. /\ ApplicationRunFlag' \in BOOLEAN
      /\ ApplicationRunFlag' = ApplicationRunFlag \/ ApplicationRunFlag' = FALSE
      /\ pc' \in {"store", "parser"}
      /\ pc' \in {"store", "parser"} => ~Inserted'
  <2>1. TurnAfter("receiver") = "parser"
    BY <1>3, TurnOrder
  <2>2. ApplicationRunFlag \in BOOLEAN /\ (pc = "store" => ~Inserted)
    BY DEF IInv, TypeOK, TurnsOK
  <2>3. CASE ReceiverHeldBack \/ \E events \in Batches : PollReceiver(events)
    BY <2>1, <2>2, <2>3 DEF ReceiverHeldBack, PollReceiver, Inserted
  <2>4. CASE StorePacket \/ StoreAgain \/ ReceiverFails \/ LeaveReceiver
    <3>1. /\ pc = "store" /\ inserted' = inserted
          /\ pc' = pc \/ pc' = TurnAfter("receiver")
      BY <2>4 DEF StorePacket, StoreAgain, ReceiverFails, LeaveReceiver, writer, loop, vars
    <3>2. ApplicationRunFlag' = ApplicationRunFlag \/ ApplicationRunFlag' = FALSE
      BY <2>4 DEF StorePacket, StoreAgain, ReceiverFails, LeaveReceiver, loop, vars
    <3>3. QED
      BY <2>1, <2>2, <3>1, <3>2 DEF Inserted
  <2>5. QED
    BY <2>3, <2>4 DEF Receive
<1>6. TurnsOK' /\ SilentBeforeSession'
  BY <1>1, <1>2, <1>3, <1>5 DEF IInv, TurnsOK, SilentBeforeSession
<1>7. ShutdownSeen' /\ InserterComesFirst'
  BY <1>1, <1>2, <1>3 DEF IInv, ShutdownSeen, InserterComesFirst
<1>8. QED
  BY <1>1, <1>3, <1>4, <1>5, <1>6, <1>7, QuietStep DEF Next, Thread

\* SIGINT, the keys, and a program that has ended.
LEMMA OtherStep ==
  ASSUME IInv, Interrupt \/ ReadKeyboardInput \/ UNCHANGED vars
  PROVE  IInv'
<1>1. Parser!IInv' /\ Parser!NewestNumber' /\ Parser!TypeOK'
  BY ParserNext DEF Next, Thread
<1>2. /\ UNCHANGED <<RingBufferPtr0, polled, WriterFlags, WriterSessionId, inserted,
                     StreamState>>
      /\ UNCHANGED <<layout, state, CommonFlagShutdownReceived,
                     CommonFlagSessionIdReceived, CommonValueSessionId, frame>>
  <2>1. CASE Interrupt \/ UNCHANGED vars
    BY <2>1 DEF Interrupt, vars, receiver, writer, loop, ring1, parser
  <2>2. CASE ReadKeyboardInput
    <3>1. UNCHANGED <<receiver, writer, StreamState>>
      BY <2>2 DEF ReadKeyboardInput
    <3>2. CASE NoKey
      BY <3>1, <3>2 DEF receiver, writer, NoKey, ring1, parser
    <3>3. CASE Parser!Toggle
      BY <3>1, <3>3 DEF receiver, writer, Parser!Toggle, Parser!ToggleTiming,
         Parser!ToggleFilter, Parser!ring, Parser!session, Parser!common, Parser!walk
    <3>4. QED
      BY <2>2, <3>2, <3>3 DEF ReadKeyboardInput
  <2>3. QED
    BY <2>1, <2>2
<1>3. /\ ApplicationRunFlag' \in BOOLEAN
      /\ ApplicationRunFlag' = ApplicationRunFlag \/ ApplicationRunFlag' = FALSE
  <2>1. ApplicationRunFlag' = ApplicationRunFlag \/ ApplicationRunFlag' = FALSE
    BY DEF Interrupt, ReadKeyboardInput, vars, loop
  <2>2. QED
    BY <2>1 DEF IInv, TypeOK
<1>4. \/ pc' = pc
      \/ /\ pc = "keyboard" /\ StreamState = "wait" /\ pc' = "receiver"
      \/ /\ pc = "keyboard" /\ StreamState = "in" /\ pc' = "return"
  <2>1. CASE Interrupt \/ UNCHANGED vars
    BY <2>1 DEF Interrupt, vars, loop
  <2>2. CASE ReadKeyboardInput
    <3>1. pc = "keyboard" /\ pc' = TurnAfter("keyboard")
      BY <2>2 DEF ReadKeyboardInput
    <3>2. StreamState \in {"wait", "in"}
      BY <3>1 DEF IInv, TurnsOK
    <3>3. QED
      BY <3>1, <3>2, TurnOrder
  <2>3. QED
    BY <2>1, <2>2
<1>5. (Parser!Idle' <=> Parser!Idle) /\ (Inserted' <=> Inserted)
  BY <1>2 DEF Parser!Idle, Inserted
<1>6. TypeOK'
  BY <1>1, <1>2, <1>3, <1>4 DEF IInv, TypeOK
<1>7. /\ TurnsOK' /\ SilentBeforeSession' /\ ShutdownSeen' /\ InserterComesFirst'
      /\ PublishedId'
  <2>1. TurnsOK'
    BY <1>2, <1>4, <1>5 DEF IInv, TurnsOK
  <2>2. SilentBeforeSession'
    BY <1>2, <1>3 DEF IInv, SilentBeforeSession
  <2>3. ShutdownSeen'
    BY <1>2, <1>4, <1>5 DEF IInv, ShutdownSeen, SilentBeforeSession
  <2>4. InserterComesFirst'
    BY <1>2, <1>4, <1>5 DEF IInv, InserterComesFirst, TurnsOK
  <2>5. PublishedId'
    BY <1>2 DEF IInv, PublishedId
  <2>6. QED
    BY <2>1, <2>2, <2>3, <2>4, <2>5
<1>8. InsertedUnderIdOfStoring' /\ OnlyStraysUnderShutdown' /\ NumberOfNewestFrame'
  BY <1>2, <1>5 DEF IInv, InsertedUnderIdOfStoring, OnlyStraysUnderShutdown,
     NumberOfNewestFrame, Newest
<1>9. QED
  BY <1>1, <1>6, <1>7, <1>8 DEF IInv

\* The inserter publishes under the flags and the id of the moment, and these
\* are those that the message was stored under.
LEMMA InserterStep ==
  ASSUME IInv, IterateInserter
  PROVE  IInv'
<1>1. Parser!IInv' /\ Parser!NewestNumber' /\ Parser!TypeOK'
  BY ParserNext DEF Next, Thread
<1>2. /\ pc = "inserter" /\ StreamState = "in" /\ pc' = "receiver"
      /\ Parser!InserterReads
      /\ WriterFlags' = FlagsNow
      /\ WriterSessionId' = IF FlagsNow # WriterFlags THEN CommonValueSessionId
                              ELSE WriterSessionId
      /\ UNCHANGED <<RingBufferPtr0, polled, StreamState, ApplicationRunFlag>>
  BY TurnOrder DEF IterateInserter, TakesMessage, UpdateWriterFlags, receiver, IInv, TurnsOK
<1>3. UNCHANGED <<state, CommonFlagShutdownReceived, CommonFlagSessionIdReceived,
                  CommonValueSessionId, CommonValueSequenceNumber, frame>>
  BY <1>2 DEF Parser!InserterReads, Parser!session, Parser!common, Parser!walk
<1>4. /\ CommonFlagShutdownReceived => FlagsNow = {"Connected", "Shutdown"}
      /\ ~CommonFlagShutdownReceived => FlagsNow = {"Connected", "InSession"}
  BY DEF FlagsNow
<1>5. ~CommonFlagShutdownReceived => WriterSessionId' = CommonValueSessionId
  BY <1>2, <1>4 DEF IInv, PublishedId
<1>6. Inserted' => inserted' = Publish(out'[2]) /\ layout' # layout
  BY DEF IterateInserter, Inserted
<1>7. TypeOK'
  <2>1. CommonValueSessionId \in Nat /\ WriterSessionId \in Nat
    BY DEF IInv, TypeOK, Parser!TypeOK
  <2>2. WriterFlags' \in { {"Connected", "InSession"}, {"Connected", "Shutdown"} }
        /\ WriterSessionId' \in Nat
    BY <1>2, <1>4, <2>1
  <2>3. QED
    BY <1>1, <1>2, <2>2 DEF IInv, TypeOK
<1>8. /\ TurnsOK' /\ SilentBeforeSession' /\ ShutdownSeen' /\ InserterComesFirst'
      /\ PublishedId'
  <2>1. Parser!Idle'
    BY <1>2, <1>3 DEF Parser!InserterReads, Parser!Idle
  <2>2. TurnsOK'
    BY <1>2, <2>1 DEF TurnsOK
  <2>3. SilentBeforeSession'
    BY <1>2, <1>3 DEF IInv, SilentBeforeSession
  <2>4. ShutdownSeen' /\ PublishedId'
    BY <1>2, <1>3, <1>4, <1>5 DEF ShutdownSeen, PublishedId
  <2>5. InserterComesFirst'
    BY <1>2, <1>3, <1>4 DEF IInv, InserterComesFirst
  <2>6. QED
    BY <2>2, <2>3, <2>4, <2>5
<1>9. ASSUME Inserted'
      PROVE  InsertedUnderIdOfStoring' /\ OnlyStraysUnderShutdown' /\ NumberOfNewestFrame'
  <2> DEFINE m == out'[2]
  <2>1. /\ inserted'.message = m /\ inserted'.seq = CommonValueSequenceNumber
        /\ inserted'.flags = FlagsNow /\ inserted'.session = WriterSessionId'
    BY <1>2, <1>6, <1>9 DEF Publish
  <2>2. /\ m \in Parser!Stored
        /\ layout' = <<>> => m.frame.seq = CommonValueSequenceNumber
        /\ layout' # <<>> => layout'[Len(layout')].frame.frame.seq
                               = CommonValueSequenceNumber
    BY <1>2, <1>6, <1>9, InserterGets DEF IInv
  <2>3. /\ m.phase.state # "startup" => m.phase.session = CommonValueSessionId
        /\ m.phase.state = "session" => m.frame.session = CommonValueSessionId
        /\ CommonFlagShutdownReceived => m.phase.state = "startup"
    BY <2>2 DEF IInv, Parser!IInv, Parser!SessionsStayApart, Parser!UnderIdOfStoring,
       Parser!OnlyOwnIfFiltered, Parser!ShutdownIsOver, Parser!PhasesOfRing
  <2> HIDE DEF m
  <2>4. InsertedUnderIdOfStoring'
    BY <1>4, <1>5, <2>1, <2>3 DEF InsertedUnderIdOfStoring
  <2>5. OnlyStraysUnderShutdown'
    BY <1>4, <2>1, <2>3 DEF OnlyStraysUnderShutdown
  <2>6. NumberOfNewestFrame'
    BY <2>1, <2>2 DEF NumberOfNewestFrame, Newest
  <2>7. QED
    BY <2>4, <2>5, <2>6
<1>10. CASE ~Inserted'
  BY <1>1, <1>7, <1>8, <1>10 DEF IInv, InsertedUnderIdOfStoring,
     OnlyStraysUnderShutdown, NumberOfNewestFrame
<1>11. QED
  BY <1>1, <1>7, <1>8, <1>9, <1>10 DEF IInv

\* The turn of the parser.  An announced shutdown is in a frame, and behind
\* the frame the inserter comes before the next one.
LEMMA ParseStep ==
  ASSUME IInv, Parse
  PROVE  IInv'
<1>1. Parser!IInv' /\ Parser!NewestNumber' /\ Parser!TypeOK'
  BY ParserNext DEF Next, Thread
<1>2. /\ pc = "parser" /\ StreamState \in {"wait", "in"} /\ ~Inserted
      /\ UNCHANGED <<polled, WriterFlags, WriterSessionId, inserted, StreamState,
                     ApplicationRunFlag>>
  BY DEF Parse, ParserHeldBack, NothingToParse, DropFrame, StartFrame, WriteMessage,
     FinishFrame, IInv, TurnsOK, receiver, writer, loop
<1>3. /\ RingBufferPtr0' \in Seq(WireFrames) /\ Len(RingBufferPtr0') <= BufferPackets
  <2>1. \/ RingBufferPtr0' = RingBufferPtr0
        \/ RingBufferPtr0 # <<>> /\ RingBufferPtr0' = Tail(RingBufferPtr0)
    BY DEF Parse, ParserHeldBack, NothingToParse, DropFrame, StartFrame, WriteMessage,
       FinishFrame, receiver
  <2>2. QED
    BY <2>1, PacketType DEF IInv, TypeOK
<1>4. \/ pc' = "parser" /\ ~Parser!Idle'
      \/ pc' = TurnAfter("parser") /\ Parser!Idle'
  <2>1. CASE ParserHeldBack
    BY <2>1 DEF ParserHeldBack, EndTurn, Parser!IterateHeldBack, Parser!walk, Parser!Idle
  <2>2. CASE NothingToParse
    BY <2>2 DEF NothingToParse, EndTurn, parser, Parser!Idle
  <2>3. CASE DropFrame
    BY <2>3 DEF DropFrame, EndTurn, Parser!DropFrame, Parser!vars, Parser!walk, Parser!Idle
  <2>4. CASE StartFrame
    <3>1. frame' = Head(RingBufferPtr0) /\ Head(RingBufferPtr0) \in WireFrames
      BY <2>4, PacketType DEF StartFrame, Parser!StartFrame, IInv
    <3>2. frame'.type \in {"shutdown", "other"}
      BY <3>1, RoomAssumption DEF Parser!WireAssumption, Parser!FrameType
    <3>3. Parser!NoFrame.type = "none"
      BY DEF Parser!NoFrame
    <3>4. ~Parser!Idle'
      BY <3>2, <3>3 DEF Parser!Idle
    <3>5. QED
      BY <1>2, <2>4, <3>4 DEF StartFrame, loop
  <2>5. CASE WriteMessage
    BY <1>2, <2>5 DEF WriteMessage, loop, Parser!WriteMessage, Parser!WriteAgain,
       Parser!walk, Parser!Idle
  <2>6. CASE FinishFrame
    BY <2>6 DEF FinishFrame, EndTurn, Parser!FinishFrame, Parser!Idle
  <2>7. QED
    BY <2>1, <2>2, <2>3, <2>4, <2>5, <2>6 DEF Parse
<1>5. /\ StreamState = "wait" => TurnAfter("parser") = "return"
      /\ StreamState = "in" => TurnAfter("parser") = "keyboard"
  BY TurnOrder
<1>6. TypeOK'
  BY <1>1, <1>2, <1>3, <1>4, <1>5 DEF IInv, TypeOK
<1>7. TurnsOK'
  BY <1>2, <1>4, <1>5 DEF TurnsOK, Inserted
<1>8. SilentBeforeSession' /\ InserterComesFirst' /\ PublishedId'
  <2>1. CASE StartFrame
    <3> DEFINE f == Head(RingBufferPtr0)
    <3>0. ~Parser!Idle' /\ pc' = "parser"
      BY <1>2, <1>4, <1>5, <2>1 DEF StartFrame, loop
    <3>1. Parser!Idle /\ Parser!UpdateParserState(f)
      BY <2>1 DEF StartFrame, Parser!StartFrame
    <3>2. CASE Parser!StartSession(f)
      <4>1. "InSession" \notin WriterFlags
        BY <1>2, <3>1, <3>2 DEF Parser!StartSession, IInv, SilentBeforeSession, ShutdownSeen
      <4>2. SilentBeforeSession' /\ PublishedId'
        BY <1>2, <3>2, <4>1 DEF Parser!StartSession, IInv, SilentBeforeSession, PublishedId
      <4>3. InserterComesFirst'
        BY <1>2, <3>0, <3>1, <3>2 DEF Parser!StartSession, IInv, InserterComesFirst
      <4>4. QED
        BY <4>2, <4>3
    <3>3. CASE Parser!EndSession(f)
      BY <1>2, <3>0, <3>1, <3>3 DEF Parser!EndSession, IInv, SilentBeforeSession,
         InserterComesFirst, PublishedId
    <3>4. CASE Parser!AnnounceShutdown
      BY <1>2, <3>0, <3>1, <3>4 DEF Parser!AnnounceShutdown, IInv, SilentBeforeSession,
         InserterComesFirst, PublishedId
    <3>5. CASE Parser!KeepState(f)
      BY <1>2, <3>0, <3>1, <3>5 DEF Parser!KeepState, Parser!session, IInv,
         SilentBeforeSession, InserterComesFirst, PublishedId
    <3>6. QED
      BY <3>1, <3>2, <3>3, <3>4, <3>5 DEF Parser!UpdateParserState
  <2>2. CASE ~StartFrame
    <3>1. UNCHANGED <<state, CommonFlagShutdownReceived, CommonFlagSessionIdReceived,
                      CommonValueSessionId>>
      BY <2>2 DEF Parse, ParserHeldBack, NothingToParse, DropFrame, WriteMessage,
         FinishFrame, parser, Parser!IterateHeldBack, Parser!DropFrame, Parser!vars,
         Parser!WriteMessage, Parser!WriteAgain, Parser!FinishFrame, Parser!session,
         Parser!common
    <3>2. SilentBeforeSession' /\ PublishedId'
      BY <1>2, <3>1 DEF IInv, SilentBeforeSession, PublishedId
    <3>3. InserterComesFirst'
      BY <1>2, <1>4, <1>5, <3>1 DEF IInv, InserterComesFirst
    <3>4. QED
      BY <3>2, <3>3
  <2>3. QED
    BY <2>1, <2>2
<1>9. ShutdownSeen'
  <2>1. StreamState = "wait" => WriterFlags = {}
    BY DEF IInv, SilentBeforeSession
  <2>2. QED
    BY <1>2, <1>4, <1>5, <2>1 DEF ShutdownSeen
<1>10. InsertedUnderIdOfStoring' /\ OnlyStraysUnderShutdown' /\ NumberOfNewestFrame'
  BY <1>2 DEF InsertedUnderIdOfStoring, OnlyStraysUnderShutdown, NumberOfNewestFrame,
     Inserted
<1>11. QED
  BY <1>1, <1>6, <1>7, <1>8, <1>9, <1>10 DEF IInv

\* No step of the program breaks the invariant.
LEMMA NextStep == IInv /\ [Next]_vars => IInv'
<1> SUFFICES ASSUME IInv, [Next]_vars PROVE IInv'
  OBVIOUS
<1>1. CASE Iterate
  BY <1>1, IterateStep
<1>2. CASE IterateInserter
  BY <1>2, InserterStep
<1>3. CASE Receive
  BY <1>3, ReceiveStep
<1>4. CASE Parse
  BY <1>4, ParseStep
<1>5. CASE Interrupt \/ ReadKeyboardInput \/ UNCHANGED vars
  BY <1>5, OtherStep
<1>6. QED
  BY <1>1, <1>2, <1>3, <1>4, <1>5 DEF Next, Thread, Ended

-----------------------------------------------------------------------------
(* What follows from it.                                                    *)

\* The invariant holds in every pass of the loop, whenever SIGINT comes.
THEOREM LoopInvariant == Spec => []IInv
<1>1. Init => IInv
  BY InitEstablishes
<1>2. IInv /\ [Next]_vars => IInv'
  BY NextStep
<1>3. QED
  BY <1>1, <1>2, PTL DEF Spec

\* Every field keeps its type, those of the parser included.
THEOREM LoopTypes == Spec => []TypeOK
<1>1. IInv => TypeOK
  BY DEF IInv
<1>2. QED
  BY <1>1, LoopInvariant, PTL

\* What was stored in the course of a session is published under its id and with the
\* flag that says so; up to the shutdown frame and with the filter on, that is the
\* session of the message's own header.
THEOREM LoopPublishesIdOfStoring == Spec => []InsertedUnderIdOfStoring
<1>1. IInv => InsertedUnderIdOfStoring
  BY DEF IInv
<1>2. QED
  BY <1>1, LoopInvariant, PTL

\* Nothing that was stored in the course of a session, its draining included, is
\* published once its shutdown is: only what the parser stored behind that, which
\* may carry the id of the session that ended.
THEOREM LoopPublishesOnlyStrays == Spec => []OnlyStraysUnderShutdown
<1>1. IInv => OnlyStraysUnderShutdown
  BY DEF IInv
<1>2. QED
  BY <1>1, LoopInvariant, PTL

\* The number published with a message is that of the newest stored frame.
THEOREM LoopPublishesNewestNumber == Spec => []NumberOfNewestFrame
<1>1. IInv => NumberOfNewestFrame
  BY DEF IInv
<1>2. QED
  BY <1>1, LoopInvariant, PTL

\* The parser never takes the shutdown flag back before the inserter has
\* published it: the shutdown may come and go between two frames, but never
\* between two turns of the inserter.
THEOREM LoopPublishesShutdown == Spec => ShutdownIsPublished
<1> DEFINE Back == CommonFlagShutdownReceived /\ ~CommonFlagShutdownReceived'
<1>1. ASSUME IInv, [Next]_vars, Back
      PROVE  "Shutdown" \in WriterFlags
  <2>1. StartFrame /\ Parser!StartSession(Head(RingBufferPtr0))
    <3>1. CASE Parse
      <4>1. StartFrame
        BY <1>1, <3>1 DEF Parse, ParserHeldBack, NothingToParse, DropFrame, WriteMessage,
           FinishFrame, parser, Parser!IterateHeldBack, Parser!DropFrame, Parser!vars,
           Parser!WriteMessage, Parser!WriteAgain, Parser!FinishFrame, Parser!common
      <4>2. Parser!UpdateParserState(Head(RingBufferPtr0))
        BY <4>1 DEF StartFrame, Parser!StartFrame
      <4>3. QED
        BY <1>1, <4>1, <4>2 DEF Parser!UpdateParserState, Parser!EndSession,
           Parser!AnnounceShutdown, Parser!KeepState
    <3>2. CASE ~Parse
      <4>1. CommonFlagShutdownReceived' = CommonFlagShutdownReceived
        BY <1>1, <3>2 DEF Next, Thread, Iterate, WaitForSession, TransitToSession,
           InSession, Return, IterateInserter, TakesMessage, Parser!InserterReads,
           Parser!common, Receive, ReceiverHeldBack, PollReceiver, StorePacket,
           StoreAgain, ReceiverFails, LeaveReceiver, ReadKeyboardInput, NoKey,
           Parser!Toggle, Parser!ToggleTiming, Parser!ToggleFilter, Interrupt, Ended,
           vars, parser
      <4>2. QED
        BY <1>1, <4>1
    <3>3. QED
      BY <3>1, <3>2
  <2>2. pc = "parser" /\ Parser!Idle
    BY <2>1 DEF StartFrame, Parser!StartFrame
  <2>3. "InSession" \notin WriterFlags /\ WriterFlags # {}
    BY <1>1, <2>2 DEF IInv, ShutdownSeen, InserterComesFirst
  <2>4. QED
    BY <1>1, <2>3 DEF IInv, TypeOK
<1>2. IInv /\ [Next]_vars => [Back => "Shutdown" \in WriterFlags]_vars
  BY <1>1
<1>3. QED
  BY <1>2, LoopInvariant, PTL DEF Spec, ShutdownIsPublished

-----------------------------------------------------------------------------
(* The program runs the parser.                                             *)

\* The parser's module is what the loop makes of the parser: no step of the
\* program, and no SIGINT, does to it what that module does not have.
THEOREM LoopRunsParser == Spec => Parser!Spec
<1>1. Init => Parser!Init
  BY DEF Init
<1>2. IInv /\ [Next]_vars => [Parser!Next]_(Parser!vars)
  BY StepIsOfParser
<1>3. QED
  BY <1>1, <1>2, LoopInvariant, PTL DEF Spec, Parser!Spec

-----------------------------------------------------------------------------
(* The two gates.                                                           *)

\* The room in RingBufferPtr1 that the parser's gate has found.
LEMMA ParserRoom ==
  ASSUME IInv, Parser!GateRoom, [Next]_vars
  PROVE  Parser!GateRoom'
BY StepIsOfParser, ParserAssumption, SameParser, PP!GateRoomStep DEF IInv

\* The room in RingBufferPtr0 that the receiver's gate has found.
LEMMA ReceiverRoom ==
  ASSUME IInv, PolledFits, WithinGates', [Next]_vars
  PROVE  PolledFits'
<1>1. CASE StorePacket
  <2> DEFINE n == Len(polled)
  <2>1. /\ polled \in Seq(WireFrames \cup {BadEvent}) /\ polled # <<>>
        /\ Head(polled) # BadEvent
        /\ RingBufferPtr0 \in Seq(WireFrames)
        /\ polled' = Tail(polled) /\ RingBufferPtr0' = Append(RingBufferPtr0, Head(polled))
        /\ pc = "store"
    BY <1>1 DEF StorePacket, IInv, TypeOK
  <2>2. /\ n \in Nat \ {0} /\ Len(RingBufferPtr0) \in Nat /\ Head(polled) = polled[1]
        /\ Len(Tail(polled)) = n - 1
        /\ \A k \in 1 .. n - 1 : Tail(polled)[k] = polled[k + 1]
    BY <2>1, HeadTailProperties, EmptySeq
  <2>3. Len(RingBufferPtr0') = Len(RingBufferPtr0) + 1
    <3>1. Head(polled) \in WireFrames \cup {BadEvent}
      BY <2>1, HeadTailProperties
    <3>2. Head(polled) \in WireFrames
      BY <2>1, <3>1
    <3>3. QED
      BY <2>1, <3>2, AppendProperties
  <2>4. NumberOfPackets(polled') = NumberOfPackets(polled) - 1
    <3>1. CASE n = 1
      <4>1. NumberOfPackets(polled) = 1
        BY <2>1, <2>2, <3>1 DEF NumberOfPackets
      <4>2. Tail(polled) = <<>>
        BY <2>1, <2>2, <3>1, EmptySeq, HeadTailProperties
      <4>3. Len(polled') = 0 /\ polled' = <<>>
        BY <2>1, <2>2, <3>1, <4>2
      <4>4. QED
        BY <4>1, <4>3 DEF NumberOfPackets
    <3>2. CASE n > 1
      <4>1. /\ Len(polled') = n - 1 /\ polled' # <<>>
            /\ polled'[n - 1] = polled[n]
        <5>1. n - 1 \in 1 .. n - 1 /\ n - 1 + 1 = n /\ n - 1 # 0
          BY <2>2, <3>2
        <5>2. QED
          BY <2>1, <2>2, <5>1
      <4>2. QED
        BY <2>1, <2>2, <4>1 DEF NumberOfPackets
    <3>3. QED
      BY <2>2, <3>1, <3>2
  <2>5. NumberOfPackets(polled) \in Int
    BY <2>2 DEF NumberOfPackets
  <2>6. QED
    BY <2>1, <2>2, <2>3, <2>4, <2>5, RoomAssumption DEF PolledFits
<1>2. CASE \E events \in Batches : PollReceiver(events)
  <2>1. /\ BufferPackets - Len(RingBufferPtr0) >= LowWater0
        /\ UNCHANGED RingBufferPtr0
    BY <1>2 DEF PollReceiver, ReceiverGateOpen
  <2>2. NumberOfPackets(polled') <= LowWater0
    BY DEF WithinGates
  <2>3. Len(RingBufferPtr0) \in Nat /\ NumberOfPackets(polled') \in Int
    <3>1. polled' \in Seq(WireFrames \cup {BadEvent})
      BY NextStep DEF IInv, TypeOK
    <3>2. Len(polled') \in Nat
      BY <3>1
    <3>3. QED
      BY <3>2 DEF NumberOfPackets, IInv, TypeOK
  <2>4. QED
    BY <2>1, <2>2, <2>3, RoomAssumption DEF PolledFits
<1>3. CASE ReceiverFails
  <2>1. polled' = <<>> /\ UNCHANGED RingBufferPtr0
    BY <1>3 DEF ReceiverFails
  <2>2. Len(RingBufferPtr0) \in Nat /\ Len(RingBufferPtr0) <= BufferPackets
    BY DEF IInv, TypeOK
  <2>3. NumberOfPackets(polled') = 0
    BY <2>1 DEF NumberOfPackets
  <2>4. QED
    BY <2>1, <2>2, <2>3, RoomAssumption DEF PolledFits
<1>4. CASE pc' # "store"
  BY <1>4 DEF PolledFits
<1>5. CASE /\ pc = "store" /\ pc' = "store"
           /\ UNCHANGED <<RingBufferPtr0, polled>>
  BY <1>5 DEF PolledFits
<1>6. \/ StorePacket \/ (\E events \in Batches : PollReceiver(events)) \/ ReceiverFails
      \/ pc' # "store"
      \/ pc = "store" /\ pc' = "store" /\ UNCHANGED <<RingBufferPtr0, polled>>
  <2>1. CASE Iterate \/ IterateInserter \/ ReadKeyboardInput
    <3>1. \/ pc' \in {"keyboard", "return", "inserter", "iterate", "done"}
          \/ pc = "inserter" /\ pc' = TurnAfter("inserter")
          \/ pc = "keyboard" /\ pc' = TurnAfter("keyboard")
      BY <2>1 DEF Iterate, WaitForSession, TransitToSession, InSession, FirstTurn,
         Return, IterateInserter, ReadKeyboardInput
    <3>2. QED
      BY <3>1, TurnOrder DEF IInv, TurnsOK
  <2>2. CASE Parse
    <3>1. pc = "parser" /\ (pc' = pc \/ pc' = TurnAfter("parser"))
      BY <2>2 DEF Parse, ParserHeldBack, NothingToParse, DropFrame, StartFrame,
         WriteMessage, FinishFrame, EndTurn, loop
    <3>2. QED
      BY <3>1, TurnOrder DEF IInv, TurnsOK
  <2>3. CASE ReceiverHeldBack \/ LeaveReceiver
    <3>1. pc \in {"receiver", "store"} /\ pc' = TurnAfter("receiver")
      BY <2>3 DEF ReceiverHeldBack, LeaveReceiver
    <3>2. QED
      BY <3>1, TurnOrder DEF IInv, TurnsOK
  <2>4. CASE StoreAgain \/ Interrupt \/ UNCHANGED vars
    <3>1. UNCHANGED <<pc, RingBufferPtr0, polled>>
      BY <2>4 DEF StoreAgain, Interrupt, vars, loop, receiver
    <3>2. QED
      BY <3>1
  <2>5. QED
    BY <2>1, <2>2, <2>3, <2>4 DEF Next, Thread, Receive, Ended
<1>7. QED
  BY <1>1, <1>2, <1>3, <1>4, <1>5, <1>6

\* With room for all of a poll and all of a frame no Write is refused.
LEMMA RoomForAll ==
  ASSUME IInv, PolledFits, Parser!GateRoom, WithinGates
  PROVE  NothingRefused
<1>1. ASSUME pc = "store", polled # <<>>, Head(polled) # BadEvent
      PROVE  Len(RingBufferPtr0) < BufferPackets
  <2>1. polled \in Seq(WireFrames \cup {BadEvent}) /\ Len(RingBufferPtr0) \in Nat
    BY DEF IInv, TypeOK
  <2>2. Len(polled) \in Nat \ {0} /\ Head(polled) = polled[1]
    BY <1>1, <2>1, HeadTailProperties, EmptySeq
  <2>3. NumberOfPackets(polled) \in Nat \ {0}
    BY <1>1, <2>2 DEF NumberOfPackets
  <2>4. QED
    BY <1>1, <2>1, <2>3, RoomAssumption DEF PolledFits
<1>2. Parser!GateSuffices
  <2>1. PP!IInv /\ PP!GateRoom
    BY SameParser DEF IInv
  <2>2. QED
    BY <2>1, ParserAssumption, SameParser, PP!RoomSuffices
<1>3. QED
  BY <1>1, <1>2 DEF NothingRefused, WithinGates, Parser!GateSuffices

\* As long as what comes fits through the gates, neither receiver nor parser
\* repeats a Write for ever: the program spins only in a burst.
THEOREM LoopNeverSpins == Spec => NeverSpins
<1>1. Init => PolledFits /\ Parser!GateRoom
  BY DEF Init, Parser!Init, Parser!Idle, Parser!GateRoom, PolledFits
<1>2. IInv /\ PolledFits /\ WithinGates' /\ [Next]_vars => PolledFits'
  BY ReceiverRoom
<1>3. IInv /\ Parser!GateRoom /\ [Next]_vars => Parser!GateRoom'
  BY ParserRoom
<1>4. IInv /\ PolledFits /\ Parser!GateRoom /\ WithinGates => NothingRefused
  BY RoomForAll
<1>5. QED
  BY <1>1, <1>2, <1>3, <1>4, LoopInvariant, PTL DEF Spec, NeverSpins, NoBurst

=============================================================================
