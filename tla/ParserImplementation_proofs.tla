--------------------- MODULE ParserImplementation_proofs ---------------------
(***************************************************************************)
(* Proofs about ParserImplementation, for every size of the ring and every *)
(* set of frames that the network may deliver.  What the ring does is      *)
(* taken from the theorems about RingFIFOBuffer; nothing of its arithmetic *)
(* is looked at again.                                                     *)
(***************************************************************************)
EXTENDS ParserImplementation, SequenceTheorems, TLAPS

\* The ring of the parser, with its theorems.
RP == INSTANCE RingFIFOBuffer_proofs WITH Frames <- StoredMessages

-----------------------------------------------------------------------------
(* The ring, through its theorems.                                          *)

\* What is assumed of the network's frames covers what the ring assumes.
LEMMA RingAssumptions == RP!BufferAssumption /\ RP!FramesAssumption
BY WireAssumption DEF RP!BufferAssumption, RP!FramesAssumption,
     Ring1!BufferAssumption, Ring1!FramesAssumption, Ring1!Lines, RP!Lines,
     Ring1!LinesOf, RP!LinesOf, Ring1!Next64Aligned, RP!Next64Aligned

\* Ring1 and RP are two instances of one module with the same substitution.
LEMMA SameRing ==
  /\ Ring1!Init <=> RP!Init
  /\ Ring1!IInv <=> RP!IInv
  /\ Ring1!IInv' <=> RP!IInv'
  /\ [Ring1!Next]_(Ring1!vars) <=> [RP!Next]_(RP!vars)
  /\ Ring1!Read <=> RP!Read
  /\ Ring1!Discard <=> RP!Discard
  /\ \A m \in StoredMessages : Ring1!Write(m) <=> RP!Write(m)
  /\ Ring1!StoredFrames = RP!StoredFrames
  /\ Ring1!StoredFrames' = RP!StoredFrames'
  /\ \A n : Ring1!Accepts(n) <=> RP!Accepts(n)
  /\ \A m \in StoredMessages : Ring1!Lines(m) = RP!Lines(m)
  /\ \A n, longest : Ring1!Room(n, longest) <=> RP!Room(n, longest)
  /\ \A n, longest : Ring1!Room(n, longest)' <=> RP!Room(n, longest)'
BY DEF
      Ring1!Room, RP!Room,
      Ring1!Next64Aligned, RP!Next64Aligned, Ring1!LinesOf, RP!LinesOf,
      Ring1!Lines, RP!Lines, Ring1!indices, RP!indices, Ring1!vars, RP!vars,
      Ring1!NoSnap, RP!NoSnap, Ring1!NoFrame, RP!NoFrame, Ring1!Torn, RP!Torn,
      Ring1!Zero, RP!Zero, Ring1!Part, RP!Part, Ring1!Copied, RP!Copied,
      Ring1!Wrap, RP!Wrap, Ring1!End, RP!End, Ring1!UsedBy, RP!UsedBy,
      Ring1!Used, RP!Used, Ring1!At, RP!At, Ring1!LineAt, RP!LineAt,
      Ring1!Empty, RP!Empty, Ring1!Init, RP!Init, Ring1!Initialize,
      RP!Initialize, Ring1!Uninitialize, RP!Uninitialize, Ring1!first_run,
      RP!first_run, Ring1!capacity, RP!capacity, Ring1!Accepts, RP!Accepts,
      Ring1!Skipped, RP!Skipped, Ring1!Charged, RP!Charged, Ring1!HigherOf,
      RP!HigherOf, Ring1!LowerOf, RP!LowerOf, Ring1!RaiseMarks, RP!RaiseMarks,
      Ring1!Write, RP!Write, Ring1!WriteRefused, RP!WriteRefused,
      Ring1!AtSkip, RP!AtSkip, Ring1!ReadStart, RP!ReadStart, Ring1!ReadLen,
      RP!ReadLen, Ring1!ReadReleases, RP!ReadReleases, Ring1!Remaining,
      RP!Remaining, Ring1!Read, RP!Read, Ring1!ReadNothing, RP!ReadNothing,
      Ring1!Snap, RP!Snap, Ring1!Discard, RP!Discard, Ring1!GetCapacity,
      RP!GetCapacity, Ring1!Next, RP!Next, Ring1!SnapRecord, RP!SnapRecord,
      Ring1!TypeOK, RP!TypeOK, Ring1!Expected, RP!Expected, Ring1!IndicesOK,
      RP!IndicesOK, Ring1!OrderedOK, RP!OrderedOK, Ring1!SkipsOK, RP!SkipsOK,
      Ring1!SnapOK, RP!SnapOK, Ring1!Frame, RP!Frame, Ring1!First, RP!First,
      Ring1!StoredFramesIntact, RP!StoredFramesIntact, Ring1!NeverUndercounts,
      RP!NeverUndercounts, Ring1!StoredFrames, RP!StoredFrames, Ring1!IInv,
      RP!IInv

\* An initialized ring satisfies its invariant.
LEMMA RingStarts == Ring1!Init => Ring1!IInv
BY RingAssumptions, SameRing, RP!InitEstablishes

\* No operation of the ring breaks it.
LEMMA RingStep == Ring1!IInv /\ [Ring1!Next]_(Ring1!vars) => Ring1!IInv'
BY RingAssumptions, SameRing, RP!NextStep

\* The stored messages, as the queue that the ring implements.
LEMMA RingQueue ==
  ASSUME Ring1!IInv
  PROVE  /\ Ring1!StoredFrames \in Seq(StoredMessages)
         /\ Len(Ring1!StoredFrames) = FramesStored
         /\ FramesStored \in Nat
         /\ Len(layout) = FramesStored
         /\ \A i \in 1 .. FramesStored : Ring1!StoredFrames[i] = layout[i].frame
<1>1. RP!IInv
  BY SameRing
<1>2. Len(layout) = FramesStored
  BY DEF Ring1!IInv, Ring1!StoredFramesIntact
<1>3. QED
  BY <1>1, <1>2, RingAssumptions, SameRing, RP!StoredFramesType

\* An accepted Write stores the message behind all others.
LEMMA RingWrite ==
  ASSUME Ring1!IInv, NEW m \in StoredMessages, Ring1!Write(m)
  PROVE  Ring1!StoredFrames' = Append(Ring1!StoredFrames, m)
<1>1. RP!IInv /\ RP!Write(m)
  BY SameRing
<1>2. QED
  BY <1>1, RingAssumptions, SameRing, RP!WritePuts DEF RP!Queue!Put

\* Read takes the oldest message.
LEMMA RingRead ==
  ASSUME Ring1!IInv, Ring1!Read
  PROVE  /\ Ring1!StoredFrames # <<>>
         /\ Ring1!StoredFrames' = Tail(Ring1!StoredFrames)
         /\ out' = <<"read", Head(Ring1!StoredFrames)>>
<1>1. RP!IInv /\ RP!Read
  BY SameRing
<1>2. QED
  BY <1>1, RingAssumptions, SameRing, RP!ReadGets DEF RP!Queue!Get

\* Discard removes the messages behind the snapshot.
LEMMA RingDiscard ==
  ASSUME Ring1!IInv, Ring1!Discard
  PROVE  /\ ringbufsnap.FramesStored \in 0 .. FramesStored
         /\ Ring1!StoredFrames'
              = SubSeq(Ring1!StoredFrames, 1, ringbufsnap.FramesStored)
<1>1. RP!IInv /\ RP!Discard
  BY SameRing
<1>2. ringbufsnap # Ring1!NoSnap
  BY DEF Ring1!Discard
<1>3. ringbufsnap.FramesStored \in 0 .. FramesStored
  <2>1. ringbufsnap \in Ring1!SnapRecord
    BY <1>2 DEF Ring1!IInv, Ring1!TypeOK
  <2>2. ringbufsnap.FramesStored \in Nat
    BY <2>1 DEF Ring1!SnapRecord
  <2>3. ringbufsnap.FramesStored <= Len(layout)
    BY <1>2 DEF Ring1!IInv, Ring1!SnapOK
  <2>4. QED
    BY <2>2, <2>3, RingQueue
<1>4. RP!SavedLength.length = ringbufsnap.FramesStored
  BY <1>2 DEF RP!SavedLength, RP!NoSnap, Ring1!NoSnap
<1>5. QED
  BY <1>1, <1>3, <1>4, RingAssumptions, SameRing, RP!DiscardRollsBack
     DEF RP!Queue!RollBack

\* The parser sees a drained ring exactly when no message is stored.
LEMMA RingDrainedIsEmpty ==
  ASSUME Ring1!IInv, RingDrained
  PROVE  Stored = {}
<1>1. /\ Ring1!Used <= NumberOfStoredBytes
      /\ Len(layout) = FramesStored /\ FramesStored \in Nat
  BY RingQueue DEF Ring1!IInv, Ring1!NeverUndercounts
<1>2. ASSUME NEW i \in 1 .. Len(layout) PROVE NumberOfStoredBytes # 0
  <2>1. RP!IInv
    BY SameRing
  <2>2. /\ layout[i].off \in Nat /\ layout[i].off < RP!End(layout, i)
        /\ RP!End(layout, i) \in Nat
        /\ RP!End(layout, i) <= RP!Used /\ RP!Used \in Nat
    BY <2>1, RingAssumptions, RP!LayoutFacts
  <2>3. RP!Used <= NumberOfStoredBytes
    BY <2>1 DEF RP!IInv, RP!NeverUndercounts
  <2>4. QED
    BY <2>2, <2>3
<1>3. QED
  BY <1>1, <1>2 DEF RingDrained, Stored

-----------------------------------------------------------------------------
(* Frames and what is stored of them.                                       *)

\* The types of a frame's fields, in the form the provers need.
LEMMA FrameFacts ==
  ASSUME NEW f \in WireFrames
  PROVE  /\ f \in FrameType /\ f # NoFrame
         /\ f.session \in Nat /\ f.session \in Sessions
         /\ f.seq \in Nat /\ f.header \in Verdict
         /\ f.messages \in Seq([bytes : Nat, ok : Verdict])
         /\ Len(f.messages) \in Nat
<1>1. f \in FrameType
  BY WireAssumption
<1>2. f # NoFrame
  <2>1. f.type \in {"shutdown", "other"}
    BY <1>1 DEF FrameType
  <2>2. NoFrame.type = "none"
    BY DEF NoFrame
  <2>3. QED
    BY <2>1, <2>2
<1>3. f.session \in Sessions
  BY DEF Sessions
<1>4. QED
  BY <1>1, <1>2, <1>3 DEF FrameType

\* What the loop over the messages stores is one of the ring's frames.
LEMMA StoredMessageType ==
  ASSUME TypeOK, ~Idle, MessageIndex <= Len(frame.messages)
  PROVE  ToStore \in StoredMessages
<1>1. frame \in WireFrames /\ MessageIndex \in 1 .. Len(frame.messages)
  BY FrameFacts DEF TypeOK, Idle
<1>2. Phase \in Phases
  BY DEF Phase, Phases, TypeOK
<1>3. \A f \in WireFrames, b \in BOOLEAN, s \in Phases :
        \A k \in 1 .. Len(f.messages) : StoredMessage(f, k, b, s) \in StoredMessages
  BY DEF StoredMessages
<1>4. QED
  BY <1>1, <1>2, <1>3 DEF ToStore

\* The auxiliary fields of a stored message.
LEMMA StoredMessageFields ==
  ASSUME NEW f, NEW k, NEW b, NEW p
  PROVE  /\ StoredMessage(f, k, b, p).frame = f
         /\ StoredMessage(f, k, b, p).index = k
         /\ StoredMessage(f, k, b, p).phase = p
BY DEF StoredMessage

\* So has every message that waits.
LEMMA WaitingFields ==
  ASSUME Ring1!IInv, NEW i \in 1 .. Len(layout)
  PROVE  layout[i].frame.index \in Nat
<1>1. layout[i].frame \in StoredMessages
  BY RingQueue
<1>2. PICK f \in WireFrames, b \in BOOLEAN, p \in Phases :
        \E k \in 1 .. Len(f.messages) : layout[i].frame = StoredMessage(f, k, b, p)
  BY <1>1 DEF StoredMessages
<1>3. PICK k \in 1 .. Len(f.messages) : layout[i].frame = StoredMessage(f, k, b, p)
  BY <1>2
<1>4. k \in Nat
  BY FrameFacts
<1>5. QED
  BY <1>3, <1>4, StoredMessageFields

\* The messages waiting for the inserter are the entries of the queue.
LEMMA StoredIsQueue ==
  ASSUME Ring1!IInv
  PROVE  Stored = { Ring1!StoredFrames[i] : i \in 1 .. FramesStored }
BY RingQueue DEF Stored

\* The same after a step.
LEMMA QueueNext ==
  ASSUME Ring1!IInv'
  PROVE  /\ Stored' = { Ring1!StoredFrames'[i] : i \in 1 .. FramesStored' }
         /\ Len(layout') = FramesStored'
         /\ \A i \in 1 .. FramesStored' : Ring1!StoredFrames'[i] = layout'[i].frame
<1>1. Len(layout') = FramesStored'
  BY DEF Ring1!IInv, Ring1!StoredFramesIntact
<1>2. Ring1!StoredFrames' = [i \in 1 .. Len(layout') |-> layout'[i].frame]
  BY DEF Ring1!StoredFrames
<1>3. Stored' = { layout'[i].frame : i \in 1 .. Len(layout') }
  BY DEF Stored
<1>4. QED
  BY <1>1, <1>2, <1>3

\* A Write puts its message behind what waits.
LEMMA WriteStores ==
  ASSUME Ring1!IInv, Ring1!IInv', NEW m \in StoredMessages, Ring1!Write(m)
  PROVE  /\ FramesStored \in Nat /\ FramesStored' = FramesStored + 1
         /\ Len(layout) = FramesStored /\ Len(layout') = FramesStored + 1
         /\ \A i \in 1 .. FramesStored : layout'[i].frame = layout[i].frame
         /\ layout'[FramesStored + 1].frame = m
<1> DEFINE q == Ring1!StoredFrames
<1>1. /\ q \in Seq(StoredMessages) /\ Len(q) = FramesStored /\ FramesStored \in Nat
      /\ q' = Append(q, m) /\ Len(layout) = FramesStored
  BY RingQueue, RingWrite
<1>2. /\ Len(layout') = FramesStored'
      /\ \A i \in 1 .. FramesStored' : q'[i] = layout'[i].frame
  BY QueueNext
<1>3. /\ FramesStored' = FramesStored + 1
      /\ \A i \in 1 .. FramesStored : q[i] = layout[i].frame
  BY RingQueue DEF Ring1!Write
<1>4. /\ \A i \in 1 .. FramesStored : q'[i] = q[i]
      /\ q'[FramesStored + 1] = m
  BY <1>1, AppendProperties
<1> HIDE DEF q
<1>5. QED
  BY <1>1, <1>2, <1>3, <1>4

\* A step that leaves the messages behind the first d where they are, as far
\* as it leaves them at all.
Keeps(d) ==
  /\ Len(layout') + d <= Len(layout)
  /\ \A i \in 1 .. Len(layout') : layout'[i].frame = layout[i + d].frame

\* Read takes at most the first message.
LEMMA ReadStores ==
  ASSUME Ring1!IInv, Ring1!IInv', Ring1!Read \/ Ring1!ReadNothing
  PROVE  \E d \in Nat : Keeps(d)
<1>1. CASE Ring1!ReadNothing
  <2>1. Len(layout) \in Nat /\ layout' = layout
    BY <1>1, RingQueue DEF Ring1!ReadNothing
  <2>2. Keeps(0)
    BY <2>1 DEF Keeps
  <2>3. QED
    BY <2>2
<1>2. CASE Ring1!Read
  <2> DEFINE q == Ring1!StoredFrames
  <2>1. /\ q \in Seq(StoredMessages) /\ Len(q) = FramesStored /\ FramesStored \in Nat
        /\ q # <<>> /\ q' = Tail(q) /\ Len(layout) = FramesStored
        /\ \A i \in 1 .. FramesStored : q[i] = layout[i].frame
    BY <1>2, RingQueue, RingRead
  <2>2. /\ Len(layout') = FramesStored'
        /\ \A i \in 1 .. FramesStored' : q'[i] = layout'[i].frame
    BY QueueNext
  <2>3. FramesStored' = FramesStored - 1 /\ FramesStored > 0
    BY <1>2 DEF Ring1!Read
  <2>4. \A i \in 1 .. FramesStored - 1 : q'[i] = q[i + 1]
    BY <2>1, HeadTailProperties
  <2> HIDE DEF q
  <2>5. Keeps(1)
    BY <2>1, <2>2, <2>3, <2>4 DEF Keeps
  <2>6. QED
    BY <2>5
<1>3. QED
  BY <1>1, <1>2

\* Discard leaves the messages before the snapshot where they are.
LEMMA DiscardStores ==
  ASSUME Ring1!IInv, Ring1!IInv', Ring1!Discard
  PROVE  /\ Keeps(0)
         /\ ringbufsnap.FramesStored \in 0 .. FramesStored
         /\ Len(layout') = ringbufsnap.FramesStored
         /\ \A i \in 1 .. Len(layout') : layout'[i].frame = layout[i].frame
<1> DEFINE q == Ring1!StoredFrames
           K == ringbufsnap.FramesStored
<1>1. /\ q \in Seq(StoredMessages) /\ Len(q) = FramesStored /\ FramesStored \in Nat
      /\ K \in 0 .. FramesStored /\ q' = SubSeq(q, 1, K) /\ Len(layout) = FramesStored
      /\ \A i \in 1 .. FramesStored : q[i] = layout[i].frame
  BY RingQueue, RingDiscard
<1>2. /\ Len(layout') = FramesStored'
      /\ \A i \in 1 .. FramesStored' : q'[i] = layout'[i].frame
  BY QueueNext
<1>3. FramesStored' = K
  BY DEF Ring1!Discard
<1>4. \A i \in 1 .. K : q'[i] = q[i]
  BY <1>1
<1> HIDE DEF q, K
<1>5. /\ Len(layout') = K
      /\ \A i \in 1 .. Len(layout') : layout'[i].frame = layout[i].frame
  BY <1>1, <1>2, <1>3, <1>4
<1>6. Keeps(0)
  BY <1>1, <1>5 DEF Keeps
<1>7. QED
  BY <1>1, <1>5, <1>6 DEF K

\* Messages that are left where they were keep what is said of their order.
LEMMA KeptInOrder ==
  ASSUME IInv, NEW d \in Nat, Keeps(d), Len(layout') \in Nat,
         UNCHANGED <<state, CommonValueSessionId>>
  PROVE  /\ PhasesOfRing' /\ SessionsStayApart'
         /\ \A i \in 1 .. Len(layout') :
              LET m == layout'[i].frame IN
              m.phase.state = "startup" => m.frame.type = "shutdown" \/ i <= m.index
<1>1. Len(layout) \in Nat
  BY RingQueue DEF IInv
<1>2. ASSUME NEW i \in 1 .. Len(layout')
      PROVE  i + d \in 1 .. Len(layout) /\ layout'[i].frame = layout[i + d].frame
  BY <1>1 DEF Keeps
<1>3. Stored' \subseteq Stored
  BY <1>2 DEF Stored
<1>4. PhasesOfRing' /\ UnderIdOfStoring' /\ OnlyOwnIfFiltered'
  BY <1>3 DEF IInv, PhasesOfRing, SessionsStayApart, UnderIdOfStoring, OnlyOwnIfFiltered
<1>5. InOneRun'
  <2> SUFFICES ASSUME NEW i \in 1 .. Len(layout'), NEW j \in 1 .. Len(layout'), i < j
               PROVE  /\ layout'[j].frame.phase.state = "startup"
                           => layout'[i].frame.phase.state = "startup"
                      /\ layout'[i].frame.phase.state = "shutdown"
                           => layout'[j].frame.phase.state = "shutdown"
    BY DEF InOneRun
  <2>1. /\ i + d \in 1 .. Len(layout) /\ layout'[i].frame = layout[i + d].frame
        /\ j + d \in 1 .. Len(layout) /\ layout'[j].frame = layout[j + d].frame
        /\ i + d < j + d
    BY <1>2
  <2>2. \A a, b \in 1 .. Len(layout) : a < b =>
          /\ layout[b].frame.phase.state = "startup"
               => layout[a].frame.phase.state = "startup"
          /\ layout[a].frame.phase.state = "shutdown"
               => layout[b].frame.phase.state = "shutdown"
    BY DEF IInv, SessionsStayApart, InOneRun
  <2>3. QED
    BY <2>1, <2>2
<1>6. ASSUME NEW i \in 1 .. Len(layout'), layout'[i].frame.phase.state = "startup"
      PROVE  layout'[i].frame.frame.type = "shutdown" \/ i <= layout'[i].frame.index
  <2>1. \/ layout[i + d].frame.frame.type = "shutdown"
        \/ i + d <= layout[i + d].frame.index
    BY <1>2, <1>6 DEF IInv, StraysOK
  <2>2. layout[i + d].frame.index \in Nat
    BY <1>2, WaitingFields DEF IInv
  <2>3. QED
    BY <1>2, <2>1, <2>2
<1>7. QED
  BY <1>4, <1>5, <1>6 DEF SessionsStayApart

-----------------------------------------------------------------------------
(* The invariant.                                                           *)

\* It holds at first.
LEMMA InitEstablishes == Init => IInv
<1> SUFFICES ASSUME Init PROVE IInv
  OBVIOUS
<1>1. Ring1!IInv /\ Ring1!Init /\ Ring1!TypeOK
  BY RingStarts DEF Init, Ring1!IInv
<1>2. Idle /\ layout = <<>> /\ Stored = {}
  BY <1>1 DEF Init, Idle, Stored, Ring1!Init
<1>3. TypeOK
  <2>1. MessageIndex \in 1 .. (IF Idle THEN 1 ELSE Len(frame.messages) + 1)
    BY <1>2 DEF Init
  <2>2. QED
    BY <1>1, <1>2, <2>1 DEF Init, TypeOK, States, Sessions, Idle
<1>4. QED
  BY <1>1, <1>2, <1>3 DEF Init, IInv, ShutdownIsOver, PhasesOfRing, StraysOK,
     SessionPublished, SessionsStayApart, UnderIdOfStoring, OnlyOwnIfFiltered,
     InOneRun, FrameOfSession, FrameBehindSnap

\* Every step of the loop is an operation of the ring, or leaves it alone.
LEMMA StepIsOfRing ==
  ASSUME IInv, [Next]_vars
  PROVE  [Ring1!Next]_(Ring1!vars)
<1>1. UNCHANGED ring => UNCHANGED Ring1!vars
  BY DEF ring, Ring1!vars, Ring1!indices
<1>2. CASE IterateHeldBack
  BY <1>2 DEF IterateHeldBack, Ring1!Next
<1>3. CASE \E f \in WireFrames : DropFrame(f)
  BY <1>1, <1>3 DEF DropFrame, vars
<1>4. CASE \E f \in WireFrames : StartFrame(f)
  BY <1>4 DEF StartFrame, Ring1!Next
<1>5. CASE WriteMessage \/ WriteAgain
  <2>1. ToStore \in StoredMessages
    BY <1>5, StoredMessageType DEF IInv, WriteMessage, WriteAgain
  <2>2. Ring1!Write(ToStore) \/ Ring1!WriteRefused(ToStore)
    BY <1>5 DEF WriteMessage, WriteAgain
  <2>3. QED
    BY <2>1, <2>2 DEF Ring1!Next
<1>6. CASE FinishFrame
  BY <1>1, <1>6 DEF FinishFrame, Ring1!Next
<1>7. CASE InserterReads
  BY <1>7 DEF InserterReads, Ring1!Next
<1>8. CASE Toggle
  BY <1>1, <1>8 DEF Toggle, ToggleTiming, ToggleFilter
<1>9. CASE UNCHANGED vars
  BY <1>1, <1>9 DEF vars
<1>10. QED
  BY <1>2, <1>3, <1>4, <1>5, <1>6, <1>7, <1>8, <1>9 DEF Next, InFrame

\* So the ring stays what its theorems say.
LEMMA RingNext ==
  ASSUME IInv, [Next]_vars
  PROVE  Ring1!IInv'
BY StepIsOfRing, RingStep DEF IInv

\* A frame that passes the header and the filter is stored under the state
\* that UpdateParserState leaves.
LEMMA StartFrameStep ==
  ASSUME IInv, NEW f \in WireFrames, StartFrame(f)
  PROVE  IInv'
<1>1. Ring1!IInv' /\ Ring1!TypeOK'
  BY RingNext DEF Next, Ring1!IInv
<1>2. /\ UNCHANGED <<layout, FramesStored, timing, filter, CommonValueSequenceNumber>>
      /\ Stored' = Stored
      /\ frame' = f /\ MessageIndex' = 1 /\ DiscardFrame' = FALSE
      /\ Idle /\ f.header[timing] /\ ~ForeignFrame(f) /\ UpdateParserState(f)
  BY DEF StartFrame, Ring1!Snap, Ring1!indices, flags, Stored, HeaderOK
<1>3. /\ f \in FrameType /\ f # NoFrame /\ f.session \in Nat /\ f.session \in Sessions
      /\ 0 \in Sessions /\ Len(f.messages) \in Nat
  BY FrameFacts DEF Sessions
<1>4. /\ state' \in States /\ SessionIdVal' \in Sessions
      /\ CommonFlagShutdownReceived' \in BOOLEAN
      /\ CommonFlagSessionIdReceived' \in BOOLEAN /\ CommonValueSessionId' \in Nat
      /\ ShutdownIsOver' /\ SessionPublished'
  <2> USE DEF IInv, TypeOK, States, ShutdownIsOver, SessionPublished
  <2>1. CASE StartSession(f)
    BY <1>3, <2>1 DEF StartSession
  <2>2. CASE EndSession(f)
    BY <2>2 DEF EndSession
  <2>3. CASE AnnounceShutdown
    BY <1>3, <2>3 DEF AnnounceShutdown
  <2>4. CASE KeepState(f)
    BY <2>4 DEF KeepState, session
  <2>5. QED
    BY <1>2, <2>1, <2>2, <2>3, <2>4 DEF UpdateParserState
<1>5. TypeOK'
  <2>1. ~Idle' /\ MessageIndex' \in 1 .. Len(frame'.messages) + 1
    BY <1>2, <1>3 DEF Idle
  <2>2. CommonValueSequenceNumber' \in Nat /\ timing' \in BOOLEAN /\ filter' \in BOOLEAN
    BY <1>2 DEF IInv, TypeOK
  <2>3. QED
    BY <1>1, <1>2, <1>4, <2>1, <2>2 DEF TypeOK
<1>6. AnnounceShutdown => Stored = {} /\ FramesStored = 0
  <2>1. SUFFICES ASSUME AnnounceShutdown PROVE Stored = {} /\ FramesStored = 0
    OBVIOUS
  <2>2. Stored = {}
    BY <2>1, RingDrainedIsEmpty DEF AnnounceShutdown, IInv
  <2>3. Len(layout) = FramesStored /\ FramesStored \in Nat
    BY RingQueue DEF IInv
  <2>4. FramesStored > 0 => layout[1].frame \in Stored
    BY <2>3 DEF Stored
  <2>5. QED
    BY <2>2, <2>3, <2>4
<1>7. /\ PhasesOfRing' /\ StraysOK' /\ SessionsStayApart'
  <2>1. PhasesOfRing'
    <3>1. CASE AnnounceShutdown
      BY <1>2, <1>6, <3>1 DEF PhasesOfRing
    <3>2. CASE ~AnnounceShutdown
      BY <1>2, <3>2 DEF IInv, PhasesOfRing, UpdateParserState, StartSession, EndSession,
         KeepState, session
    <3>3. QED
      BY <3>1, <3>2
  <2>2. StraysOK'
    <3>1. state' = "startup" /\ f.type # "shutdown" => ringbufsnap'.FramesStored = 0
      <4>1. ringbufsnap'.FramesStored = FramesStored
        BY DEF StartFrame, Ring1!Snap
      <4>2. QED
        BY <1>2, <1>6, <4>1 DEF UpdateParserState, StartSession, EndSession, KeepState,
           session
    <3>2. QED
      BY <1>2, <3>1 DEF IInv, StraysOK
  <2>3. UnderIdOfStoring' /\ OnlyOwnIfFiltered'
    <3>1. CASE StartSession(f)
      BY <1>2, <3>1 DEF IInv, StartSession, PhasesOfRing, UnderIdOfStoring,
         OnlyOwnIfFiltered
    <3>2. CASE ~StartSession(f)
      BY <1>2, <3>2 DEF IInv, SessionsStayApart, UnderIdOfStoring, OnlyOwnIfFiltered,
         UpdateParserState, EndSession, AnnounceShutdown, KeepState
    <3>3. QED
      BY <3>1, <3>2
  <2>4. InOneRun'
    BY <1>2 DEF IInv, SessionsStayApart, InOneRun
  <2>5. QED
    BY <2>1, <2>2, <2>3, <2>4 DEF SessionsStayApart
<1>8. FrameOfSession'
  <2> SUFFICES ASSUME state' = "session", filter
               PROVE  f.session = CommonValueSessionId'
    BY <1>2 DEF FrameOfSession, Phase
  <2>1. CASE StartSession(f)
    BY <2>1 DEF StartSession
  <2>2. CASE ~StartSession(f)
    BY <1>2, <2>2 DEF IInv, SessionPublished, ForeignFrame, UpdateParserState,
       EndSession, AnnounceShutdown, KeepState, session
  <2>3. QED
    BY <2>1, <2>2
<1>9. FrameBehindSnap'
  <2>1. ringbufsnap'.snap = "at" /\ ringbufsnap'.FramesStored = FramesStored
    BY DEF StartFrame, Ring1!Snap
  <2>2. ringbufsnap' # Ring1!NoSnap
    BY <2>1 DEF Ring1!NoSnap
  <2>3. FramesStored \in Nat
    BY RingQueue DEF IInv
  <2>4. f.messages # <<>> /\ ~(1 > Len(f.messages))
    <3>1. f.messages # <<>>
      BY <1>2, WireAssumption DEF IInv, TypeOK
    <3>2. QED
      BY <3>1, FrameFacts
  <2>5. QED
    BY <1>2, <2>1, <2>2, <2>3, <2>4 DEF FrameBehindSnap
<1>10. QED
  BY <1>1, <1>4, <1>5, <1>7, <1>8, <1>9 DEF IInv

\* A message is stored behind the others of its frame; the first that fails
\* a check makes the frame one to take back.
LEMMA WriteMessageStep ==
  ASSUME IInv, WriteMessage
  PROVE  IInv'
<1> DEFINE base == ringbufsnap.FramesStored
<1>1. Ring1!IInv' /\ Ring1!TypeOK'
  BY RingNext DEF Next, InFrame, Ring1!IInv
<1>2. /\ ~Idle /\ ~Idle' /\ MessageIndex <= Len(frame.messages) /\ ~DiscardFrame
      /\ Ring1!Write(ToStore)
      /\ DiscardFrame' = (MessageBad \/ (Last /\ ~FitsExactly))
      /\ MessageIndex' = MessageIndex + 1
      /\ UNCHANGED <<state, SessionIdVal, CommonFlagShutdownReceived,
                     CommonFlagSessionIdReceived, CommonValueSessionId,
                     CommonValueSequenceNumber, timing, filter, frame, ringbufsnap>>
  BY DEF WriteMessage, Ring1!Write, session, common, flags, Idle
<1>3. /\ frame \in WireFrames /\ Len(frame.messages) \in Nat
      /\ MessageIndex \in 1 .. Len(frame.messages) /\ frame.header[timing]
      /\ timing \in BOOLEAN
  BY <1>2, FrameFacts DEF IInv, TypeOK, Idle
<1>4. ToStore \in StoredMessages
  BY <1>2, StoredMessageType DEF IInv
<1>5. /\ FramesStored \in Nat /\ FramesStored' = FramesStored + 1
      /\ Len(layout) = FramesStored /\ Len(layout') = FramesStored + 1
      /\ \A i \in 1 .. FramesStored : layout'[i].frame = layout[i].frame
      /\ layout'[FramesStored + 1].frame = ToStore
  BY <1>1, <1>2, <1>4, WriteStores DEF IInv
<1>6. /\ ToStore.frame = frame /\ ToStore.phase = Phase /\ Phase' = Phase
      /\ ToStore.index = MessageIndex
      /\ Phase.state = "startup" <=> state = "startup"
      /\ Phase.state = "shutdown" <=> state = "shutdown"
      /\ Phase.session = SessionIdVal
  BY <1>2, StoredMessageFields DEF ToStore, Phase
<1>7. TypeOK'
  <2>1. MessageIndex' \in 1 .. Len(frame'.messages) + 1 /\ DiscardFrame' \in BOOLEAN
    BY <1>2, <1>3
  <2>2. QED
    BY <1>1, <1>2, <1>3, <2>1 DEF IInv, TypeOK
<1>8. ShutdownIsOver' /\ SessionPublished' /\ FrameOfSession'
  BY <1>2, <1>6 DEF IInv, ShutdownIsOver, SessionPublished, FrameOfSession
<1>9. Stored' = Stored \cup {ToStore}
  BY <1>5 DEF Stored
<1>10. PhasesOfRing' /\ StraysOK' /\ SessionsStayApart'
  <2>1. PhasesOfRing'
    BY <1>2, <1>6, <1>9 DEF IInv, PhasesOfRing
  <2>2. StraysOK'
    <3>1. state = "startup" /\ frame.type # "shutdown" => FramesStored + 1 <= MessageIndex
      BY <1>2, <1>3, <1>5 DEF IInv, StraysOK, FrameBehindSnap
    <3>2. ASSUME NEW i \in 1 .. Len(layout'), layout'[i].frame.phase.state = "startup"
          PROVE  \/ layout'[i].frame.frame.type = "shutdown"
                 \/ i <= layout'[i].frame.index
      <4>1. CASE i \in 1 .. FramesStored
        BY <1>5, <3>2, <4>1 DEF IInv, StraysOK
      <4>2. CASE i = FramesStored + 1
        BY <1>5, <1>6, <3>1, <3>2, <4>2
      <4>3. QED
        BY <1>5, <4>1, <4>2
    <3>3. QED
      BY <1>2, <3>2 DEF IInv, StraysOK
  <2>3. UnderIdOfStoring' /\ OnlyOwnIfFiltered'
    BY <1>2, <1>6, <1>9 DEF IInv, SessionsStayApart, UnderIdOfStoring, OnlyOwnIfFiltered,
       SessionPublished, FrameOfSession
  <2>4. ASSUME NEW i \in 1 .. Len(layout'), NEW j \in 1 .. Len(layout'), i < j
        PROVE  /\ layout'[j].frame.phase.state = "startup"
                    => layout'[i].frame.phase.state = "startup"
               /\ layout'[i].frame.phase.state = "shutdown"
                    => layout'[j].frame.phase.state = "shutdown"
    <3>1. i \in 1 .. FramesStored /\ layout'[i].frame = layout[i].frame
      BY <1>5, <2>4
    <3>2. CASE j \in 1 .. FramesStored
      BY <1>5, <2>4, <3>1, <3>2 DEF IInv, SessionsStayApart, InOneRun
    <3>3. CASE j = FramesStored + 1
      <4>1. layout[i].frame \in Stored
        BY <1>5, <3>1 DEF Stored
      <4>2. QED
        BY <1>5, <1>6, <3>1, <3>3, <4>1 DEF IInv, PhasesOfRing
    <3>4. QED
      BY <1>5, <3>2, <3>3
  <2>5. InOneRun'
    BY <2>4 DEF InOneRun
  <2>6. QED
    BY <2>1, <2>2, <2>3, <2>5 DEF SessionsStayApart
<1>11. FrameBehindSnap'
  <2>1. ringbufsnap # Ring1!NoSnap /\ FramesStored = base + MessageIndex - 1
    BY <1>2 DEF IInv, FrameBehindSnap
  <2>2. base \in Nat
    BY <2>1 DEF IInv, TypeOK, Ring1!TypeOK, Ring1!SnapRecord
  <2>3. FramesStored' = base + MessageIndex' - 1
    BY <1>2, <1>3, <1>5, <2>1, <2>2
  <2>4. ASSUME ~DiscardFrame', NEW k \in 1 .. MessageIndex
        PROVE  /\ frame.messages[k].ok[timing]
               /\ layout'[base + k].frame = StoredMessage(frame, k, timing, Phase)
    <3>1. CASE k < MessageIndex
      <4>1. k \in 1 .. MessageIndex - 1 /\ base + k \in 1 .. FramesStored
        BY <1>3, <2>1, <2>2, <3>1
      <4>2. /\ frame.messages[k].ok[timing]
            /\ layout[base + k].frame = StoredMessage(frame, k, timing, Phase)
        BY <1>2, <4>1 DEF IInv, FrameBehindSnap
      <4>3. QED
        BY <1>5, <4>1, <4>2
    <3>2. CASE k = MessageIndex
      <4>1. ~MessageBad
        BY <1>2, <2>4
      <4>2. (timing /\ ~MessageBad) = timing
        BY <1>3, <4>1
      <4>3. base + k = FramesStored + 1
        BY <1>3, <2>1, <2>2, <3>2
      <4>4. QED
        BY <1>5, <3>2, <4>1, <4>2, <4>3 DEF ToStore, MessageBad
    <3>3. QED
      BY <1>3, <3>1, <3>2
  <2>5. ~DiscardFrame' /\ MessageIndex' > Len(frame.messages) => FitsExactly
    <3>1. MessageIndex' > Len(frame.messages) => Last
      BY <1>2, <1>3 DEF Last
    <3>2. ~DiscardFrame' /\ Last => FitsExactly
      BY <1>2
    <3>3. QED
      BY <3>1, <3>2
  <2>6. MessageIndex' - 1 = MessageIndex /\ (FitsExactly' <=> FitsExactly)
    BY <1>2, <1>3 DEF FitsExactly
  <2>7. QED
    BY <1>2, <1>6, <2>1, <2>3, <2>4, <2>5, <2>6 DEF FrameBehindSnap
<1>12. QED
  BY <1>1, <1>7, <1>8, <1>10, <1>11 DEF IInv

\* A refused Write changes nothing but its answer.
LEMMA WriteAgainStep ==
  ASSUME IInv, WriteAgain
  PROVE  IInv'
<1>1. Ring1!IInv' /\ Ring1!TypeOK'
  BY RingNext DEF Next, InFrame, Ring1!IInv
<1>2. UNCHANGED <<state, SessionIdVal, CommonFlagShutdownReceived,
                  CommonFlagSessionIdReceived, CommonValueSessionId,
                  CommonValueSequenceNumber, timing, filter, frame, MessageIndex,
                  DiscardFrame, ringbufsnap, FramesStored, layout>>
  BY DEF WriteAgain, Ring1!WriteRefused, Ring1!indices, session, common, flags, walk
<1>3. Stored' = Stored /\ Phase' = Phase /\ (Idle' <=> Idle)
  BY <1>2 DEF Stored, Phase, Idle
<1>4. TypeOK'
  BY <1>1, <1>2, <1>3 DEF IInv, TypeOK
<1>5. /\ ShutdownIsOver' /\ PhasesOfRing' /\ StraysOK' /\ SessionPublished'
      /\ SessionsStayApart' /\ FrameOfSession'
  BY <1>2, <1>3 DEF IInv, ShutdownIsOver, PhasesOfRing, StraysOK, SessionPublished,
     SessionsStayApart, UnderIdOfStoring, OnlyOwnIfFiltered, InOneRun, FrameOfSession
<1>6. FrameBehindSnap'
  BY <1>2, <1>3 DEF IInv, FrameBehindSnap, FitsExactly
<1>7. QED
  BY <1>1, <1>4, <1>5, <1>6 DEF IInv

\* Steps after which no frame is being stored, and nothing more than before.
LEMMA IdleStep ==
  ASSUME IInv, Ring1!IInv', Idle', MessageIndex' = 1, DiscardFrame' \in BOOLEAN,
         NEW d \in Nat, Keeps(d),
         UNCHANGED <<session, CommonFlagShutdownReceived,
                     CommonFlagSessionIdReceived, CommonValueSessionId>>,
         CommonValueSequenceNumber' \in Nat,
         timing' \in BOOLEAN, filter' \in BOOLEAN
  PROVE  IInv'
<1>1. UNCHANGED <<state, SessionIdVal>>
  BY DEF session
<1>2. TypeOK'
  <2>1. frame' = NoFrame /\ Ring1!TypeOK'
    BY DEF Idle, Ring1!IInv
  <2>2. MessageIndex' \in 1 .. (IF Idle' THEN 1 ELSE Len(frame'.messages) + 1)
    OBVIOUS
  <2>3. QED
    BY <1>1, <2>1, <2>2 DEF IInv, TypeOK
<1>3. /\ ShutdownIsOver' /\ PhasesOfRing' /\ StraysOK' /\ SessionPublished'
      /\ SessionsStayApart'
  <2>1. Len(layout') \in Nat
    BY DEF Ring1!IInv, Ring1!TypeOK
  <2>2. ShutdownIsOver' /\ SessionPublished'
    BY <1>1 DEF IInv, ShutdownIsOver, SessionPublished
  <2>3. QED
    BY <1>1, <2>1, <2>2, KeptInOrder DEF StraysOK
<1>4. FrameOfSession' /\ FrameBehindSnap'
  BY DEF FrameOfSession, FrameBehindSnap
<1>5. QED
  BY <1>2, <1>3, <1>4 DEF IInv

\* The end of a frame.
LEMMA FinishFrameStep ==
  ASSUME IInv, FinishFrame
  PROVE  IInv'
<1>1. Ring1!IInv'
  BY RingNext DEF Next, InFrame
<1>2. frame \in WireFrames /\ frame.seq \in Nat
  BY FrameFacts DEF IInv, TypeOK, FinishFrame, Idle
<1>3. CommonValueSequenceNumber' \in Nat
  BY <1>2 DEF FinishFrame, NumberAfter, IInv, TypeOK
<1>4. Keeps(0)
  <2>1. CASE DiscardFrame
    BY <1>1, <2>1, DiscardStores DEF FinishFrame, TakesBack, IInv
  <2>2. CASE ~DiscardFrame
    BY <2>2, RingQueue DEF FinishFrame, TakesBack, ring, Keeps, IInv
  <2>3. QED
    BY <2>1, <2>2
<1>5. /\ Idle' /\ MessageIndex' = 1 /\ DiscardFrame' \in BOOLEAN
      /\ timing' \in BOOLEAN /\ filter' \in BOOLEAN
      /\ UNCHANGED <<session, CommonFlagShutdownReceived,
                     CommonFlagSessionIdReceived, CommonValueSessionId>>
  BY DEF FinishFrame, Idle, flags, IInv, TypeOK
<1>6. QED
  BY <1>1, <1>3, <1>4, <1>5, IdleStep

\* The steps of the loop between two frames.
LEMMA BetweenFramesStep ==
  ASSUME IInv, IterateHeldBack \/ InserterReads \/ Toggle
  PROVE  IInv'
<1>1. Ring1!IInv'
  BY RingNext DEF Next
<1>2. PICK d \in Nat : Keeps(d)
  <2>1. CASE IterateHeldBack \/ Toggle
    <3>1. layout' = layout
      BY <2>1 DEF IterateHeldBack, Ring1!GetCapacity, Toggle, ToggleTiming, ToggleFilter, ring
    <3>2. Keeps(0)
      BY <3>1, RingQueue DEF Keeps, IInv
    <3>3. QED
      BY <3>2
  <2>2. CASE InserterReads
    BY <1>1, <2>2, ReadStores DEF InserterReads, IInv
  <2>3. QED
    BY <2>1, <2>2
<1>3. Idle /\ MessageIndex = 1 /\ DiscardFrame \in BOOLEAN
  BY DEF IInv, TypeOK, IterateHeldBack, InserterReads, Toggle, ToggleTiming,
     ToggleFilter
<1>4. UNCHANGED <<session, common, walk>>
  BY DEF IterateHeldBack, InserterReads, Toggle, ToggleTiming, ToggleFilter
<1>5. timing' \in BOOLEAN /\ filter' \in BOOLEAN
  BY DEF IInv, TypeOK, IterateHeldBack, InserterReads, Toggle, ToggleTiming,
     ToggleFilter, flags
<1>6. QED
  BY <1>1, <1>2, <1>3, <1>4, <1>5, IdleStep DEF IInv, TypeOK, Idle, common, walk

\* No step of the loop breaks the invariant.
LEMMA NextStep == IInv /\ [Next]_vars => IInv'
<1> SUFFICES ASSUME IInv, [Next]_vars PROVE IInv'
  OBVIOUS
<1>1. CASE IterateHeldBack \/ InserterReads \/ Toggle
  BY <1>1, BetweenFramesStep
<1>2. CASE \E f \in WireFrames : StartFrame(f)
  BY <1>2, StartFrameStep
<1>3. CASE WriteMessage
  BY <1>3, WriteMessageStep
<1>4. CASE WriteAgain
  BY <1>4, WriteAgainStep
<1>5. CASE FinishFrame
  BY <1>5, FinishFrameStep
<1>6. CASE UNCHANGED vars
  <2>1. Ring1!IInv' /\ Ring1!TypeOK'
    BY RingNext DEF Ring1!IInv
  <2>2. UNCHANGED <<state, SessionIdVal, CommonFlagShutdownReceived,
                    CommonFlagSessionIdReceived, CommonValueSessionId,
                    CommonValueSequenceNumber, timing, filter, frame, MessageIndex,
                    DiscardFrame, ringbufsnap, FramesStored, layout>>
    BY <1>6 DEF vars, ring, session, common, flags, walk
  <2>3. QED
    BY <2>1, <2>2 DEF IInv, TypeOK, ShutdownIsOver, PhasesOfRing, StraysOK,
       SessionPublished, SessionsStayApart, UnderIdOfStoring, OnlyOwnIfFiltered, InOneRun,
       FrameOfSession, FrameBehindSnap, FitsExactly, Stored, Phase, Idle
<1>7. QED
  BY <1>1, <1>2, <1>3, <1>4, <1>5, <1>6 DEF Next, InFrame, DropFrame

-----------------------------------------------------------------------------
(* What follows from it.                                                    *)

\* The invariant holds whatever frames arrive and whichever keys are hit.
THEOREM ParserInvariant == Spec => []IInv
<1>1. Init => IInv
  BY InitEstablishes
<1>2. IInv /\ [Next]_vars => IInv'
  BY NextStep
<1>3. QED
  BY <1>1, <1>2, PTL DEF Spec

\* Every field keeps its type, those of the ring included.
THEOREM ParserTypes == Spec => []TypeOK
<1>1. IInv => TypeOK
  BY DEF IInv
<1>2. QED
  BY <1>1, ParserInvariant, PTL

\* While shutdown is announced, nothing waits that was stored before the
\* announcement, only the frame that completed it and such of the shutdown type.
THEOREM ParserDrainsBeforeShutdown == Spec => []DrainedBeforeShutdown
<1>1. ASSUME IInv PROVE DrainedBeforeShutdown
  <2>1. \A i \in 1 .. Len(layout) : layout[i].frame \in Stored
    BY DEF Stored
  <2>2. QED
    BY <1>1, <2>1 DEF IInv, ShutdownIsOver, PhasesOfRing, StraysOK, DrainedBeforeShutdown
<1>2. QED
  BY <1>1, ParserInvariant, PTL

\* What was stored in the course of a session waits under the id of that session,
\* draining included; up to the shutdown frame the filter lets in its own frames
\* only; what came between two sessions lies before all of it, and what came behind
\* the shutdown frame after the rest.
THEOREM ParserKeepsSessionsApart == Spec => []SessionsStayApart
<1>1. IInv => SessionsStayApart
  BY DEF IInv
<1>2. QED
  BY <1>1, ParserInvariant, PTL

-----------------------------------------------------------------------------
(* The parser implements the stream.                                        *)

\* Between two frames the stream is all that is stored, in a frame what lies
\* before the snapshot.
LEMMA AcceptedType ==
  ASSUME IInv
  PROVE  /\ FramesStored \in Nat /\ Len(layout) = FramesStored
         /\ Idle => Accepted = Ring1!StoredFrames
         /\ ~Idle => /\ ringbufsnap.FramesStored \in 0 .. FramesStored
                     /\ Accepted = [ i \in 1 .. ringbufsnap.FramesStored |->
                                       layout[i].frame ]
<1>1. FramesStored \in Nat /\ Len(layout) = FramesStored
  BY RingQueue DEF IInv
<1>2. ASSUME ~Idle PROVE ringbufsnap.FramesStored \in 0 .. FramesStored
  <2>1. ringbufsnap # Ring1!NoSnap
    BY <1>2 DEF IInv, FrameBehindSnap
  <2>2. QED
    BY <1>1, <2>1 DEF IInv, TypeOK, Ring1!TypeOK, Ring1!SnapRecord, Ring1!IInv, Ring1!SnapOK
<1>3. QED
  BY <1>1, <1>2 DEF Accepted, Ring1!StoredFrames

\* Steps that the stream does not see.
LEMMA HiddenStep ==
  ASSUME UNCHANGED <<Accepted, CommonValueSequenceNumber>>
  PROVE  [Stream!Next]_(Stream!vars)
BY DEF Stream!vars

\* The inserter takes the oldest message.
LEMMA InserterTakes ==
  ASSUME IInv, InserterReads
  PROVE  [Stream!Next]_(Stream!vars)
<1>1. Idle /\ Idle' /\ CommonValueSequenceNumber' = CommonValueSequenceNumber
  BY DEF InserterReads, Idle, walk, common
<1>2. Accepted = Ring1!StoredFrames /\ Accepted' = Ring1!StoredFrames'
  BY <1>1 DEF Accepted, Ring1!StoredFrames
<1>3. CASE Ring1!Read
  BY <1>1, <1>2, <1>3, RingRead DEF IInv, Stream!Next, Stream!Take
<1>4. CASE Ring1!ReadNothing
  BY <1>1, <1>2, <1>4, HiddenStep DEF Ring1!ReadNothing, Ring1!StoredFrames
<1>5. QED
  BY <1>3, <1>4 DEF InserterReads

\* A frame that is let in is not yet part of the stream.
LEMMA StartFrameHidden ==
  ASSUME IInv, NEW f \in WireFrames, StartFrame(f)
  PROVE  [Stream!Next]_(Stream!vars)
<1>1. Idle /\ ~Idle' /\ CommonValueSequenceNumber' = CommonValueSequenceNumber
  BY FrameFacts DEF StartFrame, Idle
<1>2. layout' = layout /\ ringbufsnap'.FramesStored = FramesStored
  BY DEF StartFrame, Ring1!Snap
<1>3. Len(layout) = FramesStored
  BY AcceptedType
<1>4. Accepted' = Accepted
  BY <1>1, <1>2, <1>3 DEF Accepted
<1>5. QED
  BY <1>1, <1>4, HiddenStep

\* Nor are the messages stored of it.
LEMMA WriteMessageHidden ==
  ASSUME IInv, WriteMessage
  PROVE  [Stream!Next]_(Stream!vars)
<1>1. /\ ~Idle /\ ~Idle' /\ Ring1!Write(ToStore)
      /\ UNCHANGED <<CommonValueSequenceNumber, ringbufsnap>>
  BY DEF WriteMessage, Ring1!Write, Idle, common
<1>2. Ring1!IInv' /\ ToStore \in StoredMessages
  BY RingNext, StoredMessageType DEF Next, InFrame, IInv, WriteMessage
<1>3. \A i \in 1 .. FramesStored : layout'[i].frame = layout[i].frame
  BY <1>1, <1>2, WriteStores DEF IInv
<1>4. ringbufsnap.FramesStored \in 0 .. FramesStored
  BY <1>1, AcceptedType
<1>5. Accepted' = Accepted
  <2> DEFINE base == ringbufsnap.FramesStored
  <2>1. /\ Accepted  = [i \in 1 .. base |-> layout[i].frame]
        /\ Accepted' = [i \in 1 .. base |-> layout'[i].frame]
    BY <1>1 DEF Accepted
  <2>2. \A i \in 1 .. base : layout'[i].frame = layout[i].frame
    BY <1>3, <1>4, AcceptedType
  <2>3. QED
    BY <2>1, <2>2
<1>6. QED
  BY <1>1, <1>5, HiddenStep

\* A frame found malformed leaves no trace in the stream.
LEMMA TakenBackHidden ==
  ASSUME IInv, FinishFrame, DiscardFrame
  PROVE  [Stream!Next]_(Stream!vars)
<1>1. /\ ~Idle /\ Idle' /\ Ring1!Discard
      /\ CommonValueSequenceNumber' = CommonValueSequenceNumber
  BY DEF FinishFrame, Idle, TakesBack, NumberAfter
<1>2. Ring1!IInv'
  BY RingNext DEF Next, InFrame
<1>3. /\ Len(layout') = ringbufsnap.FramesStored
      /\ \A i \in 1 .. Len(layout') : layout'[i].frame = layout[i].frame
  BY <1>1, <1>2, DiscardStores DEF IInv
<1>4. Accepted' = Accepted
  <2>1. /\ Accepted  = [i \in 1 .. Len(layout') |-> layout[i].frame]
        /\ Accepted' = [i \in 1 .. Len(layout') |-> layout'[i].frame]
    BY <1>1, <1>3 DEF Accepted
  <2>2. QED
    BY <1>3, <2>1
<1>5. QED
  BY <1>1, <1>4, HiddenStep

\* A frame without a fault joins the stream whole.
LEMMA FinishFrameAccepts ==
  ASSUME IInv, FinishFrame, ~DiscardFrame
  PROVE  [Stream!Next]_(Stream!vars)
<1> DEFINE base == ringbufsnap.FramesStored
           n    == Len(frame.messages)
           b    == Batch(frame, timing, Phase)
<1>1. /\ ~Idle /\ Idle' /\ MessageIndex > n /\ layout' = layout
      /\ CommonValueSequenceNumber' = frame.seq
  BY DEF FinishFrame, Idle, TakesBack, NumberAfter, ring
<1>2. /\ frame \in WireFrames /\ n \in Nat /\ MessageIndex = n + 1
      /\ timing \in BOOLEAN /\ frame.header[timing] /\ Phase \in Phases
  BY <1>1, FrameFacts DEF IInv, TypeOK, Idle, Phase, Phases
<1>3. /\ FramesStored = base + n /\ base \in Nat /\ Len(layout) = base + n
      /\ Accepted = [i \in 1 .. base |-> layout[i].frame]
      /\ Accepted' = [i \in 1 .. base + n |-> layout[i].frame]
  <2>1. FramesStored = base + MessageIndex - 1
    BY <1>1 DEF IInv, FrameBehindSnap
  <2>2. Accepted' = [i \in 1 .. Len(layout) |-> layout[i].frame]
    BY <1>1 DEF Accepted
  <2>3. QED
    BY <1>1, <1>2, <2>1, <2>2, AcceptedType
<1>4. /\ \A k \in 1 .. n : /\ frame.messages[k].ok[timing]
                           /\ layout[base + k].frame
                                = StoredMessage(frame, k, timing, Phase)
      /\ FitsExactly
  <2>1. MessageIndex - 1 = n
    BY <1>2
  <2>2. QED
    BY <1>1, <2>1 DEF IInv, FrameBehindSnap
<1>5. b \in StreamBatches
  <2>1. WellFormed(frame, timing)
    BY <1>2, <1>4 DEF WellFormed, FitsExactly
  <2>2. <<frame, timing>> \in Valid
    BY <1>2, <2>1 DEF Valid
  <2>3. QED
    BY <1>2, <2>2 DEF StreamBatches
<1>6. /\ b.seq = frame.seq
      /\ b.messages = [k \in 1 .. n |-> StoredMessage(frame, k, timing, Phase)]
  BY DEF Batch
<1>7. Accepted' = Accepted \o b.messages
  <2> HIDE DEF base, n, b
  <2>1. Len(Accepted) = base /\ Len(b.messages) = n
    BY <1>2, <1>3, <1>6
  <2>2. Accepted \o b.messages
          = [i \in 1 .. base + n |->
               IF i <= base THEN Accepted[i] ELSE b.messages[i - base]]
    BY <1>2, <1>3, <1>6, <2>1
  <2>3. ASSUME NEW i \in 1 .. base + n
        PROVE  layout[i].frame
                 = IF i <= base THEN Accepted[i] ELSE b.messages[i - base]
    <3>1. CASE i <= base
      BY <1>2, <1>3, <3>1
    <3>2. CASE i > base
      <4>1. i - base \in 1 .. n /\ base + (i - base) = i
        BY <1>2, <1>3, <3>2
      <4>2. QED
        BY <1>3, <1>4, <1>6, <3>2, <4>1
    <3>3. QED
      BY <1>3, <3>1, <3>2
  <2>4. QED
    BY <1>3, <2>2, <2>3
<1>8. QED
  BY <1>1, <1>5, <1>6, <1>7 DEF Stream!Next, Stream!Accept

\* Every step of the loop is a step of the stream, or hidden.
LEMMA StepImplements ==
  ASSUME IInv, [Next]_vars
  PROVE  [Stream!Next]_(Stream!vars)
<1>1. CASE \E f \in WireFrames : StartFrame(f)
  BY <1>1, StartFrameHidden
<1>2. CASE WriteMessage
  BY <1>2, WriteMessageHidden
<1>3. CASE FinishFrame
  BY <1>3, TakenBackHidden, FinishFrameAccepts
<1>4. CASE InserterReads
  BY <1>4, InserterTakes
<1>5. CASE IterateHeldBack \/ WriteAgain \/ Toggle \/ UNCHANGED vars
  <2>1. UNCHANGED <<layout, ringbufsnap, frame, CommonValueSequenceNumber>>
    BY <1>5 DEF IterateHeldBack, Ring1!GetCapacity, WriteAgain, Ring1!WriteRefused,
       Toggle, ToggleTiming, ToggleFilter, vars, ring, common, walk
  <2>2. QED
    BY <2>1, HiddenStep DEF Accepted, Idle
<1>6. QED
  BY <1>1, <1>2, <1>3, <1>4, <1>5 DEF Next, InFrame, DropFrame

\* The inserter is given the messages of the well-formed frames, whole and in
\* order, and nothing of any other frame.
THEOREM ParserImplementsStream == Spec => ImplementsStream
<1>1. Init => Stream!Init
  BY DEF Init, Ring1!Init, Idle, Accepted, Stream!Init
<1>2. IInv /\ [Next]_vars => [Stream!Next]_(Stream!vars)
  BY StepImplements
<1>3. QED
  BY <1>1, <1>2, ParserInvariant, PTL DEF Spec, ImplementsStream, Stream!Spec

-----------------------------------------------------------------------------
(* The sequence number of the newest message.                               *)

\* The stream is a sequence of stored messages.
LEMMA AcceptedIsSequence ==
  ASSUME IInv
  PROVE  Accepted \in Seq(StoredMessages)
<1> DEFINE n == IF Idle THEN Len(layout) ELSE ringbufsnap.FramesStored
<1>1. n \in Nat /\ n <= FramesStored /\ FramesStored \in Nat
  BY AcceptedType
<1>2. \A i \in 1 .. FramesStored : layout[i].frame \in StoredMessages
  BY RingQueue, ElementOfSeq DEF IInv
<1>3. Accepted = [i \in 1 .. n |-> layout[i].frame]
  BY DEF Accepted
<1> HIDE DEF n
<1>4. QED
  BY <1>1, <1>2, <1>3

\* A frame that joins the stream brings its number with its messages.
LEMMA BatchNumber ==
  ASSUME NEW b \in StreamBatches
  PROVE  /\ Len(b.messages) \in Nat \ {0}
         /\ b.messages = [k \in 1 .. Len(b.messages) |-> b.messages[k]]
         /\ b.messages[Len(b.messages)].frame.seq = b.seq
<1>1. PICK g \in Valid, p \in Phases : b = Batch(g[1], g[2], p)
  BY DEF StreamBatches
<1> DEFINE f == g[1]
           n == Len(f.messages)
<1>2. f \in WireFrames /\ f.header[g[2]] /\ g[2] \in BOOLEAN
  BY DEF Valid, WellFormed
<1>3. n \in Nat \ {0}
  <2>1. f.messages # <<>>
    BY <1>2, WireAssumption
  <2>2. QED
    BY <1>2, <2>1, FrameFacts
<1>4. /\ b.seq = f.seq
      /\ b.messages = [k \in 1 .. n |-> StoredMessage(f, k, g[2], p)]
  BY <1>1 DEF Batch
<1> HIDE DEF f, n
<1>5. Len(b.messages) = n
  BY <1>3, <1>4
<1>6. b.messages[n].frame = f
  BY <1>3, <1>4, StoredMessageFields
<1>7. QED
  BY <1>3, <1>4, <1>5, <1>6

\* Between two frames the sequence number is that of the newest message, in a
\* frame that of the newest one before it.
LEMMA NewestNumberStep ==
  ASSUME IInv, NewestNumber, [Next]_vars
  PROVE  NewestNumber'
<1>1. Accepted \in Seq(StoredMessages) /\ Len(Accepted) \in Nat
  BY AcceptedIsSequence
<1>2. CASE UNCHANGED Stream!vars
  BY <1>2 DEF NewestNumber, Stream!vars
<1>3. CASE Stream!Take
  <2>1. /\ Accepted # <<>> /\ Accepted' = Tail(Accepted)
        /\ CommonValueSequenceNumber' = CommonValueSequenceNumber
    BY <1>3 DEF Stream!Take
  <2>2. /\ Len(Tail(Accepted)) = Len(Accepted) - 1
        /\ \A i \in 1 .. Len(Accepted) - 1 : Tail(Accepted)[i] = Accepted[i + 1]
    BY <1>1, <2>1, HeadTailProperties
  <2>3. ASSUME Accepted' # <<>>
        PROVE  Accepted'[Len(Accepted')] = Accepted[Len(Accepted)]
    <3>1. Tail(Accepted) \in Seq(StoredMessages) /\ Len(Tail(Accepted)) # 0
      BY <1>1, <2>1, <2>3, HeadTailProperties, EmptySeq
    <3>2. QED
      BY <1>1, <2>1, <2>2, <3>1
  <2>4. QED
    BY <2>1, <2>3 DEF NewestNumber
<1>4. ASSUME NEW b \in StreamBatches, Stream!Accept(b)
      PROVE  NewestNumber'
  <2> DEFINE m == b.messages
             n == Len(m)
  <2>1. /\ Accepted' = Accepted \o m /\ CommonValueSequenceNumber' = b.seq
    BY <1>4 DEF Stream!Accept
  <2>2. /\ n \in Nat \ {0} /\ m = [k \in 1 .. n |-> m[k]] /\ m[n].frame.seq = b.seq
    BY BatchNumber
  <2> HIDE DEF m, n
  <2>3. Len(m) = n
    BY <2>2
  <2>4. Len(Accepted \o m) = Len(Accepted) + n
        /\ (Accepted \o m)[Len(Accepted) + n] = m[n]
    BY <1>1, <2>2, <2>3
  <2>5. QED
    BY <2>1, <2>2, <2>4 DEF NewestNumber
<1>5. QED
  BY <1>2, <1>3, <1>4, StepImplements DEF Stream!Next

\* At first nothing is stored.
LEMMA InitNumber == Init => NewestNumber
BY DEF Init, Ring1!Init, Idle, Accepted, NewestNumber

\* What the inserter gets: a message that was stored, and the number that goes
\* with it is that of the newest frame, which may be the message's own.
LEMMA InserterGets ==
  ASSUME IInv, NewestNumber, InserterReads, layout' # layout
  PROVE  /\ out'[2] \in Stored
         /\ layout' = <<>> => out'[2].frame.seq = CommonValueSequenceNumber
         /\ layout' # <<>> => layout'[Len(layout')].frame.frame.seq
                                = CommonValueSequenceNumber
<1> DEFINE q == Ring1!StoredFrames
           n == FramesStored
<1>1. Ring1!Read
  BY DEF InserterReads, Ring1!ReadNothing
<1>2. /\ q \in Seq(StoredMessages) /\ Len(q) = n /\ n \in Nat
      /\ q # <<>> /\ q' = Tail(q) /\ out' = <<"read", Head(q)>>
  BY <1>1, RingQueue, RingRead DEF IInv
<1>3. /\ Stored = { q[i] : i \in 1 .. n }
      /\ q[n].frame.seq = CommonValueSequenceNumber
  BY <1>2, StoredIsQueue, AcceptedType DEF IInv, NewestNumber, InserterReads
<1>4. /\ n # 0 /\ Head(q) = q[1]
      /\ \A i \in 1 .. n - 1 : Tail(q)[i] = q[i + 1]
  BY <1>2, HeadTailProperties
<1>5. /\ FramesStored' = n - 1 /\ Len(layout') = n - 1
      /\ \A i \in 1 .. n - 1 : q'[i] = layout'[i].frame
  <2>1. Ring1!IInv'
    BY RingNext DEF Next
  <2>2. FramesStored' = n - 1
    BY <1>1 DEF Ring1!Read
  <2>3. QED
    BY <2>1, <2>2, QueueNext
<1>6. layout' = <<>> <=> n = 1
  <2>1. layout' \in Seq([off : Nat, frame : StoredMessages])
    BY RingNext DEF Next, Ring1!IInv, Ring1!TypeOK
  <2>2. QED
    BY <1>2, <1>5, <2>1
<1> HIDE DEF q
<1>7. out'[2] = q[1]
  BY <1>2, <1>4
<1>8. out'[2] \in Stored
  BY <1>2, <1>3, <1>4, <1>7
<1>9. layout' # <<>> => layout'[Len(layout')].frame = q[n]
  <2> SUFFICES ASSUME n # 1 PROVE layout'[n - 1].frame = q[n]
    BY <1>5, <1>6
  <2>1. n - 1 \in 1 .. n - 1 /\ (n - 1) + 1 = n
    BY <1>2, <1>4
  <2>2. QED
    BY <1>2, <1>4, <1>5, <2>1
<1>10. QED
  BY <1>3, <1>6, <1>7, <1>8, <1>9

-----------------------------------------------------------------------------
(* The gate: room for a whole frame.                                        *)

\* With room for n lines no message of them is refused.
LEMMA RoomAccepts ==
  ASSUME Ring1!IInv, NEW n \in Nat, NEW longest \in Nat, Ring1!Room(n, longest),
         NEW m \in 1 .. n, m <= longest
  PROVE  Ring1!Accepts(m)
BY RingAssumptions, SameRing, RP!RoomAccepts

\* A message that is stored leaves the room for the others.
LEMMA WriteKeepsRoom ==
  ASSUME Ring1!IInv, NEW m \in StoredMessages, Ring1!Write(m),
         NEW n \in Nat, NEW longest \in Nat, Ring1!Room(n, longest),
         NEW k, k = Ring1!Lines(m), NEW rest \in Nat, rest + k <= n, k <= longest
  PROVE  Ring1!Room(rest, longest)'
<1>1. k \in Nat /\ k = RP!Lines(m)
  BY RingAssumptions, SameRing, RP!LinesPositive
<1>2. RP!IInv /\ RP!Write(m) /\ RP!Room(n, longest)
  BY SameRing
<1>3. RP!Room(rest + k, longest)
  BY <1>1, <1>2, RingAssumptions, RP!RoomShrinks
<1>4. RP!Room(rest + k - k, longest)'
  <2>1. rest + k \in Nat
    BY <1>1
  <2>2. QED
    BY <1>1, <1>2, <1>3, <2>1, RingAssumptions, RP!WriteKeepsRoom
<1>5. rest + k - k = rest
  BY <1>1
<1>6. QED
  BY <1>4, <1>5, SameRing

\* A message takes no more lines than it would with nothing wrong.
LEMMA MessageLinesBound ==
  ASSUME TypeOK, NEW f \in WireFrames, NEW k \in 1 .. Len(f.messages),
         NEW b \in BOOLEAN, b => timing, NEW p \in Phases
  PROVE  /\ Ring1!Lines(StoredMessage(f, k, b, p)) \in Nat \ {0}
         /\ Ring1!Lines(StoredMessage(f, k, b, p)) <= MessageLines(f, k)
         /\ b = timing => Ring1!Lines(StoredMessage(f, k, b, p)) = MessageLines(f, k)
         /\ MessageLines(f, k) \in Nat
<1> DEFINE x == StoredMessage(f, k, b, p).len
           y == StoredMessage(f, k, timing, Phase).len
<1>1. Ring1!Lines(StoredMessage(f, k, b, p)) = Ring1!LinesOf(x)
  BY DEF Ring1!Lines
<1>2. f.messages[k].bytes \in Nat
  <2>1. f.messages \in Seq([bytes : Nat, ok : Verdict])
    BY FrameFacts
  <2>2. f.messages[k] \in [bytes : Nat, ok : Verdict]
    BY <2>1, ElementOfSeq
  <2>3. QED
    BY <2>2
<1>3. /\ x = f.messages[k].bytes + IF b /\ k = Len(f.messages) THEN StampBytes ELSE 0
      /\ y = f.messages[k].bytes + IF timing /\ k = Len(f.messages) THEN StampBytes ELSE 0
  BY DEF StoredMessage
<1>4. timing \in BOOLEAN
  BY DEF TypeOK
<1>5. x \in Nat /\ y \in Nat /\ x <= y /\ (b = timing => x = y)
  BY <1>2, <1>3, <1>4 DEF StampBytes
<1> HIDE DEF x, y
<1>6. /\ Ring1!LinesOf(x) \in Nat \ {0} /\ Ring1!LinesOf(y) \in Nat
      /\ Ring1!LinesOf(x) <= Ring1!LinesOf(y)
  BY <1>5 DEF Ring1!LinesOf, Ring1!Next64Aligned
<1>7. MessageLines(f, k) = Ring1!LinesOf(y)
  BY DEF MessageLines, y
<1>8. QED
  BY <1>1, <1>5, <1>6, <1>7

\* The lines behind message k - 1 of a frame that is laid out.
LEMMA PlacedLines ==
  ASSUME TypeOK, ~Idle, MessageIndex <= Len(frame.messages),
         NEW end \in Placings(frame), NEW longest \in 1 .. LowWater,
         Spares(frame, end, longest)
  PROVE  \E all, rest \in Nat :
           /\ all = end[Len(frame.messages)] - end[MessageIndex - 1]
           /\ rest = end[Len(frame.messages)] - end[MessageIndex]
           /\ MessageLines(frame, MessageIndex) \in Nat
           /\ rest + MessageLines(frame, MessageIndex) <= all
           /\ MessageLines(frame, MessageIndex) <= longest
<1> DEFINE n == Len(frame.messages)
           i == MessageIndex
<1>1. /\ frame \in WireFrames /\ n \in Nat /\ i \in 1 .. n
  BY FrameFacts DEF TypeOK, Idle
<1>2. \A k \in 1 .. n : MessageLines(frame, k) \in Nat
  <2>1. Phase \in Phases /\ timing \in BOOLEAN
    BY DEF TypeOK, Phase, Phases
  <2>2. QED
    BY <1>1, <2>1, MessageLinesBound
<1>3. /\ end \in [0 .. n -> 0 .. LowWater] /\ LowWater \in Nat
      /\ \A j, k \in 0 .. n : j < k => end[j] + MessageLines(frame, k) <= end[k]
  BY RingAssumptions DEF Placings, RP!BufferAssumption
<1>4. MessageLines(frame, i) <= longest
  BY <1>1 DEF Spares
<1>5. /\ i - 1 \in 0 .. n /\ i \in 0 .. n /\ n \in 0 .. n
      /\ end[i - 1] \in Nat /\ end[i] \in Nat /\ end[n] \in Nat
  BY <1>1, <1>3
<1>6. end[i - 1] + MessageLines(frame, i) <= end[i]
  BY <1>1, <1>3, <1>5
<1>7. end[i] <= end[n]
  <2>1. CASE i = n
    BY <1>5, <2>1
  <2>2. CASE i < n
    <3>1. end[i] + MessageLines(frame, n) <= end[n] /\ MessageLines(frame, n) \in Nat
      BY <1>1, <1>2, <1>3, <1>5, <2>2
    <3>2. QED
      BY <1>5, <3>1
  <2>3. QED
    BY <1>1, <2>1, <2>2
<1> DEFINE m == MessageLines(frame, i)
<1>8. /\ m \in Nat /\ m <= longest
      /\ end[n] - end[i - 1] \in Nat /\ end[n] - end[i] \in Nat
      /\ end[n] - end[i] + m <= end[n] - end[i - 1]
  <2>1. m \in Nat /\ m <= longest /\ end[i - 1] + m <= end[i]
    BY <1>1, <1>2, <1>4, <1>6
  <2> HIDE DEF m, n, i
  <2>2. QED
    BY <1>5, <1>7, <2>1
<1>9. QED
  BY <1>8

\* The gate has found the room of the whole frame.
LEMMA GateRoomAtStart ==
  ASSUME IInv, NEW f \in WireFrames, StartFrame(f)
  PROVE  GateRoom'
<1> SUFFICES ASSUME NEW end \in Placings(frame)', NEW longest \in 1 .. LowWater,
                    Spares(frame, end, longest)'
             PROVE  Ring1!Room(end[Len(frame.messages)] - end[MessageIndex - 1], longest)'
  BY DEF GateRoom
<1> DEFINE n == Len(f.messages)
<1>1. /\ frame' = f /\ MessageIndex' = 1
      /\ UNCHANGED <<buffer_size, write_index, NumberOfStoredBytes>>
      /\ Ring1!capacity >= LowWater
  BY DEF StartFrame, GateOpen, Ring1!Snap, Ring1!indices
<1>2. n \in Nat /\ LowWater \in Nat
  BY FrameFacts, RingAssumptions DEF RP!BufferAssumption
<1>3. end \in [0 .. n -> 0 .. LowWater] /\ end[n] + longest - 1 <= LowWater
  BY <1>1 DEF Placings, Spares
<1>4. end[0] \in 0 .. LowWater /\ end[n] \in 0 .. LowWater
  BY <1>2, <1>3
<1>5. buffer_size \in Nat /\ NumberOfStoredBytes \in Nat
  BY RingAssumptions DEF IInv, Ring1!IInv, Ring1!TypeOK, RP!BufferAssumption
<1>6. /\ Ring1!capacity' = buffer_size - NumberOfStoredBytes
      /\ Ring1!capacity = buffer_size - NumberOfStoredBytes
  BY <1>1 DEF Ring1!capacity
<1>7. Ring1!capacity' >= end[n] - end[0] + longest - 1
  BY <1>1, <1>2, <1>3, <1>4, <1>5, <1>6
<1>8. /\ end[Len(frame.messages)]' = end[n]
      /\ end[MessageIndex - 1]' = end[0]
  BY <1>1
<1>9. QED
  BY <1>7, <1>8 DEF Ring1!Room

\* What a message takes was counted, a skip included.
LEMMA GateRoomAtWrite ==
  ASSUME IInv, GateRoom, WriteMessage
  PROVE  GateRoom'
<1> DEFINE n == Len(frame.messages)
           i == MessageIndex
           m == MessageLines(frame, i)
<1> SUFFICES ASSUME ~DiscardFrame', NEW end \in Placings(frame)',
                    NEW longest \in 1 .. LowWater, Spares(frame, end, longest)'
             PROVE  Ring1!Room(end[Len(frame.messages)] - end[MessageIndex - 1], longest)'
  BY DEF GateRoom
<1>1. /\ ~Idle /\ i <= n /\ ~DiscardFrame /\ Ring1!Write(ToStore) /\ ~MessageBad
      /\ MessageIndex' = i + 1
      /\ UNCHANGED <<state, SessionIdVal, timing, filter, frame>>
  BY DEF WriteMessage, session, flags
<1>2. /\ frame \in WireFrames /\ n \in Nat /\ i \in 1 .. n /\ timing \in BOOLEAN
      /\ Phase \in Phases /\ LowWater \in Nat
  BY <1>1, FrameFacts, RingAssumptions DEF IInv, TypeOK, Idle, Phase, Phases,
     RP!BufferAssumption
<1>3. end \in Placings(frame) /\ Spares(frame, end, longest)
  <2>1. Phase' = Phase
    BY <1>1 DEF Phase
  <2>2. \A k : MessageLines(frame, k)' = MessageLines(frame, k)
    BY <1>1, <2>1 DEF MessageLines, StoredMessage
  <2>3. QED
    BY <1>1, <2>2 DEF Placings, Spares
<1>4. ToStore \in StoredMessages /\ m = Ring1!Lines(ToStore)
  <2>1. ToStore = StoredMessage(frame, i, timing, Phase)
    BY <1>1, <1>2 DEF ToStore
  <2>2. QED
    BY <1>1, <1>2, <2>1, StoredMessageType, MessageLinesBound DEF IInv
<1>5. PICK all \in Nat, rest \in Nat :
        /\ all = end[n] - end[i - 1]
        /\ rest = end[n] - end[i]
        /\ m \in Nat /\ rest + m <= all /\ m <= longest
  BY <1>1, <1>3, PlacedLines DEF IInv
<1>6. Ring1!Room(all, longest)
  BY <1>1, <1>3, <1>5 DEF GateRoom
<1>7. Ring1!Room(rest, longest)'
  <2>1. PICK k \in Nat : k = m
    BY <1>5
  <2>2. PICK x \in StoredMessages : x = ToStore
    BY <1>4
  <2>3. Ring1!Write(x) /\ k = Ring1!Lines(x)
    BY <1>1, <1>4, <2>1, <2>2
  <2>4. Ring1!IInv /\ longest \in Nat /\ rest + k <= all /\ k <= longest
    BY <1>5, <2>1 DEF IInv
  <2> HIDE DEF m, n, i
  <2>5. QED
    BY <1>6, <2>3, <2>4, WriteKeepsRoom
<1>8. (end[Len(frame.messages)] - end[MessageIndex - 1])' = rest
  <2>1. MessageIndex' = i + 1
    BY <1>1
  <2>2. MessageIndex' - 1 = i
    BY <1>2, <2>1
  <2>3. frame' = frame
    BY <1>1
  <2>4. QED
    BY <1>5, <2>2, <2>3
<1>9. QED
  BY <1>7, <1>8 DEF Ring1!Room

\* The room of a frame lasts until its last message.
LEMMA GateRoomStep ==
  ASSUME IInv, GateRoom, [Next]_vars
  PROVE  GateRoom'
<1>1. CASE \E f \in WireFrames : StartFrame(f)
  BY <1>1, GateRoomAtStart
<1>2. CASE WriteMessage
  BY <1>2, GateRoomAtWrite
<1>3. CASE WriteAgain \/ UNCHANGED vars
  <2>1. UNCHANGED <<buffer_size, write_index, NumberOfStoredBytes, state,
                    SessionIdVal, timing, filter, frame, MessageIndex, DiscardFrame>>
    BY <1>3 DEF WriteAgain, Ring1!WriteRefused, Ring1!indices, vars, ring, session,
       flags, walk
  <2>2. Phase' = Phase
    BY <2>1 DEF Phase
  <2>3. QED
    BY <2>1, <2>2 DEF GateRoom, Placings, Spares, MessageLines, Idle, Ring1!Room,
       Ring1!capacity, Ring1!first_run
<1>4. CASE FinishFrame \/ InserterReads \/ IterateHeldBack \/ Toggle
  <2>1. Idle'
    BY <1>4 DEF FinishFrame, InserterReads, IterateHeldBack, Toggle, ToggleTiming,
       ToggleFilter, walk, Idle
  <2>2. QED
    BY <2>1 DEF GateRoom
<1>5. QED
  BY <1>1, <1>2, <1>3, <1>4 DEF Next, InFrame, DropFrame

\* No message of a frame that fits through the gate is refused.
LEMMA RoomSuffices == IInv /\ GateRoom => GateSuffices
<1> SUFFICES ASSUME IInv, GateRoom, ~Idle, MessageIndex <= Len(frame.messages),
                    ~DiscardFrame, FitsGate(frame)
             PROVE  Ring1!Accepts(Ring1!Lines(ToStore))
  BY DEF GateSuffices
<1> DEFINE n == Len(frame.messages)
           i == MessageIndex
           m == Ring1!Lines(ToStore)
<1>1. PICK end \in Placings(frame), longest \in 1 .. LowWater : Spares(frame, end, longest)
  BY DEF FitsGate
<1>2. PICK all \in Nat, rest \in Nat :
        /\ all = end[n] - end[i - 1]
        /\ MessageLines(frame, i) \in Nat
        /\ rest + MessageLines(frame, i) <= all
        /\ MessageLines(frame, i) <= longest
  BY <1>1, PlacedLines DEF IInv
<1>3. Ring1!Room(all, longest)
  BY <1>1, <1>2 DEF GateRoom
<1>4. m \in Nat \ {0} /\ m <= MessageLines(frame, i)
  <2>1. /\ frame \in WireFrames /\ i \in 1 .. n /\ Phase \in Phases
        /\ timing \in BOOLEAN
    BY FrameFacts DEF IInv, TypeOK, Idle, Phase, Phases
  <2>2. (timing /\ ~MessageBad) \in BOOLEAN
    OBVIOUS
  <2>3. QED
    BY <2>1, <2>2, MessageLinesBound DEF IInv, ToStore
<1> HIDE DEF n, i, m
<1>5. m \in 1 .. all /\ m <= longest /\ longest \in Nat
  BY <1>2, <1>4
<1>6. Ring1!Accepts(m)
  BY <1>3, <1>5, RoomAccepts DEF IInv
<1>7. QED
  BY <1>6 DEF m

\* The parser never repeats a Write for ever, unless a frame needs more lines than
\* the gate asks for: what parser_long shows is the only way to it.
THEOREM ParserNeverSpins == Spec => []GateSuffices
<1>1. Init => GateRoom
  BY DEF Init, Idle, GateRoom
<1>2. IInv /\ GateRoom /\ [Next]_vars => GateRoom'
  BY GateRoomStep
<1>3. IInv /\ GateRoom => GateSuffices
  BY RoomSuffices
<1>4. QED
  BY <1>1, <1>2, <1>3, ParserInvariant, PTL DEF Spec

=============================================================================
