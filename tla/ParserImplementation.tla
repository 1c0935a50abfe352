------------------------ MODULE ParserImplementation ------------------------
(***************************************************************************)
(* ParserImplementation.cpp: takes one frame of the network per call of    *)
(* Iterate, follows the session that its header belongs to, and stores its *)
(* messages one by one in RingBufferPtr1, from which the inserter reads.   *)
(* A frame that turns out to be malformed on the way is taken back whole.  *)
(*                                                                         *)
(* The ring is RingFIFOBuffer itself.  Parser and inserter are steps of    *)
(* one loop in one thread: nothing reads the ring while a frame is being   *)
(* stored, and a refused Write is repeated without end.                    *)
(*                                                                         *)
(* Left out: the counters of parsed and rejected frames and                *)
(* SessionIdPrevious, which no path of the code reads, and frames without  *)
(* messages, which change nothing else.                                    *)
(***************************************************************************)
EXTENDS Integers, Sequences

CONSTANTS
  BufferLines, LowWater, CounterModulus,   \* of RingBufferPtr1
  WireFrames,                              \* what RingBufferPtr0->Read returns
  Keys                                     \* flags that the keyboard toggles

(***************************************************************************)
(* A frame of the network.  With timing on, the last 8 bytes do not count, *)
(* so what is judged by the length of the frame is judged per setting:     *)
(*   header[timing]  it is long enough, its header says 18 and announces   *)
(*                   messages                                              *)
(*   type, session, seq   MessageType, SessionIdVal, SequenceNumber        *)
(*   messages        what the loop finds one behind the other: the length, *)
(*                   and ok[timing], whether length and header pass        *)
(*   trailing        bytes behind the last message; negative if it runs    *)
(*                   over the end                                          *)
(***************************************************************************)
Verdict == [BOOLEAN -> BOOLEAN]
FrameType ==
  [ header : Verdict, type : {"shutdown", "other"}, session : Nat, seq : Nat,
    messages : Seq([bytes : Nat, ok : Verdict]), trailing : Int ]

States == {"startup", "session", "shutdown"}

\* Length of the timestamp that the receiver appends to the last message.
StampBytes == 8

Sessions == {0} \cup { f.session : f \in WireFrames }

\* What the parser was doing when it stored a message: its state, "unfiltered"
\* if frames of other sessions were let through, and its session.
Phases == [ state : States \cup {"unfiltered"}, session : Sessions ]

\* The k-th message of a frame as it is stored; frame, index and phase are
\* auxiliary.
StoredMessage(f, k, stamped, phase) ==
  [ len   |-> f.messages[k].bytes
                + IF stamped /\ k = Len(f.messages) THEN StampBytes ELSE 0,
    frame |-> f, index |-> k, phase |-> phase ]

StoredMessages ==
  UNION { { StoredMessage(f, k, b, s) :
              k \in 1 .. Len(f.messages), b \in BOOLEAN, s \in Phases } :
            f \in WireFrames }

VARIABLES
  buffer_size, write_index, read_index, NumberOfStoredBytes, FramesStored, marks,
  SlipCounter, ptr, ringbufsnap, out, layout,      \* RingBufferPtr1
  state, SessionIdVal,                             \* ParserStateInstance
  CommonFlagShutdownReceived, CommonFlagSessionIdReceived,
  CommonValueSessionId, CommonValueSequenceNumber,
  timing,         \* ConfigurationFlags & _FLAG_GET_TIMING_
  filter,         \* ~ConfigurationFlags & _FLAG_DONT_FILTER_SOUCE_ID_
  frame,          \* the frame being stored, or NoFrame
  MessageIndex,   \* its message stored next
  DiscardFrame

Ring1 == INSTANCE RingFIFOBuffer WITH Frames <- StoredMessages

\* Every stored message is at least a length field long and fits twice.
ASSUME WireAssumption ==
  /\ WireFrames \subseteq FrameType
  /\ \A f \in WireFrames, t \in BOOLEAN : f.header[t] => f.messages # <<>>
  /\ Ring1!BufferAssumption /\ Ring1!FramesAssumption

common  == <<CommonFlagShutdownReceived, CommonFlagSessionIdReceived,
             CommonValueSessionId, CommonValueSequenceNumber>>
session == <<state, SessionIdVal>>
flags   == <<timing, filter>>
walk    == <<frame, MessageIndex, DiscardFrame>>
ring    == <<buffer_size, write_index, read_index, NumberOfStoredBytes, FramesStored,
             marks, SlipCounter, ptr, ringbufsnap, out, layout>>
vars    == <<ring, session, common, flags, walk>>

NoFrame == [type |-> "none"]
Idle    == frame = NoFrame

-----------------------------------------------------------------------------
Init ==
  /\ Ring1!Init
  /\ state = "startup" /\ SessionIdVal = 0
  /\ CommonFlagShutdownReceived = FALSE /\ CommonFlagSessionIdReceived = FALSE
  /\ CommonValueSessionId = 0 /\ CommonValueSequenceNumber = 0
  /\ timing = FALSE /\ filter = TRUE
  /\ frame = NoFrame /\ MessageIndex = 1 /\ DiscardFrame = FALSE

-----------------------------------------------------------------------------
(* UpdateParserState                                                       *)

StartSession(f) ==
  /\ state = "startup" /\ f.type # "shutdown"
  /\ SessionIdVal' = f.session
  /\ state' = "session"
  /\ CommonFlagShutdownReceived' = FALSE
  /\ CommonValueSessionId' = f.session
  /\ CommonFlagSessionIdReceived' = TRUE

EndSession(f) ==
  /\ state = "session" /\ f.session = SessionIdVal /\ f.type = "shutdown"
  /\ state' = "shutdown"
  /\ UNCHANGED <<SessionIdVal, CommonFlagShutdownReceived, CommonValueSessionId,
                 CommonFlagSessionIdReceived>>

\* All stored messages are written to shared memory.
NotWaiting  == TRUE
RingDrained == NumberOfStoredBytes = 0 \/ FramesStored = 0

AnnounceShutdown ==
  /\ state = "shutdown" /\ RingDrained
  /\ SessionIdVal' = 0
  /\ state' = "startup"
  /\ CommonFlagShutdownReceived' = TRUE
  /\ CommonFlagSessionIdReceived' = FALSE
  /\ UNCHANGED CommonValueSessionId

KeepState(f) ==
  /\ CASE state = "startup"  -> f.type = "shutdown"
       [] state = "session"  -> f.session # SessionIdVal \/ f.type # "shutdown"
       [] state = "shutdown" -> ~RingDrained
  /\ UNCHANGED <<session, CommonFlagShutdownReceived, CommonValueSessionId,
                 CommonFlagSessionIdReceived>>

UpdateParserState(f) ==
  StartSession(f) \/ EndSession(f) \/ AnnounceShutdown \/ KeepState(f)

NothingForeign(f) == FALSE
ForeignFrame(f)   == state = "session" /\ f.session # SessionIdVal /\ filter

-----------------------------------------------------------------------------
(* IterateInternal                                                         *)

AlwaysOpen == TRUE
GateOpen   == Ring1!capacity >= LowWater

\* Iterate returns at once; the call of GetCapacity has counted a slip.
IterateHeldBack ==
  /\ Idle /\ ~GateOpen
  /\ Ring1!GetCapacity
  /\ UNCHANGED <<session, common, flags, walk>>

AnyHeader(f) == TRUE
HeaderOK(f)  == f.header[timing]

\* The frame is read and dropped: by its header, or as one of another session.
DropFrame(f) ==
  /\ Idle /\ GateOpen
  /\ ~HeaderOK(f) \/ ForeignFrame(f)
  /\ UNCHANGED vars

StartFrame(f) ==
  /\ Idle /\ GateOpen
  /\ HeaderOK(f) /\ ~ForeignFrame(f)
  /\ UpdateParserState(f)
  /\ Ring1!Snap
  /\ frame' = f /\ MessageIndex' = 1 /\ DiscardFrame' = FALSE
  /\ UNCHANGED <<CommonValueSequenceNumber, flags>>

Last == MessageIndex = Len(frame.messages)

FitsExactly == frame.trailing = IF timing THEN StampBytes ELSE 0

MessageBad == ~frame.messages[MessageIndex].ok[timing]

Phase == [ state   |-> IF state = "session" /\ ~filter THEN "unfiltered" ELSE state,
           session |-> SessionIdVal ]

\* A message is stored whether or not the checks failed.
ToStore == StoredMessage(frame, MessageIndex, timing /\ ~MessageBad, Phase)

WriteMessage ==
  /\ ~Idle /\ MessageIndex <= Len(frame.messages) /\ ~DiscardFrame
  /\ Ring1!Write(ToStore)
  /\ DiscardFrame' = (MessageBad \/ (Last /\ ~FitsExactly))
  /\ MessageIndex' = MessageIndex + 1
  /\ UNCHANGED <<session, common, flags, frame>>

\* do { ... } while (CurrentlySentBytes == 0)
WriteAgain ==
  /\ ~Idle /\ MessageIndex <= Len(frame.messages) /\ ~DiscardFrame
  /\ Ring1!WriteRefused(ToStore)
  /\ UNCHANGED <<session, common, flags, walk>>

KeepsFirstMessages == DiscardFrame /\ MessageIndex = 2
TakesBack          == DiscardFrame

\* The sequence number is that of the last frame that was accepted.
MutantAnyNumber == frame.seq
NumberAfter     == IF DiscardFrame THEN CommonValueSequenceNumber ELSE frame.seq

FinishFrame ==
  /\ ~Idle
  /\ MessageIndex > Len(frame.messages) \/ DiscardFrame
  /\ IF TakesBack THEN Ring1!Discard ELSE UNCHANGED ring
  /\ CommonValueSequenceNumber' = NumberAfter
  /\ frame' = NoFrame /\ MessageIndex' = 1 /\ DiscardFrame' = FALSE
  /\ UNCHANGED <<session, CommonFlagShutdownReceived, CommonFlagSessionIdReceived,
                 CommonValueSessionId, flags>>

InFrame == WriteMessage \/ WriteAgain \/ FinishFrame

-----------------------------------------------------------------------------
(* The rest of the loop: the inserter, and the keyboard.                    *)

InserterReads ==
  /\ Idle
  /\ Ring1!Read \/ Ring1!ReadNothing
  /\ UNCHANGED <<session, common, flags, walk>>

ToggleTiming ==
  /\ Idle /\ "timing" \in Keys
  /\ timing' = ~timing
  /\ UNCHANGED <<ring, session, common, filter, walk>>

ToggleFilter ==
  /\ Idle /\ "filter" \in Keys
  /\ filter' = ~filter
  /\ UNCHANGED <<ring, session, common, timing, walk>>

Toggle == ToggleTiming \/ ToggleFilter

Next ==
  \/ IterateHeldBack
  \/ \E f \in WireFrames : DropFrame(f) \/ StartFrame(f)
  \/ InFrame
  \/ InserterReads
  \/ Toggle

Spec == Init /\ [][Next]_vars

\* The thread runs on: a frame that is being stored is stored further.
FairSpec == Spec /\ WF_vars(InFrame)

-----------------------------------------------------------------------------
\* Every field has the type of its declaration; a frame that is being stored
\* passed the checks of its header.
TypeOK ==
  /\ Ring1!TypeOK
  /\ state \in States /\ SessionIdVal \in Sessions
  /\ CommonFlagShutdownReceived \in BOOLEAN
  /\ CommonFlagSessionIdReceived \in BOOLEAN
  /\ CommonValueSessionId \in Nat /\ CommonValueSequenceNumber \in Nat
  /\ timing \in BOOLEAN /\ filter \in BOOLEAN
  /\ frame \in WireFrames \cup {NoFrame}
  /\ ~Idle => frame.header[timing]
  /\ MessageIndex \in 1 .. (IF Idle THEN 1 ELSE Len(frame.messages) + 1)
  /\ DiscardFrame \in BOOLEAN

Stored == { layout[i].frame : i \in 1 .. Len(layout) }

\* "all stored messages written to shared memory" (ParserImplementation.cpp:245):
\* while the writer's flags say shutdown, nothing waits that was stored before
\* the announcement.  What may wait is the frame that completed it, at the head
\* of the ring, whatever session its header names, and frames of the shutdown
\* type behind it.
DrainedBeforeShutdown ==
  CommonFlagShutdownReceived =>
    \A i \in 1 .. Len(layout) :
      LET m == layout[i].frame IN
      m.phase.state = "startup" /\ (m.frame.type = "shutdown" \/ i <= m.index)

\* Between the first frame of a session and the announcement of its shutdown the
\* inserter publishes no other id: a session never begins while messages of
\* the one before wait.
UnderIdOfStoring ==
  \A m \in Stored : m.phase.state # "startup" => m.phase.session = CommonValueSessionId

\* Up to its shutdown frame and with the filter on, frames of the session only.
OnlyOwnIfFiltered ==
  \A m \in Stored : m.phase.state = "session" => m.frame.session = CommonValueSessionId

\* What is not filtered lies around the session: what came between the sessions
\* before all of it, what came behind its shutdown frame after all of it.
InOneRun ==
  \A i, j \in 1 .. Len(layout) :
    LET m == layout[i].frame
        n == layout[j].frame
    IN
    i < j => /\ n.phase.state = "startup" => m.phase.state = "startup"
             /\ m.phase.state = "shutdown" => n.phase.state = "shutdown"

\* Sessions do not mix in the ring (ParserImplementation.cpp:203), with the two
\* exceptions that the code makes: while the ring drains, and until the next
\* session begins, frames of any session are stored (:244-252), and the former
\* are published under the id of the session that ends.
SessionsStayApart == UnderIdOfStoring /\ OnlyOwnIfFiltered /\ InOneRun

-----------------------------------------------------------------------------
(* What makes the two inductive.                                            *)

\* The flag falls only when a session starts, and is raised when one is over.
ShutdownIsOver == CommonFlagShutdownReceived => state = "startup"

\* Between two sessions nothing of the last one waits, and before its shutdown
\* frame nothing that comes behind it.
PhasesOfRing ==
  \A m \in Stored :
    /\ state = "startup" => m.phase.state = "startup"
    /\ m.phase.state = "shutdown" => state = "shutdown"

\* Of all that came between the sessions only the first frame may be of another
\* type than shutdown: the one that completed the announcement.
StraysOK ==
  /\ \A i \in 1 .. Len(layout) :
       LET m == layout[i].frame IN
       m.phase.state = "startup" => m.frame.type = "shutdown" \/ i <= m.index
  /\ ~Idle /\ state = "startup" /\ frame.type # "shutdown" =>
       ringbufsnap.FramesStored = 0

SessionPublished == state # "startup" => SessionIdVal = CommonValueSessionId

FrameOfSession ==
  ~Idle /\ Phase.state = "session" => frame.session = CommonValueSessionId

\* A frame being stored lies behind the snapshot: as many messages as were
\* counted and, unless it is taken back, all of them found well-formed.
FrameBehindSnap ==
  ~Idle =>
    /\ ringbufsnap # Ring1!NoSnap
    /\ FramesStored = ringbufsnap.FramesStored + MessageIndex - 1
    /\ ~DiscardFrame =>
         /\ \A k \in 1 .. MessageIndex - 1 :
              /\ frame.messages[k].ok[timing]
              /\ layout[ringbufsnap.FramesStored + k].frame
                   = StoredMessage(frame, k, timing, Phase)
         /\ MessageIndex > Len(frame.messages) => FitsExactly

IInv ==
  /\ TypeOK
  /\ Ring1!IInv
  /\ ShutdownIsOver
  /\ PhasesOfRing
  /\ StraysOK
  /\ SessionPublished
  /\ SessionsStayApart
  /\ FrameOfSession
  /\ FrameBehindSnap

-----------------------------------------------------------------------------
(* Room for a whole frame.                                                  *)

\* Lines of the k-th message, if nothing is wrong with it.
MessageLines(f, k) == Ring1!LinesOf(StoredMessage(f, k, timing, Phase).len)

\* Ways to lay the messages one behind the other in LowWater lines: end[k] is
\* where the k-th one ends at the latest.
Placings(f) ==
  { end \in [0 .. Len(f.messages) -> 0 .. LowWater] :
      \A j, k \in 0 .. Len(f.messages) : j < k => end[j] + MessageLines(f, k) <= end[k] }

\* One of them leaves lines for the skip that no message but the longest may cause.
Spares(f, end, longest) ==
  /\ \A k \in 1 .. Len(f.messages) : MessageLines(f, k) <= longest
  /\ end[Len(f.messages)] + longest - 1 <= LowWater

FitsGate(f) ==
  \E end \in Placings(f), longest \in 1 .. LowWater : Spares(f, end, longest)

\* The room that the gate finds once, before the first message, is enough for
\* all messages of a frame that fits through it, wherever the ring's indices
\* stand and whatever a skip costs: no Write is refused, which would be for
\* ever (ParserImplementation.cpp:47 and :136).
GateSuffices ==
  ~Idle /\ MessageIndex <= Len(frame.messages) /\ ~DiscardFrame /\ FitsGate(frame) =>
    Ring1!Accepts(Ring1!Lines(ToStore))

\* What makes it inductive: there is room for the messages that are still to come.
GateRoom ==
  ~Idle /\ ~DiscardFrame =>
    \A end \in Placings(frame), longest \in 1 .. LowWater :
      Spares(frame, end, longest) =>
        Ring1!Room(end[Len(frame.messages)] - end[MessageIndex - 1], longest)

-----------------------------------------------------------------------------
WellFormed(f, t) ==
  /\ f.header[t]
  /\ \A k \in 1 .. Len(f.messages) : f.messages[k].ok[t]
  /\ f.trailing = IF t THEN StampBytes ELSE 0

Batch(f, t, p) ==
  [ seq      |-> f.seq,
    messages |-> [k \in 1 .. Len(f.messages) |-> StoredMessage(f, k, t, p)] ]

Valid == { g \in WireFrames \X BOOLEAN : WellFormed(g[1], g[2]) }

StreamBatches == { Batch(g[1], g[2], p) : g \in Valid, p \in Phases }

\* The messages of frames already accepted.
Accepted ==
  [ i \in 1 .. (IF Idle THEN Len(layout) ELSE ringbufsnap.FramesStored) |->
      layout[i].frame ]

\* The sequence number is that of the frame that the newest of them came in.
NewestNumber ==
  Accepted # <<>> =>
    Accepted[Len(Accepted)].frame.seq = CommonValueSequenceNumber

\* The parser implements the stream: the inserter gets the messages of the
\* well-formed frames in order, with the timestamp exactly where the receiver
\* appended one, and nothing of a frame that turned out malformed half way.
Stream == INSTANCE MessageStream WITH
            Batches <- StreamBatches,
            stream <- Accepted, number <- CommonValueSequenceNumber

ImplementsStream == Stream!Spec

\* The loop that repeats a refused Write ends: "puchback a little at parser"
\* (ParserImplementation.cpp:47) leaves room for the frame that is let in.
FrameIsFinished == ~Idle ~> Idle

=============================================================================
