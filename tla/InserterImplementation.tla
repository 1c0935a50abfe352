----------------------- MODULE InserterImplementation -----------------------
(***************************************************************************)
(* InserterImplementation.cpp: the single writer of the shared memory that *)
(* consumers in other processes map.  Iterate runs once per pass of the    *)
(* main loop; a consumer reads at any moment, so every store to the shared *)
(* memory is an action of its own.  The stores take effect in program      *)
(* order: the code builds for x86-64 only                                  *)
(* (InserterSharedMemoryFormatDefinitions.h:96).                           *)
(*                                                                         *)
(* The data section is an array of TotalLines cache lines.  Positions in   *)
(* it (CommitSequence, ReserveSequence) count lines from the start of the  *)
(* file and never wrap: 2^64 lines are out of reach.  The private copies   *)
(* CommitSequenceValue and ReserveSequenceValue are assigned and stored in *)
(* one statement after the other and are one variable with the shared one. *)
(* A skip and a message are written alike -- reserve, write, commit -- and *)
(* share these actions.                                                    *)
(*                                                                         *)
(* The consumer is not part of the repository.  It is modelled from the    *)
(* comments of HandleSharedMemoryFrames: it reads up to the commit         *)
(* sequence, passes over skips, and takes what it copied as valid only if  *)
(* the reserve sequence shows that the lines were not claimed again.       *)
(***************************************************************************)
EXTENDS Integers, Sequences

CONSTANTS
  TotalLines,        \* __TOTAL_NUMBER_OF_DATA_CACHE_LINES__ (16777216)
  Messages,          \* what RingBufferPtr1->Read returns: sizes in bytes,
                     \* without the 2 bytes of the message size field
  SequenceNumbers,   \* sequence numbers of parsed frames
  SessionIds,
  MaxReserve         \* bound: no message is read once it could go past it

\* FramingMetaDataTotalLines: 12 bytes of metadata, rounded up to lines.
LinesOf(bytes) == (bytes + 12 + 63) \div 64

ASSUME MessagesAssumption ==
  /\ TotalLines \in Nat \ {0}
  /\ \A m \in Messages : m \in Nat \ {0} /\ LinesOf(m) <= TotalLines
  /\ MaxReserve \in Nat

ASSUME NumbersAssumption ==
  SequenceNumbers \subseteq Nat /\ SessionIds \subseteq Nat

CommonType == [ShutdownReceived : BOOLEAN, SessionId : SessionIds,
               SequenceNumber : SequenceNumbers]

NoSession == 0   \* what Initialize stores
NoMessage == 0

VARIABLES
  CommonData,              \* the fields the parser leaves for the inserter
  pc,                      \* where Iterate is
  message,                 \* what it read, or NoMessage
  WriterFlagsPrevious,
  CurrentCacheLine,
  record,                  \* the skip or message being written
  untouched, half,         \* its lines not yet, and partly, written
  MaxSequenceValue,
  WriterFlags, WriterSessionId, WriterMaxSequence,   \* shared memory
  CommitSequence, ReserveSequence, data,
  reader,                  \* the consumer: where it is in its protocol,
  position,                \* the line it reads at,
  copied, wanted,          \* its copy and the length it expects,
  got,                     \* what it took as valid last
  log, index               \* auxiliary: all records committed so far, and
                           \* the one that position stands at

iterate  == <<CommonData, pc, message, WriterFlagsPrevious>>
writing  == <<CurrentCacheLine, record, untouched, half, MaxSequenceValue>>
state    == <<WriterFlags, WriterSessionId, WriterMaxSequence>>
section  == <<CommitSequence, ReserveSequence, data, log>>
consumer == <<reader, position, copied, wanted, got, index>>
vars     == <<iterate, writing, state, section, consumer>>

-----------------------------------------------------------------------------
(* Lines.  A line written by halves is Mixed; a line never written is zero. *)

Line(r, k) == [record |-> r, part |-> k]
NoRecord   == [pos |-> 0, lines |-> 0, bytes |-> 0, seq |-> 0]
Mixed      == [record |-> NoRecord, part |-> -1]
ZeroLine   == [record |-> NoRecord, part |-> 0]

IsSkip(r) == r.bytes = 0

\* Of a skip only the metadata is written and read, in its first line.
CopiedLines(r) == IF IsSkip(r) THEN 1 ELSE r.lines

\* The operators named Mutant... are slips that this code invites; each breaks
\* a property of a run (PROJECT.json says which).
MutantNoMark(r) == IF IsSkip(r) THEN {} ELSE 0 .. r.lines - 1
WrittenLines(r) == 0 .. CopiedLines(r) - 1

MutantMessagesOnly(r) == IF IsSkip(r) THEN 0 ELSE r.lines
ReservedLines(r)      == r.lines

MutantNoModulo == CommitSequence
FirstLine      == CommitSequence % TotalLines

CacheLinesRemaining == TotalLines - FirstLine

SkipRecord ==
  [pos |-> CommitSequence, lines |-> CacheLinesRemaining, bytes |-> 0, seq |-> 0]

MessageRecord(at, m, common) ==
  [pos |-> at, lines |-> LinesOf(m), bytes |-> m, seq |-> common.SequenceNumber]

-----------------------------------------------------------------------------
Init ==
  /\ CommonData \in CommonType /\ ~CommonData.ShutdownReceived
  /\ pc = "idle" /\ message = NoMessage
  /\ WriterFlagsPrevious = {}
  /\ CurrentCacheLine = 0
  /\ record = NoRecord /\ untouched = {} /\ half = {}
  \* Nothing initializes the member: any value may be found there.
  /\ MaxSequenceValue \in SequenceNumbers \cup {0}
  /\ WriterFlags = {} /\ WriterSessionId = NoSession
  /\ WriterMaxSequence = MaxSequenceValue
  /\ CommitSequence = 0 /\ ReserveSequence = 0
  /\ data = [i \in 0 .. TotalLines - 1 |-> ZeroLine]
  /\ log = <<>>
  /\ reader = "poll" /\ position = 0
  /\ copied = <<>> /\ wanted = 0
  /\ got = <<"nothing">>
  /\ index = 1

-----------------------------------------------------------------------------
(* The environment: the parser handles at most one frame between two calls *)
(* of Iterate.  Its header may announce a shutdown, or start a session      *)
(* after one, and if it is well formed its sequence number follows.         *)

SameSession(common) ==
  /\ common.SessionId = CommonData.SessionId
  /\ CommonData.ShutdownReceived => common.ShutdownReceived

NextSession(common) == CommonData.ShutdownReceived /\ ~common.ShutdownReceived

\* Any sequence number, that of no new frame included.
ParserLeaves(common) == SameSession(common) \/ NextSession(common)

MutantNoShutdown(common) == {"Connected", "InSession"}
FlagsOf(common) ==
  {"Connected", IF common.ShutdownReceived THEN "Shutdown" ELSE "InSession"}

\* HandleSharedMemoryFrames up to its first store.
StartRecord(m, common) ==
  /\ CurrentCacheLine' = FirstLine
  /\ record' = IF LinesOf(m) > CacheLinesRemaining THEN SkipRecord
                 ELSE MessageRecord(CommitSequence, m, common)
  /\ pc' = "reserve"
  /\ UNCHANGED <<untouched, half, MaxSequenceValue>>

AfterFlags(m, common) ==
  IF m = NoMessage THEN pc' = "heartbeat" /\ UNCHANGED writing
    ELSE StartRecord(m, common)

Iterate(m, common) ==
  /\ pc = "idle"
  /\ ParserLeaves(common)
  /\ m = NoMessage \/ CommitSequence + TotalLines + LinesOf(m) <= MaxReserve
  /\ message' = m
  /\ CommonData' = common
  /\ IF FlagsOf(common) # WriterFlagsPrevious
       THEN pc' = "flags" /\ UNCHANGED writing
       ELSE AfterFlags(m, common)
  /\ UNCHANGED <<WriterFlagsPrevious, state, section, consumer>>

StoreWriterFlags ==
  /\ pc = "flags"
  /\ WriterFlagsPrevious' = FlagsOf(CommonData)
  /\ WriterFlags' = FlagsOf(CommonData)
  /\ pc' = "session"
  /\ UNCHANGED <<CommonData, message, writing, WriterSessionId, WriterMaxSequence,
                 section, consumer>>

WriteSessionIdToSharedMemory ==
  /\ pc = "session"
  /\ WriterSessionId' = CommonData.SessionId
  /\ AfterFlags(message, CommonData)
  /\ UNCHANGED <<CommonData, message, WriterFlagsPrevious, WriterFlags,
                 WriterMaxSequence, section, consumer>>

StoreReserve ==
  /\ pc = "reserve"
  /\ ReserveSequence' = ReserveSequence + ReservedLines(record)
  /\ untouched' = WrittenLines(record)
  /\ pc' = "write"
  /\ UNCHANGED <<CommonData, message, WriterFlagsPrevious, CurrentCacheLine, record,
                 half, MaxSequenceValue, state, CommitSequence, data, log, consumer>>

\* The compiler and memcpy order the bytes of a record as they please.
TouchLine(k) ==
  /\ pc = "write" /\ k \in untouched
  /\ data' = [data EXCEPT ![CurrentCacheLine + k] = Mixed]
  /\ untouched' = untouched \ {k} /\ half' = half \cup {k}
  /\ UNCHANGED <<iterate, CurrentCacheLine, record, MaxSequenceValue, state,
                 CommitSequence, ReserveSequence, log, consumer>>

FinishLine(k) ==
  /\ pc = "write" /\ k \in half
  /\ data' = [data EXCEPT ![CurrentCacheLine + k] = Line(record, k)]
  /\ half' = half \ {k}
  /\ UNCHANGED <<iterate, CurrentCacheLine, record, untouched, MaxSequenceValue,
                 state, CommitSequence, ReserveSequence, log, consumer>>

MutantMetadataDone == 0 \notin untouched \cup half
RecordDone         == untouched = {} /\ half = {}

StoreCommit ==
  /\ pc = "write" /\ RecordDone
  /\ CommitSequence' = CommitSequence + record.lines
  /\ log' = Append(log, record)
  /\ IF IsSkip(record)
       THEN /\ CurrentCacheLine' = 0
            /\ record' = MessageRecord(CommitSequence + record.lines, message, CommonData)
            /\ pc' = "reserve"
            /\ UNCHANGED MaxSequenceValue
       ELSE /\ MaxSequenceValue' = record.seq
            /\ pc' = "heartbeat"
            /\ UNCHANGED <<CurrentCacheLine, record>>
  /\ UNCHANGED <<CommonData, message, WriterFlagsPrevious, untouched, half, state,
                 ReserveSequence, data, consumer>>

MutantParsedSequence == CommonData.SequenceNumber
PublishedSequence    == MaxSequenceValue

\* The heartbeat is written once per second of wall-clock time at most.
WriteTimestampToSharedMemory ==
  /\ pc = "heartbeat"
  /\ WriterMaxSequence' \in {WriterMaxSequence, PublishedSequence}
  /\ pc' = "idle"
  /\ UNCHANGED <<CommonData, message, WriterFlagsPrevious, writing, WriterFlags,
                 WriterSessionId, section, consumer>>

\* The file stays, so that consumers may read on.
Uninitialize ==
  /\ pc = "idle"
  /\ WriterFlags' = {"Shutdown"}
  /\ pc' = "closed"
  /\ UNCHANGED <<CommonData, message, WriterFlagsPrevious, writing, WriterSessionId,
                 WriterMaxSequence, section, consumer>>

Writer ==
  \/ \E m \in Messages \cup {NoMessage}, common \in CommonType : Iterate(m, common)
  \/ StoreWriterFlags \/ WriteSessionIdToSharedMemory
  \/ StoreReserve
  \/ \E k \in untouched : TouchLine(k)
  \/ \E k \in half : FinishLine(k)
  \/ StoreCommit
  \/ WriteTimestampToSharedMemory
  \/ Uninitialize

-----------------------------------------------------------------------------
(* The consumer.                                                           *)

\* Whole lines of one record, from its metadata on.
IsRecord(ls) ==
  /\ ls # <<>>
  /\ \A k \in 1 .. Len(ls) : ls[k] = Line(ls[1].record, k - 1)
  /\ Len(ls) = CopiedLines(ls[1].record)

Poll ==
  /\ reader = "poll"
  /\ position < CommitSequence
  /\ reader' = "copy"
  /\ copied' = <<>>
  /\ wanted' = 1
  /\ UNCHANGED <<iterate, writing, state, section, position, got, index>>

\* The first line tells how many there are; what is no metadata may tell
\* anything, of which the consumer copies no more than the array holds.
CopyLine ==
  LET k    == Len(copied)
      line == data[(position % TotalLines) + k]
  IN
  /\ reader = "copy" /\ k < wanted
  /\ copied' = Append(copied, line)
  /\ \/ k > 0 /\ wanted' = wanted
     \/ k = 0 /\ line.part = 0 /\ line.record # NoRecord
              /\ wanted' = CopiedLines(line.record)
     \/ k = 0 /\ (line.part # 0 \/ line.record = NoRecord)
              /\ wanted' \in 1 .. TotalLines - (position % TotalLines)
  /\ UNCHANGED <<iterate, writing, state, section, reader, position, got, index>>

\* Its lines may still have been claimed again while it copied.
StillUnclaimed == ReserveSequence - position <= TotalLines

Validate ==
  /\ reader = "copy" /\ Len(copied) = wanted
  /\ IF StillUnclaimed
       THEN /\ reader' = "poll"
            /\ got' = IF ~IsRecord(copied) THEN <<"damaged">>
                      ELSE IF IsSkip(copied[1].record) THEN <<"filler">>
                      ELSE <<"record", copied[1].record>>
            /\ position' = position + copied[1].record.lines
            /\ index' = index + 1
       ELSE /\ reader' = "lost"
            /\ UNCHANGED <<got, position, index>>
  /\ UNCHANGED <<iterate, writing, state, section, copied, wanted>>

\* Every commit is the end of a record: reading can go on from there.
Resume ==
  /\ reader = "lost"
  /\ position' = CommitSequence
  /\ index' = Len(log) + 1
  /\ got' = <<"lost">>
  /\ reader' = "poll"
  /\ UNCHANGED <<iterate, writing, state, section, copied, wanted>>

Consumer == Poll \/ CopyLine \/ Validate \/ Resume

Next == Writer \/ Consumer

Spec == Init /\ [][Next]_vars

-----------------------------------------------------------------------------
RecordType ==
  [pos : Nat, lines : Nat, bytes : Messages \cup {0}, seq : SequenceNumbers \cup {0}]
LineType == [record : RecordType, part : -1 .. TotalLines - 1]
FlagsType == { {}, {"Connected", "InSession"}, {"Connected", "Shutdown"}, {"Shutdown"} }

\* Every field has the type of its declaration.
TypeOK ==
  /\ CommonData \in CommonType
  /\ pc \in {"idle", "flags", "session", "reserve", "write", "heartbeat", "closed"}
  /\ message \in Messages \cup {NoMessage}
  /\ WriterFlagsPrevious \in FlagsType /\ WriterFlags \in FlagsType
  /\ CurrentCacheLine \in 0 .. TotalLines - 1
  /\ record \in RecordType
  /\ untouched \subseteq 0 .. TotalLines - 1 /\ half \subseteq 0 .. TotalLines - 1
  /\ MaxSequenceValue \in SequenceNumbers \cup {0}
  /\ WriterMaxSequence \in SequenceNumbers \cup {0}
  /\ WriterSessionId \in SessionIds \cup {NoSession}
  /\ CommitSequence \in Nat /\ ReserveSequence \in Nat
  /\ data \in [0 .. TotalLines - 1 -> LineType]
  /\ log \in Seq(RecordType)
  /\ reader \in {"poll", "copy", "lost"}
  /\ position \in Nat /\ index \in Nat \ {0}
  /\ copied \in Seq(LineType) /\ wanted \in 0 .. TotalLines
  /\ got \in { <<"nothing">>, <<"filler">>, <<"lost">>, <<"damaged">> }
               \cup ({"record"} \X RecordType)

\* What lies at most TotalLines behind the reserve sequence is whole: the
\* bytes of a committed record are never touched, not by a write in progress
\* and not by the record of a skip, before the reserve sequence says so.
LiveRecordsIntact ==
  \A i \in 1 .. Len(log) :
    ReserveSequence - log[i].pos <= TotalLines =>
      \A k \in WrittenLines(log[i]) :
        data[(log[i].pos % TotalLines) + k] = Line(log[i], k)

\* A consumer never takes a torn record, or half a record, or one of another
\* position for valid, whenever the inserter overruns it.
ConsumersGetWholeRecords ==
  /\ got # <<"damaged">>
  /\ got[1] = "record" => got[2] = log[index - 1]

\* A message becomes visible only when the flags and the session id in the
\* shared memory are those the parser left: both are stored before it.
MessagesUnderPublishedSession ==
  [][ CommitSequence' # CommitSequence =>
        /\ WriterFlags = FlagsOf(CommonData)
        /\ WriterSessionId = CommonData.SessionId ]_vars

\* The maximal sequence number that the heartbeat publishes is the one of a
\* message that a consumer can read already.
MaxSequenceIsCommitted ==
  [][ WriterMaxSequence' # WriterMaxSequence =>
        \E i \in 1 .. Len(log) :
          ~IsSkip(log[i]) /\ log[i].seq = WriterMaxSequence' ]_vars

-----------------------------------------------------------------------------
(* The inductive invariant.                                                *)

\* A record is not empty and does not wrap; only the skip may claim lines
\* that it does not write.
WellPlaced(r) ==
  /\ r.lines \in Nat \ {0}
  /\ (r.pos % TotalLines) + r.lines <= TotalLines

\* Outside of a record being written the two sequences agree.
SequencesOK ==
  ReserveSequence = CommitSequence + (IF pc = "write" THEN record.lines ELSE 0)

WritingOK ==
  /\ pc \in {"reserve", "write"} =>
       /\ record.pos = CommitSequence
       /\ CurrentCacheLine = CommitSequence % TotalLines
       /\ WellPlaced(record)
       /\ message \in Messages
       /\ IsSkip(record) => CurrentCacheLine + record.lines = TotalLines
  /\ untouched \cap half = {}
  /\ pc = "write" =>
       /\ untouched \cup half \subseteq WrittenLines(record)
       /\ \A k \in WrittenLines(record) \ (untouched \cup half) :
            data[CurrentCacheLine + k] = Line(record, k)
  /\ pc # "write" => untouched = {} /\ half = {}

\* What the shared memory says of the writer, once its flags were stored.
StateOK ==
  /\ pc # "closed" => WriterFlags = WriterFlagsPrevious
  /\ \/ pc \in {"session", "reserve", "write", "heartbeat"}
     \/ pc = "idle" /\ WriterFlagsPrevious # {}
     => WriterFlags = FlagsOf(CommonData)
  /\ \/ pc \in {"reserve", "write", "heartbeat"}
     \/ pc = "idle" /\ WriterFlagsPrevious # {}
     => WriterSessionId = CommonData.SessionId

MaxSequenceOK ==
  \/ WriterMaxSequence = MaxSequenceValue
  \/ \E i \in 1 .. Len(log) : ~IsSkip(log[i]) /\ log[i].seq = MaxSequenceValue

\* Where record i of the log starts, also for the one committed next.
StartOf(i) == IF i <= Len(log) THEN log[i].pos ELSE CommitSequence

LogOK ==
  /\ StartOf(1) = 0
  /\ \A i \in 1 .. Len(log) :
       /\ WellPlaced(log[i])
       /\ log[i].pos + log[i].lines = StartOf(i + 1)
       /\ log[i].pos + log[i].lines <= CommitSequence

\* Metadata, also of a record that is gone, never sends a consumer past the
\* end of the array.
MetadataOK ==
  \A i \in 0 .. TotalLines - 1 :
    data[i].part = 0 /\ data[i].record # NoRecord =>
      data[i].record.lines \in Nat \ {0} /\ i + data[i].record.lines <= TotalLines

\* What the consumer copied is valid as long as its position is unclaimed.
ConsumerOK ==
  /\ index \in 1 .. Len(log) + 1
  /\ position = StartOf(index)
  /\ reader # "poll" => index <= Len(log)
  /\ reader = "copy" => wanted > 0 /\ (position % TotalLines) + wanted <= TotalLines
  /\ reader = "copy" /\ StillUnclaimed =>
       /\ wanted = IF copied = <<>> THEN 1 ELSE CopiedLines(log[index])
       /\ Len(copied) <= wanted
       /\ \A k \in 1 .. Len(copied) : copied[k] = Line(log[index], k - 1)
  /\ got[1] = "record" => index > 1

IInv ==
  /\ TypeOK
  /\ SequencesOK
  /\ WritingOK
  /\ StateOK
  /\ MaxSequenceOK
  /\ LogOK
  /\ MetadataOK
  /\ LiveRecordsIntact
  /\ ConsumerOK
  /\ ConsumersGetWholeRecords

-----------------------------------------------------------------------------
Content(r) == [bytes |-> r.bytes, seq |-> r.seq]
LogRecords == [bytes : Messages \cup {0}, seq : SequenceNumbers \cup {0}]
Contents   == [i \in 1 .. Len(log) |-> Content(log[i])]
Got        == IF got[1] = "record" THEN <<"record", Content(got[2])>> ELSE got

\* The shared memory implements the log: the consumer gets every record in
\* the order of insertion and at most once, or learns that it lost some.
Log == INSTANCE SharedLog WITH
         Records <- LogRecords, log <- Contents, next <- index, got <- Got

ImplementsLog == Log!Spec

\* What the comment at InserterImplementation.cpp:19 says: the control block
\* starts with a maximal sequence number of 0.
StartsWithMaxSequenceZero == log = <<>> => WriterMaxSequence = 0

=============================================================================
