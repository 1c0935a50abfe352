-------------------- MODULE InserterImplementation_proofs --------------------
(***************************************************************************)
(* Proofs about InserterImplementation, for every size of the data section *)
(* and every set of messages that fit into it: IInv is inductive, the      *)
(* invariants and action properties follow from it, and the shared memory  *)
(* implements SharedLog.                                                   *)
(***************************************************************************)
EXTENDS InserterImplementation, SequenceTheorems, TLAPS

-----------------------------------------------------------------------------
(* Remainders, for a divisor that is not a number.                         *)

\* A number is its quotient times the divisor plus its remainder.
LEMMA DivMod ==
  ASSUME NEW a \in Nat, NEW T \in Nat \ {0}
  PROVE  a % T \in 0 .. T - 1 /\ a \div T \in Nat /\ a = T * (a \div T) + (a % T)
BY SMT

\* Products by the divisor are at least as large as it, or not positive.
LEMMA Multiples ==
  ASSUME NEW T \in Nat \ {0}, NEW d \in Int
  PROVE  (d >= 1 => T * d >= T) /\ (d <= 0 => T * d <= 0)
BY SMT

\* Quotient and remainder are unique.
LEMMA ModUnique ==
  ASSUME NEW T \in Nat \ {0}, NEW q \in Int, NEW p \in Int,
         NEW r \in 0 .. T - 1, NEW s \in 0 .. T - 1, T * q + r = T * p + s
  PROVE  r = s /\ q = p
<1>1. T * (q - p) = s - r  BY SMT
<1>2. q - p \in Int  OBVIOUS
<1>3. q - p <= 0  BY <1>1, <1>2, Multiples
<1>4. p - q \in Int /\ T * (p - q) = r - s  BY SMT
<1>5. p - q <= 0  BY <1>4, Multiples
<1>6. q = p  BY <1>3, <1>5
<1> QED  BY <1>6

\* Within a window of T positions no two have the same line.
LEMMA ModWindow ==
  ASSUME NEW T \in Nat \ {0}, NEW a \in Nat, NEW b \in Nat, a < b, b - a < T
  PROVE  a % T # b % T
<1> DEFINE q == a \div T  p == b \div T
<1>1. /\ a = T * q + (a % T) /\ q \in Nat /\ a % T \in 0 .. T - 1
      /\ b = T * p + (b % T) /\ p \in Nat /\ b % T \in 0 .. T - 1
  BY DivMod
<1> SUFFICES ASSUME a % T = b % T PROVE FALSE  OBVIOUS
<1> HIDE DEF q, p
<1>2. T * (p - q) = b - a  BY <1>1, SMT
<1>3. p - q \in Int  BY <1>1
<1>4. p - q >= 1  BY <1>2, <1>3, Multiples
<1> QED  BY <1>2, <1>3, <1>4, Multiples

\* The next k positions, up to the end of the array, have the next k lines.
LEMMA ModNext ==
  ASSUME NEW T \in Nat \ {0}, NEW a \in Nat, NEW k \in Nat, (a % T) + k < T
  PROVE  (a + k) % T = (a % T) + k
<1> DEFINE q == a \div T  p == (a + k) \div T
<1>1. a = T * q + (a % T) /\ q \in Nat /\ a % T \in 0 .. T - 1  BY DivMod
<1>2. a + k \in Nat  OBVIOUS
<1>3. /\ a + k = T * p + ((a + k) % T) /\ p \in Nat
      /\ (a + k) % T \in 0 .. T - 1
  BY <1>2, DivMod
<1> HIDE DEF q, p
<1>4. (a % T) + k \in 0 .. T - 1  BY <1>1
<1>5. T * p + ((a + k) % T) = T * q + ((a % T) + k)  BY <1>1, <1>3
<1> DEFINE r == (a + k) % T  s == (a % T) + k
<1>6. q \in Int /\ p \in Int /\ r \in 0 .. T - 1 /\ s \in 0 .. T - 1
  BY <1>1, <1>3, <1>4
<1>7. T * p + r = T * q + s  BY <1>5
<1> HIDE DEF r, s
<1>8. r = s  BY <1>6, <1>7, ModUnique
<1> QED  BY <1>8 DEF r, s

\* Behind the end of the array comes its first line.
LEMMA ModEnd ==
  ASSUME NEW T \in Nat \ {0}, NEW a \in Nat
  PROVE  (a + (T - (a % T))) % T = 0
<1> DEFINE q == a \div T  b == a + (T - (a % T))  p == b \div T
<1>1. a = T * q + (a % T) /\ q \in Nat /\ a % T \in 0 .. T - 1  BY DivMod
<1>2. b \in Nat  BY <1>1
<1>3. b = T * p + (b % T) /\ p \in Nat /\ b % T \in 0 .. T - 1  BY <1>2, DivMod
<1>4. b = T * (q + 1)
  <2> HIDE DEF q
  <2>1. T * (q + 1) = T * q + T  BY <1>1
  <2> QED  BY <1>1, <2>1
<1> HIDE DEF q, b, p
<1>5. T * p + (b % T) = T * (q + 1) + 0  BY <1>1, <1>3, <1>4
<1>6. b % T = 0  BY <1>1, <1>3, <1>5, ModUnique
<1> QED  BY <1>6 DEF b

\* The lines of two records of which the second starts behind the first one
\* and ends at most T positions behind its start.
LEMMA Disjoint ==
  ASSUME NEW T \in Nat \ {0}, NEW p \in Nat, NEW c \in Nat,
         NEW j \in Nat, NEW k \in Nat,
         p + j < c, c + k - p < T, (p % T) + j < T, (c % T) + k < T
  PROVE  (p % T) + j # (c % T) + k
<1>1. (p + j) % T = (p % T) + j  BY ModNext
<1>2. (c + k) % T = (c % T) + k  BY ModNext
<1>3. (p + j) % T # (c + k) % T
  <2>1. p + j \in Nat /\ c + k \in Nat /\ p + j < c + k /\ (c + k) - (p + j) < T
    BY SMT
  <2> QED  BY <2>1, ModWindow
<1> QED  BY <1>1, <1>2, <1>3

-----------------------------------------------------------------------------
(* The operators of the model.                                             *)

USE DEF IsSkip

\* Every message takes at least one line and fits into the data section.
LEMMA LinesPositive ==
  ASSUME NEW m \in Messages
  PROVE  m \in Nat \ {0} /\ LinesOf(m) \in Nat \ {0} /\ LinesOf(m) <= TotalLines
<1>1. m \in Nat \ {0} /\ LinesOf(m) <= TotalLines  BY MessagesAssumption
<1> QED  BY <1>1 DEF LinesOf

\* The lines written of a record are among those it claims, the first one is
\* written always.
LEMMA WrittenFacts ==
  ASSUME NEW r \in RecordType, r.lines \in Nat \ {0}
  PROVE  /\ CopiedLines(r) \in Nat \ {0} /\ CopiedLines(r) <= r.lines
         /\ WrittenLines(r) \subseteq 0 .. r.lines - 1
         /\ 0 \in WrittenLines(r)
BY DEF WrittenLines, CopiedLines

\* A first line is a line.
LEMMA LineInArray ==
  ASSUME NEW p \in Nat
  PROVE  p % TotalLines \in 0 .. TotalLines - 1
BY MessagesAssumption, DivMod

\* What StartRecord places: a record at the commit sequence that does not wrap.
LEMMA RecordStarts ==
  ASSUME TypeOK, NEW m \in Messages, NEW common \in CommonType, StartRecord(m, common)
  PROVE  /\ record' \in RecordType
         /\ record'.pos = CommitSequence
         /\ WellPlaced(record')
         /\ IsSkip(record') => (CommitSequence % TotalLines) + record'.lines = TotalLines
         /\ CurrentCacheLine' = CommitSequence % TotalLines
         /\ CurrentCacheLine' \in 0 .. TotalLines - 1
<1>1. CommitSequence \in Nat /\ TotalLines \in Nat  BY MessagesAssumption DEF TypeOK
<1>2. CommitSequence % TotalLines \in 0 .. TotalLines - 1  BY <1>1, LineInArray
<1>3. /\ m \in Nat \ {0} /\ LinesOf(m) \in Nat \ {0} /\ LinesOf(m) <= TotalLines
  BY LinesPositive
<1>4. common.SequenceNumber \in SequenceNumbers  BY DEF CommonType
<1>5. CASE LinesOf(m) > CacheLinesRemaining
  <2>1. record' = SkipRecord  BY <1>5 DEF StartRecord
  <2> QED
    BY <1>1, <1>2, <2>1 DEF SkipRecord, CacheLinesRemaining, FirstLine, RecordType,
       WellPlaced, StartRecord
<1>6. CASE ~(LinesOf(m) > CacheLinesRemaining)
  <2>1. record' = MessageRecord(CommitSequence, m, common)  BY <1>6 DEF StartRecord
  <2>2. (CommitSequence % TotalLines) + LinesOf(m) <= TotalLines
    BY <1>1, <1>2, <1>3, <1>6 DEF CacheLinesRemaining, FirstLine
  <2> QED
    BY <1>1, <1>2, <1>3, <1>4, <2>1, <2>2 DEF MessageRecord, FirstLine, RecordType,
       WellPlaced, StartRecord
<1> QED  BY <1>5, <1>6

-----------------------------------------------------------------------------
(* The initial states.                                                     *)

\* Initialize establishes the invariant.
LEMMA InitIInv ==
  ASSUME Init
  PROVE  IInv
<1> USE DEF Init
<1>1. TotalLines \in Nat \ {0}  BY MessagesAssumption
<1>2. NoRecord \in RecordType /\ ZeroLine \in LineType
  BY <1>1 DEF NoRecord, ZeroLine, RecordType, LineType
<1>3. TypeOK
  <2>1. data \in [0 .. TotalLines - 1 -> LineType]  BY <1>2
  <2>2. log \in Seq(RecordType) /\ copied \in Seq(LineType)  BY EmptySeq
  <2> QED
    BY <1>1, <1>2, <2>1, <2>2 DEF TypeOK, FlagsType, NoSession, NoMessage
<1>4. log = <<>> /\ Len(log) = 0  BY EmptySeq
<1>5. SequencesOK /\ WritingOK /\ StateOK /\ MaxSequenceOK
  BY <1>4 DEF SequencesOK, WritingOK, StateOK, MaxSequenceOK
<1>6. LogOK /\ LiveRecordsIntact /\ ConsumerOK /\ ConsumersGetWholeRecords
  BY <1>4 DEF LogOK, LiveRecordsIntact, ConsumerOK, ConsumersGetWholeRecords, StartOf
<1>7. MetadataOK  BY DEF MetadataOK, ZeroLine
<1> QED  BY <1>3, <1>5, <1>6, <1>7 DEF IInv

-----------------------------------------------------------------------------
(* What depends on which variables.                                        *)

\* Nothing but the shared memory and the consumer decides what it reads.
SectionOK == LogOK /\ MetadataOK /\ LiveRecordsIntact

\* Steps that leave shared lines, sequences and consumer alone keep their part.
LEMMA SectionFrame ==
  ASSUME IInv, UNCHANGED <<section, consumer>>
  PROVE  SectionOK' /\ ConsumerOK' /\ ConsumersGetWholeRecords'
<1>1. UNCHANGED <<CommitSequence, ReserveSequence, data, log>>  BY DEF section
<1>2. UNCHANGED <<reader, position, copied, wanted, got, index>>  BY DEF consumer
<1>3. LogOK'  BY <1>1 DEF IInv, LogOK, StartOf
<1>4. MetadataOK' /\ LiveRecordsIntact'
  BY <1>1 DEF IInv, MetadataOK, LiveRecordsIntact
<1>5. ConsumerOK' /\ ConsumersGetWholeRecords'
  BY <1>1, <1>2 DEF IInv, ConsumerOK, ConsumersGetWholeRecords, StartOf, StillUnclaimed
<1> QED  BY <1>3, <1>4, <1>5 DEF SectionOK

\* The consumer writes nothing that the inserter reads.
LEMMA WriterFrame ==
  ASSUME IInv, UNCHANGED <<iterate, writing, state, section>>
  PROVE  /\ SequencesOK' /\ WritingOK' /\ StateOK' /\ MaxSequenceOK'
         /\ SectionOK'
<1>1. UNCHANGED <<CommitSequence, ReserveSequence, data, log>>  BY DEF section
<1>2. UNCHANGED <<CommonData, pc, message, WriterFlagsPrevious>>  BY DEF iterate
<1>3. UNCHANGED <<CurrentCacheLine, record, untouched, half, MaxSequenceValue>>
  BY DEF writing
<1>4. UNCHANGED <<WriterFlags, WriterSessionId, WriterMaxSequence>>  BY DEF state
<1>5. SequencesOK' /\ WritingOK'
  BY <1>1, <1>2, <1>3 DEF IInv, SequencesOK, WritingOK
<1>6. StateOK' /\ MaxSequenceOK'
  BY <1>1, <1>2, <1>3, <1>4 DEF IInv, StateOK, MaxSequenceOK, FlagsOf
<1>7. SectionOK'
  BY <1>1 DEF IInv, SectionOK, LogOK, StartOf, MetadataOK, LiveRecordsIntact
<1> QED  BY <1>5, <1>6, <1>7

-----------------------------------------------------------------------------
(* The steps of the inserter.                                              *)

\* Whether or not a message was read, what is written next is well placed.
LEMMA AfterFlagsStep ==
  ASSUME IInv, pc \in {"idle", "session"}, NEW m \in Messages \cup {NoMessage},
         NEW common \in CommonType, AfterFlags(m, common), message' = m,
         UNCHANGED section
  PROVE  /\ SequencesOK' /\ WritingOK'
         /\ pc' \in {"heartbeat", "reserve"}
         /\ CurrentCacheLine' \in 0 .. TotalLines - 1
         /\ record' \in RecordType
         /\ UNCHANGED <<untouched, half, MaxSequenceValue>>
<1>1. TypeOK /\ WritingOK /\ SequencesOK  BY DEF IInv
<1>2. UNCHANGED <<CommitSequence, ReserveSequence, data, log>>  BY DEF section
<1>3. untouched = {} /\ half = {}  BY <1>1 DEF WritingOK
<1>4. CASE m = NoMessage
  <2>1. pc' = "heartbeat" /\ UNCHANGED writing  BY <1>4 DEF AfterFlags
  <2>2. UNCHANGED <<CurrentCacheLine, record, untouched, half, MaxSequenceValue>>
    BY <2>1 DEF writing
  <2>3. SequencesOK'  BY <1>1, <1>2, <2>1 DEF SequencesOK
  <2>4. WritingOK'  BY <1>1, <1>3, <2>1, <2>2 DEF WritingOK
  <2> QED  BY <1>1, <2>1, <2>2, <2>3, <2>4 DEF TypeOK
<1>5. CASE m # NoMessage
  <2>1. m \in Messages /\ StartRecord(m, common)  BY <1>5 DEF AfterFlags
  <2>2. pc' = "reserve" /\ UNCHANGED <<untouched, half, MaxSequenceValue>>
    BY <2>1 DEF StartRecord
  <2>3. /\ record' \in RecordType
        /\ record'.pos = CommitSequence
        /\ WellPlaced(record')
        /\ IsSkip(record') => (CommitSequence % TotalLines) + record'.lines = TotalLines
        /\ CurrentCacheLine' = CommitSequence % TotalLines
        /\ CurrentCacheLine' \in 0 .. TotalLines - 1
    BY <1>1, <2>1, RecordStarts
  <2>4. SequencesOK'
    BY <1>1, <1>2, <2>2 DEF SequencesOK
  <2>5. WritingOK'
    BY <1>2, <1>3, <2>1, <2>2, <2>3 DEF WritingOK, WellPlaced
  <2> QED  BY <2>2, <2>3, <2>4, <2>5
<1> QED  BY <1>4, <1>5

\* Iterate reads a message and decides what to store first.
LEMMA IterateStep ==
  ASSUME IInv, NEW m \in Messages \cup {NoMessage}, NEW common \in CommonType,
         Iterate(m, common)
  PROVE  IInv'
<1>1. TypeOK /\ WritingOK /\ SequencesOK /\ StateOK /\ MaxSequenceOK  BY DEF IInv
<1>2. /\ pc = "idle" /\ message' = m /\ CommonData' = common
      /\ UNCHANGED <<WriterFlagsPrevious, state, section, consumer>>
  BY DEF Iterate
<1>3. UNCHANGED <<CommitSequence, ReserveSequence, data, log, WriterFlags,
                  WriterSessionId, WriterMaxSequence>>
  BY <1>2 DEF section, state
<1>4. SectionOK' /\ ConsumerOK' /\ ConsumersGetWholeRecords'
  BY <1>2, SectionFrame
<1>5. CASE FlagsOf(common) # WriterFlagsPrevious
  <2>1. pc' = "flags" /\ UNCHANGED writing  BY <1>5 DEF Iterate
  <2>2. UNCHANGED <<CurrentCacheLine, record, untouched, half, MaxSequenceValue>>
    BY <2>1 DEF writing
  <2>3. TypeOK'
    BY <1>1, <1>2, <1>3, <2>1, <2>2 DEF TypeOK, consumer
  <2>4. SequencesOK' /\ WritingOK'
    BY <1>1, <1>2, <1>3, <2>1, <2>2 DEF SequencesOK, WritingOK
  <2>5. StateOK' /\ MaxSequenceOK'
    BY <1>1, <1>2, <1>3, <2>1, <2>2 DEF StateOK, MaxSequenceOK
  <2> QED  BY <1>4, <2>3, <2>4, <2>5 DEF IInv, SectionOK
<1>6. CASE FlagsOf(common) = WriterFlagsPrevious
  <2>1. AfterFlags(m, common)  BY <1>6 DEF Iterate
  <2>2. /\ SequencesOK' /\ WritingOK'
        /\ pc' \in {"heartbeat", "reserve"}
        /\ CurrentCacheLine' \in 0 .. TotalLines - 1
        /\ record' \in RecordType
        /\ UNCHANGED <<untouched, half, MaxSequenceValue>>
    BY <1>2, <2>1, AfterFlagsStep
  <2>3. TypeOK'
    BY <1>1, <1>2, <1>3, <2>2 DEF TypeOK, consumer
  <2>4. WriterFlagsPrevious # {}  BY <1>6 DEF FlagsOf
  <2>5. WriterFlagsPrevious = FlagsOf(CommonData)  BY <1>1, <1>2, <2>4 DEF StateOK
  <2>6. common.SessionId = CommonData.SessionId
    <3>1. ParserLeaves(common)  BY DEF Iterate
    <3>2. CommonData \in CommonType  BY <1>1 DEF TypeOK
    <3>3. FlagsOf(common) = FlagsOf(CommonData)  BY <1>6, <2>5
    <3>4. common.ShutdownReceived = CommonData.ShutdownReceived
      BY <3>2, <3>3 DEF FlagsOf, CommonType
    <3> QED  BY <3>1, <3>2, <3>4 DEF ParserLeaves, SameSession, NextSession, CommonType
  <2>7. StateOK'
    BY <1>1, <1>2, <1>3, <1>6, <2>2, <2>4, <2>6 DEF StateOK
  <2>8. MaxSequenceOK'  BY <1>1, <1>3, <2>2 DEF MaxSequenceOK
  <2> QED  BY <1>4, <2>2, <2>3, <2>7, <2>8 DEF IInv, SectionOK
<1> QED  BY <1>5, <1>6

\* UpdateWriterFlags stores the flags before the session id.
LEMMA StoreWriterFlagsStep ==
  ASSUME IInv, StoreWriterFlags
  PROVE  IInv'
<1>1. TypeOK /\ WritingOK /\ SequencesOK /\ StateOK /\ MaxSequenceOK  BY DEF IInv
<1>2. /\ pc = "flags" /\ pc' = "session"
      /\ WriterFlagsPrevious' = FlagsOf(CommonData)
      /\ WriterFlags' = FlagsOf(CommonData)
      /\ UNCHANGED <<CommonData, message, WriterSessionId, WriterMaxSequence>>
      /\ UNCHANGED <<CurrentCacheLine, record, untouched, half, MaxSequenceValue>>
      /\ UNCHANGED <<CommitSequence, ReserveSequence, data, log>>
      /\ UNCHANGED <<section, consumer>>
  BY DEF StoreWriterFlags, writing, section
<1>3. SectionOK' /\ ConsumerOK' /\ ConsumersGetWholeRecords'
  BY <1>2, SectionFrame
<1>4. FlagsOf(CommonData) \in FlagsType
  BY DEF FlagsOf, FlagsType
<1>5. TypeOK'  BY <1>1, <1>2, <1>4 DEF TypeOK, consumer
<1>6. SequencesOK' /\ WritingOK'  BY <1>1, <1>2 DEF SequencesOK, WritingOK
<1>7. FlagsOf(CommonData)' = FlagsOf(CommonData)  BY <1>2 DEF FlagsOf
<1>8. StateOK' /\ MaxSequenceOK'  BY <1>1, <1>2, <1>7 DEF StateOK, MaxSequenceOK
<1> QED  BY <1>3, <1>5, <1>6, <1>8 DEF IInv, SectionOK

\* With the session id stored, the shared state is that of the parser again.
LEMMA WriteSessionIdStep ==
  ASSUME IInv, WriteSessionIdToSharedMemory
  PROVE  IInv'
<1>1. TypeOK /\ WritingOK /\ SequencesOK /\ StateOK /\ MaxSequenceOK  BY DEF IInv
<1>2. /\ pc = "session" /\ WriterSessionId' = CommonData.SessionId
      /\ AfterFlags(message, CommonData)
      /\ UNCHANGED <<CommonData, message, WriterFlagsPrevious, WriterFlags,
                     WriterMaxSequence>>
      /\ UNCHANGED <<CommitSequence, ReserveSequence, data, log>>
      /\ UNCHANGED <<section, consumer>>
  BY DEF WriteSessionIdToSharedMemory, section
<1>3. SectionOK' /\ ConsumerOK' /\ ConsumersGetWholeRecords'
  BY <1>2, SectionFrame
<1>4. message \in Messages \cup {NoMessage} /\ CommonData \in CommonType
  BY <1>1 DEF TypeOK
<1>5. /\ SequencesOK' /\ WritingOK'
      /\ pc' \in {"heartbeat", "reserve"}
      /\ CurrentCacheLine' \in 0 .. TotalLines - 1
      /\ record' \in RecordType
      /\ UNCHANGED <<untouched, half, MaxSequenceValue>>
  BY <1>2, <1>4, AfterFlagsStep
<1>6. CommonData.SessionId \in SessionIds  BY <1>4 DEF CommonType
<1>7. TypeOK'  BY <1>1, <1>2, <1>5, <1>6 DEF TypeOK, consumer
<1>8. FlagsOf(CommonData)' = FlagsOf(CommonData)  BY <1>2 DEF FlagsOf
<1>9. StateOK' /\ MaxSequenceOK'
  BY <1>1, <1>2, <1>5, <1>8 DEF StateOK, MaxSequenceOK
<1> QED  BY <1>3, <1>5, <1>7, <1>9 DEF IInv, SectionOK

\* The consumer notices only that lines are claimed and records committed.
LEMMA ConsumerFrame ==
  ASSUME IInv, UNCHANGED <<CommitSequence, log>>, UNCHANGED consumer,
         ReserveSequence' \in Nat, ReserveSequence' >= ReserveSequence
  PROVE  ConsumerOK' /\ ConsumersGetWholeRecords'
<1>1. ReserveSequence \in Nat /\ position \in Nat /\ TotalLines \in Nat
  BY MessagesAssumption DEF IInv, TypeOK
<1>2. StillUnclaimed' => StillUnclaimed
  <2>1. position' = position  BY DEF consumer
  <2> SUFFICES ASSUME StillUnclaimed' PROVE StillUnclaimed  OBVIOUS
  <2>2. ReserveSequence' - position <= TotalLines  BY <2>1 DEF StillUnclaimed
  <2> DEFINE old == ReserveSequence  new == ReserveSequence'
  <2>3. old \in Nat /\ new \in Nat /\ new >= old /\ new - position <= TotalLines
    BY <1>1, <2>2
  <2> HIDE DEF old, new
  <2>4. old - position <= TotalLines  BY <1>1, <2>3
  <2>5. ReserveSequence - position <= TotalLines  BY <2>4 DEF old
  <2> QED  BY <2>5 DEF StillUnclaimed
<1> QED
  BY <1>2 DEF IInv, ConsumerOK, ConsumersGetWholeRecords, StartOf, consumer

\* Claiming lines makes records stale, never damages one.
LEMMA StoreReserveStep ==
  ASSUME IInv, StoreReserve
  PROVE  IInv'
<1>1. TypeOK /\ WritingOK /\ SequencesOK /\ StateOK /\ MaxSequenceOK
      /\ LogOK /\ MetadataOK /\ LiveRecordsIntact
  BY DEF IInv
<1>2. /\ pc = "reserve" /\ pc' = "write"
      /\ ReserveSequence' = ReserveSequence + record.lines
      /\ untouched' = WrittenLines(record)
      /\ UNCHANGED <<CommonData, message, WriterFlagsPrevious>>
      /\ UNCHANGED <<CurrentCacheLine, record, half, MaxSequenceValue>>
      /\ UNCHANGED <<WriterFlags, WriterSessionId, WriterMaxSequence>>
      /\ UNCHANGED <<CommitSequence, data, log>>
      /\ UNCHANGED consumer
  BY DEF StoreReserve, ReservedLines, state
<1>3. /\ record \in RecordType /\ record.lines \in Nat \ {0}
      /\ record.lines <= TotalLines
      /\ CommitSequence \in Nat /\ ReserveSequence \in Nat /\ TotalLines \in Nat \ {0}
  <2>1. CommitSequence \in Nat /\ ReserveSequence \in Nat /\ record \in RecordType
    BY <1>1 DEF TypeOK
  <2>2. record.pos = CommitSequence /\ WellPlaced(record)  BY <1>1, <1>2 DEF WritingOK
  <2>3. CommitSequence % TotalLines \in 0 .. TotalLines - 1  BY <2>1, LineInArray
  <2> QED  BY <2>1, <2>2, <2>3, MessagesAssumption DEF WellPlaced
<1>4. WrittenLines(record) \subseteq 0 .. record.lines - 1  BY <1>3, WrittenFacts
<1>5. TypeOK'
  <2>1. untouched' \subseteq 0 .. TotalLines - 1  BY <1>2, <1>3, <1>4
  <2>2. ReserveSequence' \in Nat  BY <1>2, <1>3
  <2> QED  BY <1>1, <1>2, <2>1, <2>2 DEF TypeOK, consumer
<1>6. SequencesOK'  BY <1>1, <1>2, <1>3 DEF SequencesOK
<1>7. WritingOK'
  BY <1>1, <1>2, <1>3, <1>4 DEF WritingOK, WellPlaced, WrittenLines, CopiedLines
<1>8. StateOK' /\ MaxSequenceOK'
  BY <1>1, <1>2 DEF StateOK, MaxSequenceOK, FlagsOf
<1>9. LogOK' /\ MetadataOK'
  BY <1>1, <1>2 DEF LogOK, StartOf, MetadataOK
<1>10. LiveRecordsIntact'
  <2>1. \A i \in 1 .. Len(log) : log[i].pos \in Nat
    <3> TAKE i \in 1 .. Len(log)
    <3>1. log[i] \in RecordType  BY <1>1, ElementOfSeq DEF TypeOK
    <3> QED  BY <3>1 DEF RecordType
  <2>2. \A i \in 1 .. Len(log) :
          ReserveSequence' - log[i].pos <= TotalLines =>
            ReserveSequence - log[i].pos <= TotalLines
    BY <1>2, <1>3, <2>1
  <2> QED  BY <1>1, <1>2, <2>2 DEF LiveRecordsIntact
<1>11. ConsumerOK' /\ ConsumersGetWholeRecords'
  BY <1>2, <1>3, ConsumerFrame
<1> QED  BY <1>5, <1>6, <1>7, <1>8, <1>9, <1>10, <1>11 DEF IInv

\* While a record is being written, its lines hold no live record.
LEMMA LinesAreFree ==
  ASSUME IInv, pc = "write", NEW k \in WrittenLines(record),
         NEW i \in 1 .. Len(log), ReserveSequence - log[i].pos <= TotalLines,
         NEW j \in WrittenLines(log[i])
  PROVE  (log[i].pos % TotalLines) + j # CurrentCacheLine + k
<1>1. TypeOK /\ WritingOK /\ SequencesOK /\ LogOK  BY DEF IInv
<1>2. log[i] \in RecordType  BY <1>1, ElementOfSeq DEF TypeOK
<1>3. WellPlaced(log[i]) /\ log[i].pos + log[i].lines <= CommitSequence
  BY <1>1 DEF LogOK
<1>4. /\ WellPlaced(record) /\ record.pos = CommitSequence /\ record \in RecordType
      /\ CurrentCacheLine = CommitSequence % TotalLines
      /\ ReserveSequence = CommitSequence + record.lines
  BY <1>1 DEF WritingOK, SequencesOK, TypeOK
<1> DEFINE p == log[i].pos  c == CommitSequence
           rp == p % TotalLines  rc == c % TotalLines
           m == log[i].lines  n == record.lines
<1>5. j \in 0 .. m - 1 /\ k \in 0 .. n - 1 /\ m \in Nat /\ n \in Nat
  BY <1>2, <1>3, <1>4, WrittenFacts DEF WellPlaced
<1>6. p \in Nat /\ c \in Nat /\ TotalLines \in Nat \ {0}
  BY <1>1, <1>2, MessagesAssumption DEF TypeOK, RecordType
<1>7. rp \in 0 .. TotalLines - 1 /\ rc \in 0 .. TotalLines - 1
  BY <1>6, LineInArray
<1>8. p + m <= c /\ (c + n) - p <= TotalLines /\ rp + m <= TotalLines /\ rc + n <= TotalLines
  BY <1>3, <1>4, <1>5, <1>6 DEF WellPlaced
<1> HIDE DEF p, c, rp, rc, m, n
<1>9. p + j < c /\ c + k - p < TotalLines /\ rp + j < TotalLines /\ rc + k < TotalLines
  <2>1. j < m /\ k < n /\ j \in Nat /\ k \in Nat  BY <1>5
  <2>2. p + j < c /\ c + k - p < TotalLines  BY <1>5, <1>6, <1>8, <2>1
  <2>3. rp + j < TotalLines /\ rc + k < TotalLines  BY <1>5, <1>6, <1>7, <1>8, <2>1
  <2> QED  BY <2>2, <2>3
<1>10. j \in Nat /\ k \in Nat  BY <1>5
<1>11. rp + j # rc + k
  <2>1. (p % TotalLines) + j < TotalLines /\ (c % TotalLines) + k < TotalLines
    BY <1>9 DEF rp, rc
  <2>2. (p % TotalLines) + j # (c % TotalLines) + k
    BY <1>6, <1>9, <1>10, <2>1, Disjoint
  <2> QED  BY <2>2 DEF rp, rc
<1> QED  BY <1>4, <1>11 DEF p, c, rp, rc

\* The line that a write touches.
LEMMA WrittenLineInArray ==
  ASSUME IInv, pc = "write", NEW k \in WrittenLines(record)
  PROVE  /\ k \in 0 .. record.lines - 1
         /\ CurrentCacheLine + k \in 0 .. TotalLines - 1
         /\ CurrentCacheLine + record.lines <= TotalLines
         /\ record.lines \in Nat \ {0}
<1>1. TypeOK /\ WritingOK  BY DEF IInv
<1>2. /\ WellPlaced(record) /\ record.pos = CommitSequence /\ record \in RecordType
      /\ CurrentCacheLine = CommitSequence % TotalLines
      /\ CurrentCacheLine \in 0 .. TotalLines - 1
  BY <1>1 DEF WritingOK, TypeOK
<1>3. k \in 0 .. record.lines - 1  BY <1>2, WrittenFacts DEF WellPlaced
<1> QED  BY <1>2, <1>3, MessagesAssumption DEF WellPlaced

\* A line written damages nothing: what it holds then is no metadata, or the
\* metadata of the record.
LEMMA WriteLineStep ==
  ASSUME IInv, pc = "write", NEW k \in WrittenLines(record), NEW line,
         line = Mixed \/ line = Line(record, k),
         data' = [data EXCEPT ![CurrentCacheLine + k] = line],
         UNCHANGED <<CommitSequence, ReserveSequence, log>>, UNCHANGED consumer
  PROVE  /\ LogOK' /\ MetadataOK' /\ LiveRecordsIntact'
         /\ ConsumerOK' /\ ConsumersGetWholeRecords'
         /\ data' \in [0 .. TotalLines - 1 -> LineType]
<1>1. TypeOK /\ WritingOK /\ LogOK /\ MetadataOK /\ LiveRecordsIntact  BY DEF IInv
<1>2. /\ k \in 0 .. record.lines - 1
      /\ CurrentCacheLine + k \in 0 .. TotalLines - 1
      /\ CurrentCacheLine + record.lines <= TotalLines
      /\ record.lines \in Nat \ {0}
  BY WrittenLineInArray
<1>3. /\ record \in RecordType /\ CurrentCacheLine \in Nat /\ TotalLines \in Nat \ {0}
      /\ data \in [0 .. TotalLines - 1 -> LineType]
  BY <1>1, MessagesAssumption DEF TypeOK
<1>4. line \in LineType
  <2>1. Mixed \in LineType
    <3>1. NoRecord \in RecordType  BY DEF NoRecord, RecordType
    <3>2. -1 \in -1 .. TotalLines - 1  BY <1>3
    <3> QED  BY <3>1, <3>2 DEF Mixed, LineType
  <2>2. Line(record, k) \in LineType
    <3>1. k \in -1 .. TotalLines - 1  BY <1>2, <1>3
    <3> QED  BY <1>3, <3>1 DEF Line, LineType
  <2> QED  BY <2>1, <2>2
<1>5. data' \in [0 .. TotalLines - 1 -> LineType]  BY <1>2, <1>3, <1>4
<1>6. LogOK'  BY <1>1 DEF LogOK, StartOf
<1>7. MetadataOK'
  <2> SUFFICES ASSUME NEW i \in 0 .. TotalLines - 1, data'[i].part = 0,
                      data'[i].record # NoRecord
               PROVE  /\ data'[i].record.lines \in Nat \ {0}
                      /\ i + data'[i].record.lines <= TotalLines
    BY DEF MetadataOK
  <2>1. CASE i # CurrentCacheLine + k
    BY <1>1, <1>3, <2>1 DEF MetadataOK
  <2>2. CASE i = CurrentCacheLine + k
    <3>1. data'[i] = line  BY <1>3, <2>2
    <3>2. line = Line(record, k) /\ k = 0  BY <3>1 DEF Mixed, Line
    <3> QED  BY <1>2, <1>3, <2>2, <3>1, <3>2 DEF Line
  <2> QED  BY <2>1, <2>2
<1>8. LiveRecordsIntact'
  <2> SUFFICES ASSUME NEW i \in 1 .. Len(log), ReserveSequence - log[i].pos <= TotalLines,
                      NEW j \in WrittenLines(log[i])
               PROVE  data'[(log[i].pos % TotalLines) + j] = Line(log[i], j)
    BY DEF LiveRecordsIntact
  <2>1. data[(log[i].pos % TotalLines) + j] = Line(log[i], j)
    BY <1>1 DEF LiveRecordsIntact
  <2>2. (log[i].pos % TotalLines) + j # CurrentCacheLine + k  BY LinesAreFree
  <2>3. (log[i].pos % TotalLines) + j \in 0 .. TotalLines - 1
    <3>1. log[i] \in RecordType  BY <1>1, ElementOfSeq DEF TypeOK
    <3>2. WellPlaced(log[i])  BY <1>1 DEF LogOK
    <3>3. j \in 0 .. log[i].lines - 1  BY <3>1, <3>2, WrittenFacts DEF WellPlaced
    <3>4. log[i].pos % TotalLines \in 0 .. TotalLines - 1
      BY <3>1, LineInArray DEF RecordType
    <3> QED  BY <1>3, <3>2, <3>3, <3>4 DEF WellPlaced
  <2> QED  BY <1>3, <2>1, <2>2, <2>3
<1>9. ConsumerOK' /\ ConsumersGetWholeRecords'
  <2>1. ReserveSequence' \in Nat /\ ReserveSequence' >= ReserveSequence
    BY <1>1 DEF TypeOK
  <2> QED  BY <2>1, ConsumerFrame
<1> QED  BY <1>5, <1>6, <1>7, <1>8, <1>9

\* A line half written belongs to the record being written.
LEMMA TouchLineStep ==
  ASSUME IInv, NEW k \in untouched, TouchLine(k)
  PROVE  IInv'
<1>1. TypeOK /\ WritingOK /\ SequencesOK /\ StateOK /\ MaxSequenceOK  BY DEF IInv
<1>2. /\ pc = "write" /\ UNCHANGED iterate
      /\ data' = [data EXCEPT ![CurrentCacheLine + k] = Mixed]
      /\ untouched' = untouched \ {k} /\ half' = half \cup {k}
      /\ UNCHANGED <<CurrentCacheLine, record, MaxSequenceValue>>
      /\ UNCHANGED <<WriterFlags, WriterSessionId, WriterMaxSequence>>
      /\ UNCHANGED <<CommitSequence, ReserveSequence, log>> /\ UNCHANGED consumer
  BY DEF TouchLine, state
<1>3. UNCHANGED <<CommonData, pc, message, WriterFlagsPrevious>>  BY <1>2 DEF iterate
<1>4. k \in WrittenLines(record)  BY <1>1, <1>2 DEF WritingOK
<1>5. /\ LogOK' /\ MetadataOK' /\ LiveRecordsIntact'
      /\ ConsumerOK' /\ ConsumersGetWholeRecords'
      /\ data' \in [0 .. TotalLines - 1 -> LineType]
  BY <1>2, <1>4, WriteLineStep
<1>6. TypeOK'
  BY <1>1, <1>2, <1>3, <1>5 DEF TypeOK, consumer
<1>7. SequencesOK'  BY <1>1, <1>2, <1>3 DEF SequencesOK
<1>8. WritingOK'
  <2>1. \A l \in WrittenLines(record)' \ (untouched' \cup half') :
          data'[CurrentCacheLine + l] = Line(record, l)
    <3> TAKE l \in WrittenLines(record)' \ (untouched' \cup half')
    <3>1. l \in WrittenLines(record) \ (untouched \cup half) /\ l # k
      BY <1>2 DEF WrittenLines, CopiedLines
    <3>2. data[CurrentCacheLine + l] = Line(record, l)  BY <1>1, <1>2, <3>1 DEF WritingOK
    <3>3. /\ CurrentCacheLine + l \in 0 .. TotalLines - 1
          /\ k \in 0 .. record.lines - 1 /\ l \in 0 .. record.lines - 1
      BY <1>2, <1>4, <3>1, WrittenLineInArray
    <3>4. CurrentCacheLine + l # CurrentCacheLine + k
      BY <1>1, <3>1, <3>3 DEF TypeOK
    <3> QED  BY <1>1, <1>2, <3>2, <3>3, <3>4 DEF TypeOK
  <2>2. untouched' \cup half' \subseteq WrittenLines(record)'
    BY <1>1, <1>2, <1>4 DEF WritingOK, WrittenLines, CopiedLines
  <2>3. untouched' \cap half' = {}  BY <1>1, <1>2 DEF WritingOK
  <2> QED
    BY <1>1, <1>2, <1>3, <2>1, <2>2, <2>3 DEF WritingOK, WellPlaced, Line
<1>9. StateOK' /\ MaxSequenceOK'
  BY <1>1, <1>2, <1>3 DEF StateOK, MaxSequenceOK, FlagsOf
<1> QED  BY <1>5, <1>6, <1>7, <1>8, <1>9 DEF IInv

\* A line fully written stays as it is until the commit.
LEMMA FinishLineStep ==
  ASSUME IInv, NEW k \in half, FinishLine(k)
  PROVE  IInv'
<1>1. TypeOK /\ WritingOK /\ SequencesOK /\ StateOK /\ MaxSequenceOK  BY DEF IInv
<1>2. /\ pc = "write" /\ UNCHANGED iterate
      /\ data' = [data EXCEPT ![CurrentCacheLine + k] = Line(record, k)]
      /\ half' = half \ {k} /\ untouched' = untouched
      /\ UNCHANGED <<CurrentCacheLine, record, MaxSequenceValue>>
      /\ UNCHANGED <<WriterFlags, WriterSessionId, WriterMaxSequence>>
      /\ UNCHANGED <<CommitSequence, ReserveSequence, log>> /\ UNCHANGED consumer
  BY DEF FinishLine, state
<1>3. UNCHANGED <<CommonData, pc, message, WriterFlagsPrevious>>  BY <1>2 DEF iterate
<1>4. k \in WrittenLines(record)  BY <1>1, <1>2 DEF WritingOK
<1>5. /\ LogOK' /\ MetadataOK' /\ LiveRecordsIntact'
      /\ ConsumerOK' /\ ConsumersGetWholeRecords'
      /\ data' \in [0 .. TotalLines - 1 -> LineType]
  BY <1>2, <1>4, WriteLineStep
<1>6. TypeOK'
  BY <1>1, <1>2, <1>3, <1>5 DEF TypeOK, consumer
<1>7. SequencesOK'  BY <1>1, <1>2, <1>3 DEF SequencesOK
<1>8. WritingOK'
  <2>1. \A l \in WrittenLines(record)' \ (untouched' \cup half') :
          data'[CurrentCacheLine + l] = Line(record, l)
    <3> TAKE l \in WrittenLines(record)' \ (untouched' \cup half')
    <3>1. l \in WrittenLines(record) /\ (l = k \/ l \notin untouched \cup half)
      BY <1>2 DEF WrittenLines, CopiedLines
    <3>2. CurrentCacheLine + l \in 0 .. TotalLines - 1
      BY <1>2, <3>1, WrittenLineInArray
    <3>3. data \in [0 .. TotalLines - 1 -> LineType]  BY <1>1 DEF TypeOK
    <3>4. CASE l = k  BY <1>2, <3>2, <3>3, <3>4
    <3>5. CASE l # k
      <4>1. data[CurrentCacheLine + l] = Line(record, l)
        BY <1>1, <1>2, <3>1, <3>5 DEF WritingOK
      <4>2. k \in 0 .. record.lines - 1 /\ l \in 0 .. record.lines - 1
        BY <1>2, <1>4, <3>1, WrittenLineInArray
      <4>3. CurrentCacheLine + l # CurrentCacheLine + k
        BY <1>1, <3>5, <4>2 DEF TypeOK
      <4> QED  BY <1>2, <3>2, <3>3, <4>1, <4>3
    <3> QED  BY <3>4, <3>5
  <2>2. untouched' \cup half' \subseteq WrittenLines(record)'
    BY <1>1, <1>2, <1>4 DEF WritingOK, WrittenLines, CopiedLines
  <2>3. untouched' \cap half' = {}  BY <1>1, <1>2 DEF WritingOK
  <2> QED
    BY <1>1, <1>2, <1>3, <2>1, <2>2, <2>3 DEF WritingOK, WellPlaced, Line
<1>9. StateOK' /\ MaxSequenceOK'
  BY <1>1, <1>2, <1>3 DEF StateOK, MaxSequenceOK, FlagsOf
<1> QED  BY <1>5, <1>6, <1>7, <1>8, <1>9 DEF IInv

\* The heartbeat touches nothing but the maximal sequence number.
LEMMA WriteTimestampStep ==
  ASSUME IInv, WriteTimestampToSharedMemory
  PROVE  IInv'
<1>1. TypeOK /\ WritingOK /\ SequencesOK /\ StateOK /\ MaxSequenceOK  BY DEF IInv
<1>2. /\ pc = "heartbeat" /\ pc' = "idle"
      /\ WriterMaxSequence' \in {WriterMaxSequence, MaxSequenceValue}
      /\ UNCHANGED <<CommonData, message, WriterFlagsPrevious, WriterFlags,
                     WriterSessionId>>
      /\ UNCHANGED <<CurrentCacheLine, record, untouched, half, MaxSequenceValue>>
      /\ UNCHANGED <<CommitSequence, ReserveSequence, data, log>>
      /\ UNCHANGED <<section, consumer>>
  BY DEF WriteTimestampToSharedMemory, PublishedSequence, writing, section
<1>3. SectionOK' /\ ConsumerOK' /\ ConsumersGetWholeRecords'  BY <1>2, SectionFrame
<1>4. TypeOK'  BY <1>1, <1>2 DEF TypeOK, consumer
<1>5. SequencesOK' /\ WritingOK'  BY <1>1, <1>2 DEF SequencesOK, WritingOK
<1>6. StateOK'  BY <1>1, <1>2 DEF StateOK, FlagsOf
<1>7. MaxSequenceOK'  BY <1>1, <1>2 DEF MaxSequenceOK
<1> QED  BY <1>3, <1>4, <1>5, <1>6, <1>7 DEF IInv, SectionOK

\* Uninitialize leaves the data section to its consumers.
LEMMA UninitializeStep ==
  ASSUME IInv, Uninitialize
  PROVE  IInv'
<1>1. TypeOK /\ WritingOK /\ SequencesOK /\ StateOK /\ MaxSequenceOK  BY DEF IInv
<1>2. /\ pc = "idle" /\ pc' = "closed" /\ WriterFlags' = {"Shutdown"}
      /\ UNCHANGED <<CommonData, message, WriterFlagsPrevious, WriterSessionId,
                     WriterMaxSequence>>
      /\ UNCHANGED <<CurrentCacheLine, record, untouched, half, MaxSequenceValue>>
      /\ UNCHANGED <<CommitSequence, ReserveSequence, data, log>>
      /\ UNCHANGED <<section, consumer>>
  BY DEF Uninitialize, writing, section
<1>3. SectionOK' /\ ConsumerOK' /\ ConsumersGetWholeRecords'  BY <1>2, SectionFrame
<1>4. TypeOK'  BY <1>1, <1>2 DEF TypeOK, consumer, FlagsType
<1>5. SequencesOK' /\ WritingOK'  BY <1>1, <1>2 DEF SequencesOK, WritingOK
<1>6. StateOK' /\ MaxSequenceOK'  BY <1>1, <1>2 DEF StateOK, MaxSequenceOK
<1> QED  BY <1>3, <1>4, <1>5, <1>6 DEF IInv, SectionOK

\* A record that is committed is whole, and joins the log at its end.
LEMMA StoreCommitStep ==
  ASSUME IInv, StoreCommit
  PROVE  IInv'
<1>1. TypeOK /\ WritingOK /\ SequencesOK /\ StateOK /\ MaxSequenceOK
      /\ LogOK /\ MetadataOK /\ LiveRecordsIntact /\ ConsumerOK
      /\ ConsumersGetWholeRecords
  BY DEF IInv
<1>2. /\ pc = "write" /\ untouched = {} /\ half = {}
      /\ CommitSequence' = CommitSequence + record.lines
      /\ log' = Append(log, record)
      /\ UNCHANGED <<CommonData, message, WriterFlagsPrevious, untouched, half>>
      /\ UNCHANGED <<WriterFlags, WriterSessionId, WriterMaxSequence>>
      /\ UNCHANGED <<ReserveSequence, data>> /\ UNCHANGED consumer
  BY DEF StoreCommit, RecordDone, state
<1>3. /\ record \in RecordType /\ record.pos = CommitSequence /\ WellPlaced(record)
      /\ CurrentCacheLine = CommitSequence % TotalLines
      /\ message \in Messages
      /\ IsSkip(record) => CurrentCacheLine + record.lines = TotalLines
      /\ ReserveSequence = CommitSequence + record.lines
  BY <1>1, <1>2 DEF WritingOK, SequencesOK, TypeOK
<1>4. /\ CommitSequence \in Nat /\ record.lines \in Nat \ {0}
      /\ TotalLines \in Nat \ {0} /\ CommitSequence' \in Nat
  BY <1>1, <1>2, <1>3, MessagesAssumption DEF TypeOK, WellPlaced
<1>5. log \in Seq(RecordType)  BY <1>1 DEF TypeOK
<1>6. /\ log' \in Seq(RecordType) /\ Len(log') = Len(log) + 1 /\ Len(log) \in Nat
      /\ \A i \in 1 .. Len(log) : log'[i] = log[i]
      /\ log'[Len(log) + 1] = record
  BY <1>2, <1>3, <1>5, AppendProperties, LenProperties
<1>7. LogOK'
  <2>1. \A i \in 1 .. Len(log) + 1 : StartOf(i)' = StartOf(i)
    BY <1>3, <1>6 DEF StartOf
  <2>2. StartOf(1)' = 0  BY <1>1, <1>6, <2>1 DEF LogOK
  <2> SUFFICES ASSUME NEW i \in 1 .. Len(log')
               PROVE  /\ WellPlaced(log'[i])
                      /\ log'[i].pos + log'[i].lines = StartOf(i + 1)'
                      /\ log'[i].pos + log'[i].lines <= CommitSequence'
    BY <2>2 DEF LogOK, WellPlaced
  <2>3. CASE i = Len(log) + 1
    <3>1. log'[i] = record  BY <1>6, <2>3
    <3>2. StartOf(i + 1)' = CommitSequence'  BY <1>6, <2>3 DEF StartOf
    <3> QED  BY <1>2, <1>3, <1>4, <3>1, <3>2
  <2>4. CASE i # Len(log) + 1
    <3>1. i \in 1 .. Len(log) /\ i + 1 \in 1 .. Len(log) + 1  BY <1>6, <2>4
    <3>2. log'[i] = log[i] /\ StartOf(i + 1)' = StartOf(i + 1)  BY <1>6, <2>1, <3>1
    <3>3. log[i] \in RecordType  BY <1>5, <3>1, ElementOfSeq
    <3>4. WellPlaced(log[i]) /\ log[i].pos + log[i].lines = StartOf(i + 1)
          /\ log[i].pos + log[i].lines <= CommitSequence
      BY <1>1, <3>1 DEF LogOK
    <3>5. log[i].pos + log[i].lines <= CommitSequence'
      BY <1>2, <1>4, <3>3, <3>4 DEF RecordType
    <3> QED  BY <3>2, <3>4, <3>5
  <2> QED  BY <2>3, <2>4
<1>8. MetadataOK'  BY <1>1, <1>2 DEF MetadataOK
<1>9. LiveRecordsIntact'
  <2> SUFFICES ASSUME NEW i \in 1 .. Len(log'), ReserveSequence - log'[i].pos <= TotalLines,
                      NEW k \in WrittenLines(log'[i])
               PROVE  data[(log'[i].pos % TotalLines) + k] = Line(log'[i], k)
    BY <1>2 DEF LiveRecordsIntact, WrittenLines, CopiedLines, Line
  <2>1. CASE i = Len(log) + 1
    BY <1>1, <1>2, <1>3, <1>6, <2>1 DEF WritingOK
  <2>2. CASE i # Len(log) + 1
    <3>1. i \in 1 .. Len(log)  BY <1>6, <2>2
    <3> QED  BY <1>1, <1>6, <3>1 DEF LiveRecordsIntact
  <2> QED  BY <2>1, <2>2
<1>10. ConsumerOK' /\ ConsumersGetWholeRecords'
  <2>1. UNCHANGED <<reader, position, copied, wanted, got, index>>  BY <1>2 DEF consumer
  <2>2. index \in 1 .. Len(log) + 1  BY <1>1 DEF ConsumerOK
  <2>3. StartOf(index)' = StartOf(index)  BY <1>3, <1>6, <2>1, <2>2 DEF StartOf
  <2>4. reader # "poll" => index \in 1 .. Len(log) /\ log'[index] = log[index]
    BY <1>1, <1>6, <2>2 DEF ConsumerOK
  <2>5. StillUnclaimed' <=> StillUnclaimed  BY <1>2, <2>1 DEF StillUnclaimed
  <2>6. ConsumerOK'
    <3>1. index' \in 1 .. Len(log') + 1 /\ position' = StartOf(index)'
      BY <1>1, <1>6, <2>1, <2>2, <2>3 DEF ConsumerOK
    <3>2. reader' # "poll" => index' <= Len(log')
      BY <1>1, <1>6, <2>1, <2>2 DEF ConsumerOK
    <3>3. reader' = "copy" /\ StillUnclaimed' =>
             /\ wanted = IF copied = <<>> THEN 1 ELSE CopiedLines(log'[index])
             /\ Len(copied) <= wanted
             /\ \A k \in 1 .. Len(copied) : copied[k] = Line(log'[index], k - 1)
      BY <1>1, <2>1, <2>4, <2>5 DEF ConsumerOK
    <3> QED
      BY <1>1, <2>1, <3>1, <3>2, <3>3 DEF ConsumerOK, Line, CopiedLines
  <2>7. ConsumersGetWholeRecords'
    <3>1. got[1] = "record" => index - 1 \in 1 .. Len(log)
      BY <1>1, <1>6, <2>2 DEF ConsumerOK
    <3> QED  BY <1>1, <1>6, <2>1, <3>1 DEF ConsumersGetWholeRecords
  <2> QED  BY <2>6, <2>7
<1>11. CASE IsSkip(record)
  <2>1. /\ CurrentCacheLine' = 0 /\ pc' = "reserve"
        /\ record' = MessageRecord(CommitSequence + record.lines, message, CommonData)
        /\ MaxSequenceValue' = MaxSequenceValue
    BY <1>11 DEF StoreCommit
  <2>2. CommitSequence' % TotalLines = 0
    <3>1. record.lines = TotalLines - (CommitSequence % TotalLines)
      <4>1. CommitSequence % TotalLines \in 0 .. TotalLines - 1  BY <1>4, LineInArray
      <4> QED  BY <1>3, <1>4, <1>11, <4>1
    <3>2. (CommitSequence + (TotalLines - (CommitSequence % TotalLines))) % TotalLines = 0
      BY <1>4, ModEnd
    <3> QED  BY <1>2, <3>1, <3>2
  <2>3. /\ LinesOf(message) \in Nat \ {0} /\ LinesOf(message) <= TotalLines
        /\ message \in Nat \ {0}
    BY <1>3, LinesPositive
  <2>4. /\ record' \in RecordType /\ record'.pos = CommitSequence'
        /\ record'.lines = LinesOf(message) /\ record'.bytes = message
    BY <1>1, <1>2, <1>3, <1>4, <2>1, <2>3
       DEF MessageRecord, RecordType, TypeOK, CommonType
  <2>5. WellPlaced(record')
    <3> DEFINE first == record'.pos % TotalLines
    <3>1. first = 0  BY <2>2, <2>4
    <3> HIDE DEF first
    <3>2. first + record'.lines <= TotalLines  BY <1>4, <2>3, <2>4, <3>1
    <3> QED  BY <2>3, <2>4, <3>2 DEF WellPlaced, first
  <2>6. TypeOK'
    BY <1>1, <1>2, <1>4, <1>6, <2>1, <2>4 DEF TypeOK, consumer
  <2>7. SequencesOK'
    BY <1>2, <1>3, <1>4, <2>1 DEF SequencesOK
  <2>8. WritingOK'
    BY <1>2, <1>3, <2>1, <2>2, <2>3, <2>4, <2>5 DEF WritingOK, WellPlaced
  <2>9. StateOK'  BY <1>1, <1>2, <2>1 DEF StateOK, FlagsOf
  <2>10. MaxSequenceOK'
    BY <1>1, <1>2, <1>6, <2>1 DEF MaxSequenceOK
  <2> QED
    BY <1>7, <1>8, <1>9, <1>10, <2>6, <2>7, <2>8, <2>9, <2>10 DEF IInv
<1>12. CASE ~IsSkip(record)
  <2>1. /\ MaxSequenceValue' = record.seq /\ pc' = "heartbeat"
        /\ CurrentCacheLine' = CurrentCacheLine /\ record' = record
    BY <1>12 DEF StoreCommit
  <2>2. TypeOK'
    BY <1>1, <1>2, <1>3, <1>4, <1>6, <2>1 DEF TypeOK, consumer, RecordType
  <2>3. SequencesOK'  BY <1>2, <1>3, <1>4, <2>1 DEF SequencesOK
  <2>4. WritingOK'  BY <1>1, <1>2, <2>1 DEF WritingOK
  <2>5. StateOK'  BY <1>1, <1>2, <2>1 DEF StateOK, FlagsOf
  <2>6. MaxSequenceOK'
    <3>1. Len(log) + 1 \in 1 .. Len(log')  BY <1>6
    <3>2. ~IsSkip(log'[Len(log) + 1]) /\ log'[Len(log) + 1].seq = MaxSequenceValue'
      BY <1>6, <1>12, <2>1
    <3> QED  BY <3>1, <3>2 DEF MaxSequenceOK
  <2> QED  BY <1>7, <1>8, <1>9, <1>10, <2>2, <2>3, <2>4, <2>5, <2>6 DEF IInv
<1> QED  BY <1>11, <1>12

-----------------------------------------------------------------------------
(* The steps of the consumer.                                              *)

\* The record that a consumer which is not waiting stands at.
LEMMA RecordAtPosition ==
  ASSUME IInv, reader # "poll"
  PROVE  /\ index \in 1 .. Len(log) /\ log[index] \in RecordType
         /\ position = log[index].pos
         /\ log[index].lines \in Nat \ {0}
         /\ position + log[index].lines = StartOf(index + 1)
         /\ log[index] # NoRecord
<1>1. TypeOK /\ LogOK /\ ConsumerOK  BY DEF IInv
<1>2. index \in 1 .. Len(log)  BY <1>1 DEF ConsumerOK
<1>3. log[index] \in RecordType
  <2> DEFINE i == index
  <2>1. i \in 1 .. Len(log) /\ log \in Seq(RecordType)  BY <1>1, <1>2 DEF TypeOK
  <2> HIDE DEF i
  <2>2. log[i] \in RecordType  BY <2>1, ElementOfSeq
  <2> QED  BY <2>2 DEF i
<1>4. position = log[index].pos  BY <1>1, <1>2 DEF ConsumerOK, StartOf
<1>5. WellPlaced(log[index]) /\ log[index].pos + log[index].lines = StartOf(index + 1)
  BY <1>1, <1>2 DEF LogOK
<1>6. log[index] # NoRecord  BY <1>5 DEF WellPlaced, NoRecord
<1> QED  BY <1>2, <1>3, <1>4, <1>5, <1>6 DEF WellPlaced

\* A consumer starts to copy where a committed record starts.
LEMMA PollStep ==
  ASSUME IInv, Poll
  PROVE  IInv'
<1>1. TypeOK /\ ConsumerOK /\ ConsumersGetWholeRecords  BY DEF IInv
<1>2. /\ reader = "poll" /\ position < CommitSequence /\ reader' = "copy"
      /\ copied' = <<>> /\ wanted' = 1
      /\ UNCHANGED <<iterate, writing, state, section>>
      /\ UNCHANGED <<CommonData, pc, message, WriterFlagsPrevious>>
      /\ UNCHANGED <<CurrentCacheLine, record, untouched, half, MaxSequenceValue>>
      /\ UNCHANGED <<WriterFlags, WriterSessionId, WriterMaxSequence>>
      /\ UNCHANGED <<CommitSequence, ReserveSequence, data, log>>
      /\ UNCHANGED <<position, got, index>>
  BY DEF Poll, iterate, writing, state, section
<1>3. SequencesOK' /\ WritingOK' /\ StateOK' /\ MaxSequenceOK' /\ SectionOK'
  BY <1>2, WriterFrame
<1>4. TotalLines \in Nat \ {0} /\ position % TotalLines \in 0 .. TotalLines - 1
  BY <1>1, LineInArray, MessagesAssumption DEF TypeOK
<1>5. TypeOK'
  <2>1. copied' \in Seq(LineType)  BY <1>2, EmptySeq
  <2>2. wanted' \in 0 .. TotalLines  BY <1>2, <1>4
  <2> QED  BY <1>1, <1>2, <2>1, <2>2 DEF TypeOK
<1>6. index <= Len(log)
  <2>1. index \in 1 .. Len(log) + 1 /\ position = StartOf(index)  BY <1>1 DEF ConsumerOK
  <2>2. position # CommitSequence  BY <1>1, <1>2 DEF TypeOK
  <2> QED  BY <2>1, <2>2 DEF StartOf
<1>7. ConsumerOK'
  <2>1. Len(copied') = 0 /\ wanted' > 0  BY <1>2, EmptySeq
  <2>2. (position % TotalLines) + 1 <= TotalLines  BY <1>4
  <2> QED
    BY <1>1, <1>2, <1>6, <2>1, <2>2 DEF ConsumerOK, StartOf, StillUnclaimed
<1>8. ConsumersGetWholeRecords'  BY <1>1, <1>2 DEF ConsumersGetWholeRecords
<1> QED  BY <1>3, <1>5, <1>7, <1>8 DEF IInv, SectionOK

\* A line copied while the position is unclaimed is the line of the record.
LEMMA CopiesTheRecord ==
  ASSUME IInv, reader = "copy", StillUnclaimed, Len(copied) < wanted
  PROVE  data[(position % TotalLines) + Len(copied)] = Line(log[index], Len(copied))
<1>1. TypeOK /\ LiveRecordsIntact /\ ConsumerOK  BY DEF IInv
<1>2. /\ index \in 1 .. Len(log) /\ log[index] \in RecordType
      /\ position = log[index].pos /\ log[index].lines \in Nat \ {0}
  BY RecordAtPosition
<1>3. Len(copied) \in Nat  BY <1>1, LenProperties DEF TypeOK
<1>4. /\ CopiedLines(log[index]) \in Nat \ {0}
      /\ wanted = IF copied = <<>> THEN 1 ELSE CopiedLines(log[index])
  BY <1>1, <1>2, WrittenFacts DEF ConsumerOK
<1>5. Len(copied) < CopiedLines(log[index])
  <2>1. CASE copied = <<>>  BY <1>4, <2>1, EmptySeq
  <2>2. CASE copied # <<>>  BY <1>4, <2>2
  <2> QED  BY <2>1, <2>2
<1>6. Len(copied) \in WrittenLines(log[index])
  BY <1>3, <1>4, <1>5 DEF WrittenLines
<1>7. ReserveSequence - log[index].pos <= TotalLines  BY <1>2 DEF StillUnclaimed
<1> QED  BY <1>1, <1>2, <1>6, <1>7 DEF LiveRecordsIntact

\* A consumer never copies past the end of the array.
LEMMA CopyLineStep ==
  ASSUME IInv, CopyLine
  PROVE  IInv'
<1> DEFINE k    == Len(copied)
           at   == position % TotalLines
           line == data[at + k]
<1>1. TypeOK /\ MetadataOK /\ ConsumerOK /\ ConsumersGetWholeRecords  BY DEF IInv
<1>2. /\ reader = "copy" /\ k < wanted
      /\ copied' = Append(copied, line)
      /\ UNCHANGED <<iterate, writing, state, section>>
      /\ UNCHANGED <<CommonData, pc, message, WriterFlagsPrevious>>
      /\ UNCHANGED <<CurrentCacheLine, record, untouched, half, MaxSequenceValue>>
      /\ UNCHANGED <<WriterFlags, WriterSessionId, WriterMaxSequence>>
      /\ UNCHANGED <<CommitSequence, ReserveSequence, data, log>>
      /\ UNCHANGED <<reader, position, got, index>>
  BY DEF CopyLine, iterate, writing, state, section
<1>3. \/ k > 0 /\ wanted' = wanted
      \/ k = 0 /\ line.part = 0 /\ line.record # NoRecord
               /\ wanted' = CopiedLines(line.record)
      \/ k = 0 /\ (line.part # 0 \/ line.record = NoRecord)
               /\ wanted' \in 1 .. TotalLines - at
  BY DEF CopyLine
<1>4. SequencesOK' /\ WritingOK' /\ StateOK' /\ MaxSequenceOK' /\ SectionOK'
  BY <1>2, WriterFrame
<1>5. /\ TotalLines \in Nat \ {0} /\ at \in 0 .. TotalLines - 1
      /\ k \in Nat /\ wanted \in Nat /\ wanted > 0 /\ at + wanted <= TotalLines
  <2>1. TotalLines \in Nat \ {0} /\ position \in Nat /\ wanted \in Nat
        /\ copied \in Seq(LineType)
    BY <1>1, MessagesAssumption DEF TypeOK
  <2>2. at \in 0 .. TotalLines - 1  BY <2>1, LineInArray
  <2>3. k \in Nat  BY <2>1, LenProperties
  <2>4. wanted > 0 /\ at + wanted <= TotalLines  BY <1>1, <1>2 DEF ConsumerOK
  <2> QED  BY <2>1, <2>2, <2>3, <2>4
<1>6. at + k \in 0 .. TotalLines - 1
  <2> HIDE DEF at, k
  <2> QED  BY <1>2, <1>5
<1>7. line \in LineType  BY <1>1, <1>6 DEF TypeOK
<1>8. wanted' \in Nat /\ wanted' > 0 /\ at + wanted' <= TotalLines
  <2>1. CASE k > 0 /\ wanted' = wanted  BY <1>5, <2>1
  <2>2. CASE k = 0 /\ line.part = 0 /\ line.record # NoRecord
                  /\ wanted' = CopiedLines(line.record)
    <3>1. line.record.lines \in Nat \ {0} /\ (at + k) + line.record.lines <= TotalLines
      BY <1>1, <1>6, <2>2 DEF MetadataOK
    <3>2. line.record \in RecordType  BY <1>7 DEF LineType
    <3>3. wanted' \in Nat \ {0} /\ wanted' <= line.record.lines
      BY <2>2, <3>1, <3>2, WrittenFacts
    <3> HIDE DEF at, line
    <3> QED  BY <1>5, <2>2, <3>1, <3>3
  <2>3. CASE wanted' \in 1 .. TotalLines - at
    <3> DEFINE w == wanted'
    <3>1. w \in 1 .. TotalLines - at  BY <2>3
    <3> HIDE DEF at, w
    <3>2. w \in Nat /\ w > 0 /\ at + w <= TotalLines  BY <1>5, <3>1
    <3> QED  BY <3>2 DEF w
  <2> QED  BY <1>3, <2>1, <2>2, <2>3
<1>9. /\ copied' \in Seq(LineType) /\ Len(copied') = k + 1
      /\ \A i \in 1 .. k : copied'[i] = copied[i]
      /\ copied'[k + 1] = line
      /\ copied' # <<>>
  <2>1. copied \in Seq(LineType)  BY <1>1 DEF TypeOK
  <2>2. Len(copied') = k + 1  BY <1>2, <1>7, <2>1, AppendProperties
  <2> QED  BY <1>2, <1>5, <1>7, <2>1, <2>2, AppendProperties, EmptySeq
<1>10. TypeOK'
  <2>1. wanted' \in 0 .. TotalLines
    <3> DEFINE w == wanted'
    <3>1. w \in Nat /\ at + w <= TotalLines  BY <1>8
    <3> HIDE DEF at, w
    <3>2. w \in 0 .. TotalLines  BY <1>5, <3>1
    <3> QED  BY <3>2 DEF w
  <2> QED  BY <1>1, <1>2, <1>9, <2>1 DEF TypeOK
<1>11. ConsumerOK'
  <2>1. StillUnclaimed' <=> StillUnclaimed  BY <1>2 DEF StillUnclaimed
  <2>2. ASSUME StillUnclaimed
        PROVE  /\ wanted' = CopiedLines(log[index])
               /\ Len(copied') <= wanted'
               /\ \A i \in 1 .. Len(copied') : copied'[i] = Line(log[index], i - 1)
    <3>1. line = Line(log[index], k)  BY <1>2, <2>2, CopiesTheRecord
    <3>2. log[index] # NoRecord  BY <1>2, RecordAtPosition
    <3>3. /\ wanted = IF copied = <<>> THEN 1 ELSE CopiedLines(log[index])
          /\ \A i \in 1 .. k : copied[i] = Line(log[index], i - 1)
      BY <1>1, <1>2, <2>2 DEF ConsumerOK
    <3>4. wanted' = CopiedLines(log[index])
      <4>1. CASE k > 0
        <5>1. copied # <<>>  BY <4>1, EmptySeq
        <5> QED  BY <1>3, <3>3, <4>1, <5>1
      <4>2. CASE k = 0
        <5>1. line.part = 0 /\ line.record = log[index]  BY <3>1, <4>2 DEF Line
        <5> QED  BY <1>3, <3>2, <4>2, <5>1
      <4> QED  BY <1>5, <4>1, <4>2
    <3>5. Len(copied') <= wanted'
      <4>1. CopiedLines(log[index]) \in Nat \ {0}
        BY <1>2, RecordAtPosition, WrittenFacts
      <4>2. CASE k > 0
        <5>1. wanted' = wanted  BY <1>3, <4>2
        <5> QED  BY <1>2, <1>5, <1>9, <5>1
      <4>3. CASE k = 0  BY <1>9, <3>4, <4>1, <4>3
      <4> QED  BY <1>5, <4>2, <4>3
    <3>6. \A i \in 1 .. Len(copied') : copied'[i] = Line(log[index], i - 1)
      <4> TAKE i \in 1 .. Len(copied')
      <4>1. i \in 1 .. k \/ i = k + 1  BY <1>5, <1>9
      <4>2. CASE i \in 1 .. k  BY <1>9, <3>3, <4>2
      <4>3. CASE i = k + 1
        <5>1. i - 1 = k  BY <1>5, <4>3
        <5> QED  BY <1>9, <3>1, <4>3, <5>1
      <4> QED  BY <4>1, <4>2, <4>3
    <3> QED  BY <3>4, <3>5, <3>6
  <2>3. reader' = "copy" => wanted' > 0 /\ (position' % TotalLines) + wanted' <= TotalLines
    BY <1>2, <1>8
  <2>4. /\ index' \in 1 .. Len(log') + 1 /\ position' = StartOf(index)'
        /\ reader' # "poll" => index' <= Len(log')
        /\ got'[1] = "record" => index' > 1
    BY <1>1, <1>2 DEF ConsumerOK, StartOf
  <2>5. reader' = "copy" /\ StillUnclaimed' =>
          /\ wanted' = IF copied' = <<>> THEN 1 ELSE CopiedLines(log'[index'])
          /\ Len(copied') <= wanted'
          /\ \A i \in 1 .. Len(copied') : copied'[i] = Line(log'[index'], i - 1)
    BY <1>2, <1>9, <2>1, <2>2
  <2> QED  BY <2>3, <2>4, <2>5 DEF ConsumerOK, CopiedLines, Line
<1>12. ConsumersGetWholeRecords'  BY <1>1, <1>2 DEF ConsumersGetWholeRecords
<1> QED  BY <1>4, <1>10, <1>11, <1>12 DEF IInv, SectionOK

\* What was copied and is still unclaimed is the record at the position.
LEMMA ValidCopy ==
  ASSUME IInv, reader = "copy", StillUnclaimed, Len(copied) = wanted
  PROVE  IsRecord(copied) /\ copied[1].record = log[index]
<1>1. TypeOK /\ ConsumerOK  BY DEF IInv
<1>2. copied \in Seq(LineType) /\ Len(copied) \in Nat
  BY <1>1, LenProperties DEF TypeOK
<1>3. /\ wanted > 0
      /\ wanted = IF copied = <<>> THEN 1 ELSE CopiedLines(log[index])
      /\ \A i \in 1 .. Len(copied) : copied[i] = Line(log[index], i - 1)
  BY <1>1 DEF ConsumerOK
<1>4. copied # <<>>  BY <1>3, EmptySeq
<1>5. copied[1] = Line(log[index], 0)
  <2>1. 1 \in 1 .. Len(copied)  BY <1>2, <1>3
  <2> QED  BY <1>3, <2>1
<1>6. copied[1].record = log[index]  BY <1>5 DEF Line
<1>7. Len(copied) = CopiedLines(copied[1].record)  BY <1>3, <1>4, <1>6
<1> QED  BY <1>3, <1>4, <1>6, <1>7 DEF IsRecord

\* What a consumer takes for valid is the record it stands at.
LEMMA ValidateStep ==
  ASSUME IInv, Validate
  PROVE  IInv'
<1>1. TypeOK /\ LogOK /\ ConsumerOK /\ ConsumersGetWholeRecords  BY DEF IInv
<1>2. /\ reader = "copy" /\ Len(copied) = wanted
      /\ UNCHANGED <<iterate, writing, state, section>>
      /\ UNCHANGED <<CommonData, pc, message, WriterFlagsPrevious>>
      /\ UNCHANGED <<CurrentCacheLine, record, untouched, half, MaxSequenceValue>>
      /\ UNCHANGED <<WriterFlags, WriterSessionId, WriterMaxSequence>>
      /\ UNCHANGED <<CommitSequence, ReserveSequence, data, log>>
      /\ UNCHANGED <<copied, wanted>>
  BY DEF Validate, iterate, writing, state, section
<1>3. SequencesOK' /\ WritingOK' /\ StateOK' /\ MaxSequenceOK' /\ SectionOK'
  BY <1>2, WriterFrame
<1>4. CASE StillUnclaimed
  <2>1. /\ reader' = "poll"
        /\ got' = IF ~IsRecord(copied) THEN <<"damaged">>
                  ELSE IF IsSkip(copied[1].record) THEN <<"filler">>
                  ELSE <<"record", copied[1].record>>
        /\ position' = position + copied[1].record.lines
        /\ index' = index + 1
    BY <1>4 DEF Validate
  <2>2. IsRecord(copied) /\ copied[1].record = log[index]  BY <1>2, <1>4, ValidCopy
  <2>3. /\ index \in 1 .. Len(log) /\ log[index] \in RecordType
        /\ position = log[index].pos /\ log[index].lines \in Nat \ {0}
        /\ position + log[index].lines = StartOf(index + 1)
    BY <1>2, RecordAtPosition
  <2>4. got' = <<"filler">> \/ got' = <<"record", log[index]>>  BY <2>1, <2>2
  <2>5. Len(log) \in Nat /\ position \in Nat  BY <1>1, LenProperties DEF TypeOK
  <2>6. TypeOK'
    <3>1. position' \in Nat /\ index' \in Nat \ {0}  BY <2>1, <2>2, <2>3, <2>5
    <3>2. got' \in { <<"nothing">>, <<"filler">>, <<"lost">>, <<"damaged">> }
                      \cup ({"record"} \X RecordType)
      BY <2>3, <2>4
    <3> QED  BY <1>1, <1>2, <2>1, <3>1, <3>2 DEF TypeOK
  <2>7. ConsumerOK'
    <3>1. index' \in 1 .. Len(log') + 1 /\ index' > 1  BY <1>2, <2>1, <2>3, <2>5
    <3>2. position' = StartOf(index)'
      BY <1>2, <2>1, <2>2, <2>3 DEF StartOf
    <3> QED  BY <2>1, <3>1, <3>2 DEF ConsumerOK
  <2>8. ConsumersGetWholeRecords'
    <3>1. index' - 1 = index  BY <2>1, <2>3
    <3>2. got' # <<"damaged">>
      <4>1. got'[1] # "damaged"  BY <2>4
      <4> QED  BY <4>1
    <3>3. got'[1] = "record" => got'[2] = log'[index' - 1]
      BY <1>2, <2>4, <3>1
    <3> QED  BY <3>2, <3>3 DEF ConsumersGetWholeRecords
  <2> QED  BY <1>3, <2>6, <2>7, <2>8 DEF IInv, SectionOK
<1>5. CASE ~StillUnclaimed
  <2>1. reader' = "lost" /\ UNCHANGED <<got, position, index>>  BY <1>5 DEF Validate
  <2>2. TypeOK'  BY <1>1, <1>2, <2>1 DEF TypeOK
  <2>3. ConsumerOK'  BY <1>1, <1>2, <2>1 DEF ConsumerOK, StartOf
  <2>4. ConsumersGetWholeRecords'  BY <1>1, <1>2, <2>1 DEF ConsumersGetWholeRecords
  <2> QED  BY <1>3, <2>2, <2>3, <2>4 DEF IInv, SectionOK
<1> QED  BY <1>4, <1>5

\* After an overrun a consumer goes on at the end of a record.
LEMMA ResumeStep ==
  ASSUME IInv, Resume
  PROVE  IInv'
<1>1. TypeOK /\ ConsumerOK  BY DEF IInv
<1>2. /\ position' = CommitSequence /\ index' = Len(log) + 1
      /\ got' = <<"lost">> /\ reader' = "poll"
      /\ UNCHANGED <<iterate, writing, state, section>>
      /\ UNCHANGED <<CommonData, pc, message, WriterFlagsPrevious>>
      /\ UNCHANGED <<CurrentCacheLine, record, untouched, half, MaxSequenceValue>>
      /\ UNCHANGED <<WriterFlags, WriterSessionId, WriterMaxSequence>>
      /\ UNCHANGED <<CommitSequence, ReserveSequence, data, log>>
      /\ UNCHANGED <<copied, wanted>>
  BY DEF Resume, iterate, writing, state, section
<1>3. SequencesOK' /\ WritingOK' /\ StateOK' /\ MaxSequenceOK' /\ SectionOK'
  BY <1>2, WriterFrame
<1>4. Len(log) \in Nat  BY <1>1, LenProperties DEF TypeOK
<1>5. TypeOK'  BY <1>1, <1>2, <1>4 DEF TypeOK
<1>6. got'[1] # "record" /\ got'[1] # "damaged"  BY <1>2
<1>7. ConsumerOK'
  <2>1. index' \in 1 .. Len(log') + 1 /\ position' = StartOf(index)'
    BY <1>2, <1>4 DEF StartOf
  <2> QED  BY <1>2, <1>6, <2>1 DEF ConsumerOK
<1>8. ConsumersGetWholeRecords'
  <2>1. got' # <<"damaged">>  BY <1>6
  <2> QED  BY <1>6, <2>1 DEF ConsumersGetWholeRecords
<1> QED  BY <1>3, <1>5, <1>7, <1>8 DEF IInv, SectionOK

-----------------------------------------------------------------------------
(* The theorems.                                                           *)

\* No step of inserter or consumer breaks the invariant.
LEMMA NextIInv ==
  ASSUME IInv, [Next]_vars
  PROVE  IInv'
<1>1. CASE \E m \in Messages \cup {NoMessage}, common \in CommonType : Iterate(m, common)
  BY <1>1, IterateStep
<1>2. CASE StoreWriterFlags  BY <1>2, StoreWriterFlagsStep
<1>3. CASE WriteSessionIdToSharedMemory  BY <1>3, WriteSessionIdStep
<1>4. CASE StoreReserve  BY <1>4, StoreReserveStep
<1>5. CASE \E k \in untouched : TouchLine(k)  BY <1>5, TouchLineStep
<1>6. CASE \E k \in half : FinishLine(k)  BY <1>6, FinishLineStep
<1>7. CASE StoreCommit  BY <1>7, StoreCommitStep
<1>8. CASE WriteTimestampToSharedMemory  BY <1>8, WriteTimestampStep
<1>9. CASE Uninitialize  BY <1>9, UninitializeStep
<1>10. CASE Poll  BY <1>10, PollStep
<1>11. CASE CopyLine  BY <1>11, CopyLineStep
<1>12. CASE Validate  BY <1>12, ValidateStep
<1>13. CASE Resume  BY <1>13, ResumeStep
<1>14. CASE UNCHANGED vars
  <2>1. UNCHANGED <<iterate, writing, state, section>> /\ UNCHANGED consumer
    BY <1>14 DEF vars
  <2>2. SequencesOK' /\ WritingOK' /\ StateOK' /\ MaxSequenceOK' /\ SectionOK'
    BY <2>1, WriterFrame
  <2>3. ConsumerOK' /\ ConsumersGetWholeRecords'  BY <2>1, SectionFrame
  <2>4. TypeOK'
    BY <2>1 DEF IInv, TypeOK, iterate, writing, state, section, consumer
  <2> QED  BY <2>2, <2>3, <2>4 DEF IInv, SectionOK
<1> QED
  BY <1>1, <1>2, <1>3, <1>4, <1>5, <1>6, <1>7, <1>8, <1>9, <1>10, <1>11, <1>12,
     <1>13, <1>14 DEF Next, Writer, Consumer

\* The inductive invariant holds in every reachable state.
THEOREM InserterInvariant == Spec => []IInv
<1>1. Init => IInv  BY InitIInv
<1>2. IInv /\ [Next]_vars => IInv'  BY NextIInv
<1> QED  BY <1>1, <1>2, PTL DEF Spec

\* Every field of the inserter, of the shared memory and of a consumer keeps
\* its type: no line index leaves the array.
THEOREM InserterTypes == Spec => []TypeOK
<1>1. IInv => TypeOK  BY DEF IInv
<1> QED  BY <1>1, InserterInvariant, PTL

\* HandleSharedMemoryFrames never touches a committed record before the
\* reserve sequence has claimed its lines again.
THEOREM LiveRecords == Spec => []LiveRecordsIntact
<1>1. IInv => LiveRecordsIntact  BY DEF IInv
<1> QED  BY <1>1, InserterInvariant, PTL

\* A consumer that copies a record and then finds it unclaimed has the whole
\* record, the next one in the order of insertion.
THEOREM WholeRecords == Spec => []ConsumersGetWholeRecords
<1>1. IInv => ConsumersGetWholeRecords  BY DEF IInv
<1> QED  BY <1>1, InserterInvariant, PTL

\* Which steps move the commit sequence and the published maximal number.
LEMMA WhoStores ==
  ASSUME [Next]_vars
  PROVE  /\ CommitSequence' # CommitSequence => StoreCommit
         /\ WriterMaxSequence' # WriterMaxSequence => WriteTimestampToSharedMemory
BY DEF Next, Writer, Consumer, Iterate, StoreWriterFlags, WriteSessionIdToSharedMemory,
       StoreReserve, TouchLine, FinishLine, StoreCommit, WriteTimestampToSharedMemory,
       Uninitialize, Poll, CopyLine, Validate, Resume, vars, section, state

\* HandleSharedMemoryFrames makes a message visible only when
\* UpdateWriterFlags has stored flags and session id of the parser.
THEOREM PublishedSession == Spec => MessagesUnderPublishedSession
<1>1. ASSUME IInv, [Next]_vars
      PROVE  [CommitSequence' # CommitSequence =>
                /\ WriterFlags = FlagsOf(CommonData)
                /\ WriterSessionId = CommonData.SessionId]_vars
  <2> SUFFICES ASSUME CommitSequence' # CommitSequence
               PROVE  /\ WriterFlags = FlagsOf(CommonData)
                      /\ WriterSessionId = CommonData.SessionId
    OBVIOUS
  <2>1. pc = "write"  BY <1>1, WhoStores DEF StoreCommit
  <2> QED  BY <1>1, <2>1 DEF IInv, StateOK
<1> QED  BY <1>1, InserterInvariant, PTL DEF Spec, MessagesUnderPublishedSession

\* The heartbeat never publishes a sequence number that no committed message
\* carries, whatever the member held at the start.
THEOREM MaxSequenceCommitted == Spec => MaxSequenceIsCommitted
<1>1. ASSUME IInv, [Next]_vars
      PROVE  [WriterMaxSequence' # WriterMaxSequence =>
                \E i \in 1 .. Len(log) :
                  ~IsSkip(log[i]) /\ log[i].seq = WriterMaxSequence']_vars
  <2> SUFFICES ASSUME WriterMaxSequence' # WriterMaxSequence
               PROVE  \E i \in 1 .. Len(log) :
                        ~IsSkip(log[i]) /\ log[i].seq = WriterMaxSequence'
    OBVIOUS
  <2>1. WriterMaxSequence' = MaxSequenceValue
    BY <1>1, WhoStores DEF WriteTimestampToSharedMemory, PublishedSequence
  <2> QED  BY <1>1, <2>1 DEF IInv, MaxSequenceOK
<1> QED  BY <1>1, InserterInvariant, PTL DEF Spec, MaxSequenceIsCommitted

-----------------------------------------------------------------------------
(* The refinement.                                                         *)

\* Without these three a step is invisible to the log.
LEMMA InvisibleStep ==
  ASSUME UNCHANGED <<log, index, got>>
  PROVE  UNCHANGED Log!vars
BY DEF Log!vars, Contents, Got

\* The log as the consumer sees it.
LEMMA ContentsFacts ==
  ASSUME IInv
  PROVE  /\ Contents \in Seq(LogRecords) /\ Len(Contents) = Len(log)
         /\ Len(log) \in Nat
         /\ \A i \in 1 .. Len(log) : Contents[i] = Content(log[i])
<1>1. log \in Seq(RecordType) /\ Len(log) \in Nat  BY LenProperties DEF IInv, TypeOK
<1> DEFINE n == Len(log)
<1>2. \A i \in 1 .. n : Content(log[i]) \in LogRecords
  <2> TAKE i \in 1 .. n
  <2>1. log[i] \in RecordType  BY <1>1, ElementOfSeq
  <2> QED  BY <2>1 DEF Content, LogRecords, RecordType
<1>3. Contents = [i \in 1 .. n |-> Content(log[i])]  BY DEF Contents
<1> HIDE DEF n
<1>4. Contents \in Seq(LogRecords) /\ Len(Contents) = n
  <2>1. n \in Nat  BY <1>1 DEF n
  <2>2. Contents \in [1 .. n -> LogRecords]  BY <1>2, <1>3
  <2>3. Contents \in Seq(LogRecords)  BY <2>1, <2>2
  <2> QED  BY <2>1, <2>2, <2>3, LenProperties
<1> QED  BY <1>1, <1>3, <1>4 DEF n

\* A commit is the insertion of one record.
LEMMA CommitInserts ==
  ASSUME IInv, IInv', StoreCommit
  PROVE  Log!Insert(Content(record)) /\ Content(record) \in LogRecords
<1>1. /\ log' = Append(log, record) /\ record \in RecordType /\ log \in Seq(RecordType)
      /\ UNCHANGED <<index, got>>
  BY DEF StoreCommit, consumer, IInv, TypeOK
<1>2. Content(record) \in LogRecords  BY <1>1 DEF Content, LogRecords, RecordType
<1>3. /\ Len(log') = Len(log) + 1 /\ Len(log) \in Nat
      /\ \A i \in 1 .. Len(log) : log'[i] = log[i]
      /\ log'[Len(log) + 1] = record
  BY <1>1, AppendProperties, LenProperties
<1>4. /\ Contents \in Seq(LogRecords) /\ Len(Contents) = Len(log)
      /\ \A i \in 1 .. Len(log) : Contents[i] = Content(log[i])
  BY ContentsFacts
<1> DEFINE appended == Append(Contents, Content(record))
<1>5. /\ appended \in Seq(LogRecords) /\ Len(appended) = Len(log) + 1
      /\ \A i \in 1 .. Len(log) : appended[i] = Contents[i]
      /\ appended[Len(log) + 1] = Content(record)
  BY <1>2, <1>4, AppendProperties
<1>6. Contents' = [i \in 1 .. Len(log) + 1 |-> Content(log'[i])]
  BY <1>3 DEF Contents, Content
<1>7. Contents' \in Seq(LogRecords) /\ Len(Contents') = Len(log) + 1
  <2>1. (Contents \in Seq(LogRecords) /\ Len(Contents) = Len(log))'
    <3>1. \A i \in 1 .. Len(log) + 1 : Content(log'[i]) \in LogRecords
      <4> TAKE i \in 1 .. Len(log) + 1
      <4>1. CASE i = Len(log) + 1  BY <1>2, <1>3, <4>1
      <4>2. CASE i # Len(log) + 1
        <5>1. i \in 1 .. Len(log)  BY <1>3, <4>2
        <5>2. log[i] \in RecordType  BY <1>1, <5>1, ElementOfSeq
        <5> QED  BY <1>3, <5>1, <5>2 DEF Content, LogRecords, RecordType
      <4> QED  BY <4>1, <4>2
    <3> DEFINE n == Len(log) + 1
    <3>2. n \in Nat /\ Contents' = [i \in 1 .. n |-> Content(log'[i])]
          /\ \A i \in 1 .. n : Content(log'[i]) \in LogRecords
      BY <1>3, <1>6, <3>1
    <3> HIDE DEF n
    <3>3. Contents' \in [1 .. n -> LogRecords]  BY <3>2
    <3>4. Contents' \in Seq(LogRecords) /\ Len(Contents') = n  BY <3>2, <3>3, LenProperties
    <3> QED  BY <1>3, <3>4 DEF n
  <2> QED  BY <1>3, <2>1
<1>8. \A i \in 1 .. Len(log) + 1 : Contents'[i] = appended[i]
  <2> TAKE i \in 1 .. Len(log) + 1
  <2>1. CASE i = Len(log) + 1  BY <1>3, <1>5, <1>6, <2>1
  <2>2. CASE i # Len(log) + 1
    <3>1. i \in 1 .. Len(log)  BY <1>3, <2>2
    <3> QED  BY <1>3, <1>4, <1>5, <1>6, <3>1
  <2> QED  BY <2>1, <2>2
<1>9. Contents' = appended  BY <1>5, <1>7, <1>8, SeqEqual
<1>10. Got' = Got  BY <1>1 DEF Got
<1> QED  BY <1>1, <1>2, <1>9, <1>10 DEF Log!Insert

\* A copy found valid is the delivery of the next record.
LEMMA ValidateDelivers ==
  ASSUME IInv, Validate
  PROVE  Log!Deliver \/ Log!PassFiller \/ UNCHANGED Log!vars
<1>1. log' = log  BY DEF Validate, section
<1>2. Contents' = Contents  BY <1>1 DEF Contents
<1>3. CASE ~StillUnclaimed
  <2>1. UNCHANGED <<log, index, got>>  BY <1>1, <1>3 DEF Validate
  <2> QED  BY <2>1, InvisibleStep
<1>4. CASE StillUnclaimed
  <2>1. reader = "copy" /\ Len(copied) = wanted  BY DEF Validate
  <2>2. IsRecord(copied) /\ copied[1].record = log[index]  BY <1>4, <2>1, ValidCopy
  <2>3. index \in 1 .. Len(log)  BY <2>1, RecordAtPosition
  <2>4. Contents[index] = Content(log[index]) /\ Len(Contents) = Len(log)
    BY <2>3, ContentsFacts
  <2>5. /\ index' = index + 1
        /\ got' = IF IsSkip(log[index]) THEN <<"filler">> ELSE <<"record", log[index]>>
    BY <1>4, <2>2 DEF Validate
  <2>6. CASE IsSkip(log[index])
    <3>1. got' = <<"filler">>  BY <2>5, <2>6
    <3>2. Got' = <<"filler">>  BY <3>1 DEF Got
    <3>3. Log!Filler(Contents[index])  BY <2>4, <2>6 DEF Log!Filler, Content
    <3> QED  BY <1>2, <2>3, <2>4, <2>5, <3>2, <3>3 DEF Log!PassFiller
  <2>7. CASE ~IsSkip(log[index])
    <3>1. got' = <<"record", log[index]>>  BY <2>5, <2>7
    <3>2. Got' = <<"record", Content(log[index])>>  BY <3>1 DEF Got
    <3>3. ~Log!Filler(Contents[index])  BY <2>4, <2>7 DEF Log!Filler, Content
    <3> QED  BY <1>2, <2>3, <2>4, <2>5, <3>2, <3>3 DEF Log!Deliver
  <2> QED  BY <2>6, <2>7
<1> QED  BY <1>3, <1>4

\* A consumer that resumes has lost what was committed meanwhile.
LEMMA ResumeOverruns ==
  ASSUME IInv, Resume
  PROVE  Log!Overrun
<1>1. /\ reader = "lost" /\ log' = log /\ index' = Len(log) + 1 /\ got' = <<"lost">>
  BY DEF Resume, section
<1>2. index \in 1 .. Len(log)  BY <1>1, RecordAtPosition
<1>3. Contents' = Contents /\ Got' = <<"lost">>  BY <1>1 DEF Contents, Got
<1>4. Len(Contents) = Len(log)  BY ContentsFacts
<1> QED  BY <1>1, <1>2, <1>3, <1>4 DEF Log!Overrun

\* Every step of inserter and consumer is a step of the log, or invisible.
LEMMA StepImplementsLog ==
  ASSUME IInv, IInv', [Next]_vars
  PROVE  [Log!Next]_(Log!vars)
<1>1. CASE StoreCommit  BY <1>1, CommitInserts DEF Log!Next
<1>2. CASE Validate  BY <1>2, ValidateDelivers DEF Log!Next
<1>3. CASE Resume  BY <1>3, ResumeOverruns DEF Log!Next
<1>4. CASE ~(StoreCommit \/ Validate \/ Resume)
  <2>1. UNCHANGED <<log, index, got>>
    BY <1>4 DEF Next, Writer, Consumer, Iterate, StoreWriterFlags,
       WriteSessionIdToSharedMemory, StoreReserve, TouchLine, FinishLine,
       WriteTimestampToSharedMemory, Uninitialize, Poll, CopyLine, vars, section, consumer
  <2> QED  BY <2>1, InvisibleStep
<1> QED  BY <1>1, <1>2, <1>3, <1>4

\* The shared memory implements the log: a consumer gets every record whole,
\* in the order of insertion and at most once, or learns that it lost some.
THEOREM InserterImplementsLog == Spec => ImplementsLog
<1>1. Init => Log!Init
  <2> SUFFICES ASSUME Init PROVE Log!Init  OBVIOUS
  <2>1. log = <<>> /\ index = 1 /\ got = <<"nothing">> /\ Len(log) = 0
    BY EmptySeq DEF Init
  <2>2. Contents = <<>> /\ Got = <<"nothing">>  BY <2>1 DEF Contents, Got
  <2> QED  BY <2>1, <2>2 DEF Log!Init
<1>2. IInv /\ IInv' /\ [Next]_vars => [Log!Next]_(Log!vars)  BY StepImplementsLog
<1> QED  BY <1>1, <1>2, InserterInvariant, PTL DEF Spec, ImplementsLog, Log!Spec

=============================================================================
