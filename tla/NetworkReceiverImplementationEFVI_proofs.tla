------------- MODULE NetworkReceiverImplementationEFVI_proofs -------------
(***************************************************************************)
(* Proofs about NetworkReceiverImplementationEFVI, for every number of     *)
(* packet buffers, every size of the receive ring, of a poll and of        *)
(* RingBufferPtr0, and every set of packets.  That ring is used through    *)
(* the theorems about RingFIFOBuffer.                                      *)
(***************************************************************************)
EXTENDS NetworkReceiverImplementationEFVI, SequenceTheorems, FiniteSetTheorems, TLAPS

\* RingBufferPtr0, with its theorems.
RP == INSTANCE RingFIFOBuffer_proofs WITH Frames <- WholePackets

-----------------------------------------------------------------------------
(* The ring, through its theorems.                                          *)

\* The assumptions about sizes are those of the ring.
LEMMA RingAssumptions == RP!BufferAssumption /\ RP!FramesAssumption
BY PoolAssumption DEF RP!BufferAssumption, RP!FramesAssumption,
     Ring0!BufferAssumption, Ring0!FramesAssumption, Ring0!Lines, RP!Lines,
     Ring0!LinesOf, RP!LinesOf, Ring0!Next64Aligned, RP!Next64Aligned

\* Ring0 and RP are two instances of one module with the same substitution.
LEMMA SameRing ==
  /\ Ring0!Init <=> RP!Init
  /\ Ring0!IInv <=> RP!IInv
  /\ Ring0!IInv' <=> RP!IInv'
  /\ [Ring0!Next]_(Ring0!vars) <=> [RP!Next]_(RP!vars)
  /\ Ring0!Read <=> RP!Read
  /\ \A p \in WholePackets : Ring0!Write(p) <=> RP!Write(p)
  /\ Ring0!StoredFrames = RP!StoredFrames
  /\ Ring0!StoredFrames' = RP!StoredFrames'
BY DEF
      Ring0!Next64Aligned, RP!Next64Aligned, Ring0!LinesOf, RP!LinesOf,
      Ring0!Lines, RP!Lines, Ring0!indices, RP!indices, Ring0!vars, RP!vars,
      Ring0!NoSnap, RP!NoSnap, Ring0!NoFrame, RP!NoFrame, Ring0!Torn, RP!Torn,
      Ring0!Zero, RP!Zero, Ring0!Part, RP!Part, Ring0!Copied, RP!Copied,
      Ring0!Wrap, RP!Wrap, Ring0!End, RP!End, Ring0!UsedBy, RP!UsedBy,
      Ring0!Used, RP!Used, Ring0!At, RP!At, Ring0!LineAt, RP!LineAt,
      Ring0!Empty, RP!Empty, Ring0!Init, RP!Init, Ring0!Initialize,
      RP!Initialize, Ring0!Uninitialize, RP!Uninitialize, Ring0!first_run,
      RP!first_run, Ring0!capacity, RP!capacity, Ring0!Accepts, RP!Accepts,
      Ring0!Skipped, RP!Skipped, Ring0!Charged, RP!Charged, Ring0!HigherOf,
      RP!HigherOf, Ring0!LowerOf, RP!LowerOf, Ring0!RaiseMarks, RP!RaiseMarks,
      Ring0!Write, RP!Write, Ring0!WriteRefused, RP!WriteRefused,
      Ring0!AtSkip, RP!AtSkip, Ring0!ReadStart, RP!ReadStart, Ring0!ReadLen,
      RP!ReadLen, Ring0!ReadReleases, RP!ReadReleases, Ring0!Remaining,
      RP!Remaining, Ring0!Read, RP!Read, Ring0!ReadNothing, RP!ReadNothing,
      Ring0!Snap, RP!Snap, Ring0!Discard, RP!Discard, Ring0!GetCapacity,
      RP!GetCapacity, Ring0!Next, RP!Next, Ring0!SnapRecord, RP!SnapRecord,
      Ring0!TypeOK, RP!TypeOK, Ring0!Expected, RP!Expected, Ring0!IndicesOK,
      RP!IndicesOK, Ring0!OrderedOK, RP!OrderedOK, Ring0!SkipsOK, RP!SkipsOK,
      Ring0!SnapOK, RP!SnapOK, Ring0!Frame, RP!Frame, Ring0!First, RP!First,
      Ring0!StoredFramesIntact, RP!StoredFramesIntact, Ring0!NeverUndercounts,
      RP!NeverUndercounts, Ring0!StoredFrames, RP!StoredFrames, Ring0!IInv,
      RP!IInv

\* An initialized ring satisfies its invariant.
LEMMA RingStarts == Ring0!Init => Ring0!IInv
BY RingAssumptions, SameRing, RP!InitEstablishes

\* No operation of the ring breaks it.
LEMMA RingStep == Ring0!IInv /\ [Ring0!Next]_(Ring0!vars) => Ring0!IInv'
BY RingAssumptions, SameRing, RP!NextStep

\* An accepted Write stores the packet behind all others.
LEMMA RingWrite ==
  ASSUME Ring0!IInv, NEW p \in WholePackets, Ring0!Write(p)
  PROVE  Ring0!StoredFrames' = Append(Ring0!StoredFrames, p)
<1>1. RP!IInv /\ RP!Write(p)
  BY SameRing
<1>2. QED
  BY <1>1, RingAssumptions, SameRing, RP!WritePuts DEF RP!Queue!Put

\* Read takes the oldest packet.
LEMMA RingRead ==
  ASSUME Ring0!IInv, Ring0!Read
  PROVE  /\ Ring0!StoredFrames # <<>>
         /\ Ring0!StoredFrames' = Tail(Ring0!StoredFrames)
<1>1. RP!IInv /\ RP!Read
  BY SameRing
<1>2. QED
  BY <1>1, RingAssumptions, SameRing, RP!ReadGets DEF RP!Queue!Get

-----------------------------------------------------------------------------
(* Events that wait.                                                        *)

\* What is known of an event that gives a buffer back.
LEMMA EventFields ==
  ASSUME NEW e \in EventType, e.type # "other"
  PROVE  /\ e.type \in {"rx", "discard"} /\ e.buffer \in Buffers
         /\ e.start \in BOOLEAN /\ e.cont \in BOOLEAN /\ e.bytes \in Nat
BY DEF EventType

\* The events that wait, the polled ones first.
LEMMA PendingFacts ==
  ASSUME EfEventState \in Seq(EventType), event_queue \in Seq(EventType)
  PROVE  /\ Pending \in Seq(EventType)
         /\ Len(Pending) = Len(EfEventState) + Len(event_queue)
         /\ Len(Pending) \in Nat
         /\ \A i \in 1 .. Len(EfEventState) : Pending[i] = EfEventState[i]
         /\ \A i \in 1 .. Len(event_queue) :
              Pending[Len(EfEventState) + i] = event_queue[i]
         /\ \A i \in Rx(Pending) :
              i \in 1 .. Len(Pending) /\ Pending[i] \in EventType
                                      /\ Pending[i].type # "other"
BY ConcatProperties DEF Pending, Rx

\* The same, after a step.
LEMMA PendingFactsNext ==
  ASSUME EfEventState' \in Seq(EventType), event_queue' \in Seq(EventType)
  PROVE  /\ Pending' \in Seq(EventType)
         /\ Len(Pending') = Len(EfEventState') + Len(event_queue')
         /\ Len(Pending') \in Nat
         /\ \A i \in 1 .. Len(EfEventState') : Pending'[i] = EfEventState'[i]
         /\ \A i \in 1 .. Len(event_queue') :
              Pending'[Len(EfEventState') + i] = event_queue'[i]
         /\ \A i \in Rx(Pending)' :
              i \in 1 .. Len(Pending') /\ Pending'[i] \in EventType
                                       /\ Pending'[i].type # "other"
BY ConcatProperties DEF Pending, Rx

\* The first d events that wait are gone, the card did nothing to the others.
Dropped(d) ==
  /\ d \in Nat /\ d <= Len(Pending)
  /\ Pending' \in Seq(EventType)
  /\ Len(Pending') = Len(Pending) - d
  /\ \A i \in 1 .. Len(Pending') : Pending'[i] = Pending[i + d]
  /\ UNCHANGED <<content, arriving, arrivals>>

\* With the events that remain stays what holds of each and of neighbours.
LEMMA DropKeeps ==
  ASSUME IInv, NEW d, Dropped(d)
  PROVE  /\ EventsFaithful' /\ EventsContiguous' /\ NumbersOrdered'
         /\ InUse' = { Pending[i].buffer : i \in { i \in Rx(Pending) : i > d } }
         /\ \A i, j \in Rx(Pending)' : i # j => Pending'[i].buffer # Pending'[j].buffer
         /\ \A i \in Rx(Pending)' :
              i + d \in Rx(Pending) /\ Pending'[i] = Pending[i + d]
<1>1. /\ Pending \in Seq(EventType) /\ Len(Pending) \in Nat
      /\ \A i \in Rx(Pending) :
           i \in 1 .. Len(Pending) /\ Pending[i] \in EventType
                                   /\ Pending[i].type # "other"
  BY PendingFacts DEF IInv, TypeOK
<1>2. /\ d \in Nat /\ d <= Len(Pending)
      /\ Pending' \in Seq(EventType)
      /\ Len(Pending') = Len(Pending) - d
      /\ \A i \in 1 .. Len(Pending') : Pending'[i] = Pending[i + d]
      /\ UNCHANGED <<content, arriving, arrivals>>
  BY DEF Dropped
<1>3. \A i \in Rx(Pending)' :
        i \in 1 .. Len(Pending') /\ i + d \in Rx(Pending) /\ Pending'[i] = Pending[i + d]
  <2> SUFFICES ASSUME NEW i \in Rx(Pending)'
               PROVE  /\ i \in 1 .. Len(Pending')
                      /\ i + d \in Rx(Pending) /\ Pending'[i] = Pending[i + d]
    OBVIOUS
  <2>1. i \in 1 .. Len(Pending') /\ Pending'[i].type # "other"
    BY <1>2 DEF Rx
  <2>2. i + d \in 1 .. Len(Pending) /\ Pending'[i] = Pending[i + d]
    BY <1>1, <1>2, <2>1
  <2>3. QED
    BY <1>1, <2>1, <2>2 DEF Rx
<1>4. \A i \in Rx(Pending) :
        i > d => i - d \in Rx(Pending)' /\ Pending'[i - d] = Pending[i]
  <2> SUFFICES ASSUME NEW i \in Rx(Pending), i > d
               PROVE  i - d \in Rx(Pending)' /\ Pending'[i - d] = Pending[i]
    OBVIOUS
  <2>1. i \in 1 .. Len(Pending) /\ Pending[i].type # "other"
    BY <1>1
  <2>2. i - d \in 1 .. Len(Pending') /\ (i - d) + d = i
    BY <1>1, <1>2, <2>1
  <2>3. Pending'[i - d] = Pending[i]
    BY <1>2, <2>2
  <2>4. QED
    BY <1>2, <2>1, <2>2, <2>3 DEF Rx
<1>5. EventsFaithful'
  <2> SUFFICES ASSUME NEW i \in Rx(Pending)'
               PROVE  \E kind \in Kinds :
                        /\ Number(Pending[i])' \in 1 .. arrivals'
                        /\ Fragment(Pending[i])' \in 1 .. Len(kind.upto)
                        /\ Pending'[i].start = (Fragment(Pending[i])' = 1)
                        /\ Pending'[i].cont = (Fragment(Pending[i])' # Len(kind.upto))
                        /\ Pending'[i].bytes = kind.upto[Fragment(Pending[i])']
                        /\ Pending'[i].type = "rx" /\ ~Pending'[i].cont => ~kind.bad
                        /\ Pending'[i].type = "discard" => ~Pending'[i].cont
    BY DEF EventsFaithful, Number, Fragment
  <2>1. i + d \in Rx(Pending) /\ Pending'[i] = Pending[i + d]
    BY <1>3
  <2>2. QED
    BY <1>2, <2>1 DEF IInv, EventsFaithful, Number, Fragment
<1>6. EventsContiguous'
  <2>1. \A i \in 1 .. Len(Pending') - 1 : Follows(Pending[i], Pending[i + 1])'
    <3> SUFFICES ASSUME NEW i \in 1 .. Len(Pending') - 1
                 PROVE  Follows(Pending[i], Pending[i + 1])'
      OBVIOUS
    <3>1. /\ i + d \in 1 .. Len(Pending) - 1
          /\ Pending'[i] = Pending[i + d] /\ Pending'[i + 1] = Pending[(i + d) + 1]
      <4>1. i + 1 \in 1 .. Len(Pending') /\ i \in 1 .. Len(Pending')
        BY <1>1, <1>2
      <4>2. (i + 1) + d = (i + d) + 1
        BY <1>2
      <4>3. QED
        BY <1>1, <1>2, <4>1, <4>2
    <3>2. Follows(Pending[i + d], Pending[(i + d) + 1])
      BY <3>1 DEF IInv, EventsContiguous
    <3>3. QED
      BY <1>2, <3>1, <3>2 DEF Follows, Continued, Continues, Number, Fragment
  <2>2. ASSUME Pending' # <<>>
        PROVE  Pending # <<>> /\ Pending'[Len(Pending')] = Pending[Len(Pending)]
    BY <1>1, <1>2, <2>2
  <2>3. QED
    BY <1>2, <2>1, <2>2
       DEF IInv, EventsContiguous, Continued, InMiddle, Number, Fragment
<1>7. NumbersOrdered'
  <2>1. \A i, j \in Rx(Pending)' :
          i < j => IF Pending'[i].cont
                     THEN Number(Pending[i])' <= Number(Pending[j])'
                     ELSE Number(Pending[i])' < Number(Pending[j])'
    <3> SUFFICES ASSUME NEW i \in Rx(Pending)', NEW j \in Rx(Pending)', i < j
                 PROVE  IF Pending'[i].cont
                          THEN Number(Pending[i])' <= Number(Pending[j])'
                          ELSE Number(Pending[i])' < Number(Pending[j])'
      OBVIOUS
    <3>1. /\ i + d \in Rx(Pending) /\ j + d \in Rx(Pending) /\ i + d < j + d
          /\ Pending'[i] = Pending[i + d] /\ Pending'[j] = Pending[j + d]
      BY <1>2, <1>3
    <3>2. QED
      BY <1>2, <3>1 DEF IInv, NumbersOrdered, Number
  <2>2. ASSUME arriving' # NoPacket, NEW i \in Rx(Pending)', ~Pending'[i].cont
        PROVE  Number(Pending[i])' < arriving'.number
    <3>1. i + d \in Rx(Pending) /\ Pending'[i] = Pending[i + d]
      BY <1>3
    <3>2. QED
      BY <1>2, <2>2, <3>1 DEF IInv, NumbersOrdered, Number, NoPacket
  <2>3. QED
    BY <2>1, <2>2 DEF NumbersOrdered, NoPacket
<1>8. InUse' = { Pending[i].buffer : i \in { i \in Rx(Pending) : i > d } }
  <2>1. InUse' = { Pending'[i].buffer : i \in Rx(Pending)' }
    BY DEF InUse
  <2>2. ASSUME NEW i \in Rx(Pending)'
        PROVE  i + d \in Rx(Pending) /\ i + d > d
               /\ Pending'[i].buffer = Pending[i + d].buffer
    BY <1>2, <1>3
  <2>3. ASSUME NEW i \in Rx(Pending), i > d
        PROVE  i - d \in Rx(Pending)' /\ Pending'[i - d].buffer = Pending[i].buffer
    BY <1>4, <2>3
  <2>4. QED
    BY <2>1, <2>2, <2>3
<1>9. \A i, j \in Rx(Pending)' : i # j => Pending'[i].buffer # Pending'[j].buffer
  <2> SUFFICES ASSUME NEW i \in Rx(Pending)', NEW j \in Rx(Pending)', i # j
               PROVE  Pending'[i].buffer # Pending'[j].buffer
    OBVIOUS
  <2>1. /\ i + d \in Rx(Pending) /\ j + d \in Rx(Pending) /\ i + d # j + d
        /\ Pending'[i] = Pending[i + d] /\ Pending'[j] = Pending[j + d]
    BY <1>2, <1>3
  <2>2. QED
    BY <2>1 DEF IInv, BuffersConserved
<1>10. QED
  BY <1>3, <1>5, <1>6, <1>7, <1>8, <1>9

\* Events that go or come count in the fill level if they bring a buffer back.
LEMMA RxFinite ==
  ASSUME NEW s \in Seq(EventType)
  PROVE  IsFiniteSet(Rx(s)) /\ Cardinality(Rx(s)) \in Nat /\ Rx(s) \subseteq 1 .. Len(s)
<1>1. Rx(s) \subseteq 1 .. Len(s) /\ IsFiniteSet(1 .. Len(s))
  BY FS_Interval DEF Rx
<1>2. QED
  BY <1>1, FS_Subset, FS_CardinalityType

\* An event that comes.
LEMMA RxOfAppend ==
  ASSUME NEW s \in Seq(EventType), NEW e \in EventType
  PROVE  /\ Rx(Append(s, e)) = IF e.type = "other" THEN Rx(s)
                                 ELSE Rx(s) \cup {Len(s) + 1}
         /\ Cardinality(Rx(Append(s, e)))
              = Cardinality(Rx(s)) + IF e.type = "other" THEN 0 ELSE 1
<1>1. /\ Len(Append(s, e)) = Len(s) + 1
      /\ DOMAIN s = 1 .. Len(s) /\ DOMAIN Append(s, e) = 1 .. Len(s) + 1
      /\ \A i \in 1 .. Len(s) : Append(s, e)[i] = s[i]
      /\ Append(s, e)[Len(s) + 1] = e
      /\ Len(s) \in Nat
  BY AppendProperties
<1>2. Rx(Append(s, e)) = IF e.type = "other" THEN Rx(s) ELSE Rx(s) \cup {Len(s) + 1}
  BY <1>1 DEF Rx
<1>3. Len(s) + 1 \notin Rx(s)
  BY <1>1, RxFinite
<1>4. Cardinality(Rx(s) \cup {Len(s) + 1}) = Cardinality(Rx(s)) + 1
  <2>1. IsFiniteSet(Rx(s))
    BY RxFinite
  <2>2. QED
    BY <1>3, <2>1, FS_AddElement
<1>5. QED
  BY <1>2, <1>4, RxFinite

\* Events that go are those at the front.
LEMMA RxOfSuffix ==
  ASSUME NEW s \in Seq(EventType), NEW n \in 0 .. Len(s)
  PROVE  Cardinality(Rx(SubSeq(s, n + 1, Len(s)))) <= Cardinality(Rx(s))
<1> DEFINE t == SubSeq(s, n + 1, Len(s))
           f == [i \in Rx(t) |-> i + n]
<1>1. /\ t \in Seq(EventType) /\ Len(t) = Len(s) - n
      /\ \A i \in 1 .. Len(s) - n : t[i] = s[i + n]
  <2>1. n + 1 \in 1 .. Len(s) + 1 /\ Len(s) \in Nat
    OBVIOUS
  <2>2. QED
    BY <2>1, SubSeqProperties
<1>2. \A i \in Rx(t) : i \in 1 .. Len(s) - n /\ i + n \in Rx(s)
  <2> SUFFICES ASSUME NEW i \in Rx(t)
               PROVE  i \in 1 .. Len(s) - n /\ i + n \in Rx(s)
    OBVIOUS
  <2>1. i \in 1 .. Len(s) - n /\ t[i].type # "other"
    BY <1>1 DEF Rx
  <2>2. i + n \in 1 .. Len(s) /\ s[i + n].type # "other"
    BY <1>1, <2>1
  <2>3. QED
    BY <2>2 DEF Rx
<1>3. f \in Injection(Rx(t), Rx(s))
  BY <1>2 DEF Injection, IsInjective
<1>4. QED
  BY <1>3, RxFinite, FS_Injection

-----------------------------------------------------------------------------
(* Buffers.                                                                 *)

\* A list without repetitions is as long as its set is large.
LEMMA ListSize ==
  ASSUME NEW s \in Seq(Buffers), IsInjective(s)
  PROVE  IsFiniteSet(ToSet(s)) /\ Cardinality(ToSet(s)) = Len(s)
<1>1. s \in Bijection(1 .. Len(s), ToSet(s))
  BY DEF Bijection, Injection, Surjection, ToSet, IsInjective
<1>2. IsFiniteSet(1 .. Len(s)) /\ Cardinality(1 .. Len(s)) = Len(s)
  <2>1. Len(s) \in Nat /\ 1 \in Int /\ Len(s) \in Int
    BY LenProperties
  <2>2. /\ IsFiniteSet(1 .. Len(s))
        /\ Cardinality(1 .. Len(s)) = IF 1 > Len(s) THEN 0 ELSE Len(s) - 1 + 1
    BY <2>1, FS_Interval
  <2>3. QED
    BY <2>1, <2>2
<1>3. QED
  BY <1>1, <1>2, FS_Bijection DEF ExistsBijection

\* The sizes of sets without a common element add up.
LEMMA DisjointUnion ==
  ASSUME NEW S, NEW T, IsFiniteSet(S), IsFiniteSet(T), S \cap T = {}
  PROVE  /\ IsFiniteSet(S \cup T)
         /\ Cardinality(S \cup T) = Cardinality(S) + Cardinality(T)
<1>1. Cardinality(S \cap T) = 0
  BY FS_EmptySet
<1>2. /\ IsFiniteSet(S \cup T)
      /\ Cardinality(S \cup T)
           = Cardinality(S) + Cardinality(T) - Cardinality(S \cap T)
  BY FS_Union
<1>3. Cardinality(S) \in Nat /\ Cardinality(T) \in Nat
  BY FS_CardinalityType
<1>4. QED
  BY <1>1, <1>2, <1>3

\* As long as no polled event waits, every buffer is in the pool or counted by
\* the fill level.
LEMMA PoolAndFillLevel ==
  ASSUME TypeOK, BuffersConserved, Running, EfEventState = <<>>
  PROVE  Len(free_pool) + FillLevel = PKT_POOL_SIZE
<1>1. Pending = event_queue /\ event_queue \in Seq(EventType)
  BY ConcatEmptySeq DEF TypeOK, Pending
<1>2. /\ IsFiniteSet(Free) /\ Cardinality(Free) = Len(free_pool)
      /\ IsFiniteSet(Posted) /\ Cardinality(Posted) = Len(rx_ring)
  BY ListSize DEF TypeOK, BuffersConserved, Free, Posted
<1>3. IsFiniteSet(InUse) /\ Cardinality(InUse) = Cardinality(Rx(event_queue))
  <2> DEFINE f == [i \in Rx(Pending) |-> Pending[i].buffer]
  <2>1. f \in Bijection(Rx(Pending), InUse)
    BY DEF BuffersConserved, InUse, Bijection, Injection, Surjection, IsInjective
  <2>2. IsFiniteSet(Rx(Pending))
    BY <1>1, RxFinite
  <2>3. QED
    BY <1>1, <2>1, <2>2, FS_Bijection DEF ExistsBijection
<1>4. /\ Cardinality(Rx(event_queue)) \in Nat
      /\ Len(free_pool) \in Nat /\ Len(rx_ring) \in Nat
  <2>1. free_pool \in Seq(Buffers) /\ rx_ring \in Seq(Buffers)
    BY DEF TypeOK
  <2>2. QED
    BY <1>1, <2>1, RxFinite, LenProperties
<1>5. /\ IsFiniteSet(Free \cup Posted)
      /\ Cardinality(Free \cup Posted) = Len(free_pool) + Len(rx_ring)
  <2>1. Free \cap Posted = {}
    BY DEF BuffersConserved
  <2>2. QED
    BY <1>2, <2>1, DisjointUnion
<1>6. Cardinality((Free \cup Posted) \cup InUse)
        = Len(free_pool) + Len(rx_ring) + Cardinality(Rx(event_queue))
  <2>1. (Free \cup Posted) \cap InUse = {}
    BY DEF BuffersConserved
  <2>2. Cardinality((Free \cup Posted) \cup InUse)
          = Cardinality(Free \cup Posted) + Cardinality(InUse)
    BY <1>3, <1>4, <1>5, <2>1, DisjointUnion, Zenon
  <2>3. QED
    BY <1>3, <1>5, <2>2
<1>7. Cardinality(Buffers) = PKT_POOL_SIZE
  BY PoolAssumption, FS_Interval DEF Buffers
<1>8. Free \cup Posted \cup InUse = Buffers
  BY DEF BuffersConserved
<1>9. QED
  <2>1. Cardinality((Free \cup Posted) \cup InUse) = PKT_POOL_SIZE
    BY <1>7, <1>8
  <2>2. FillLevel = Len(rx_ring) + Cardinality(Rx(event_queue))
    BY DEF FillLevel, FillOf
  <2>3. QED
    BY <1>4, <1>6, <2>1, <2>2

\* What a refill takes is never more than the receive ring has room for.
LEMMA RefillFits ==
  ASSUME NEW fill \in 0 .. RxCapacity, RxCapacity - fill >= REFILL_BATCH_SIZE,
         NEW n \in 1 .. RxCapacity, StopsAfter(n, fill)
  PROVE  /\ n * REFILL_BATCH_SIZE \in Nat \ {0}
         /\ fill + n * REFILL_BATCH_SIZE <= RxCapacity
<1>1. /\ REFILL_BATCH_SIZE \in Nat \ {0} /\ RxCapacity \in Nat /\ n \in Nat \ {0}
      /\ n * REFILL_BATCH_SIZE \in Nat \ {0}
  BY PoolAssumption
<1>2. CASE n = 1
  BY <1>1, <1>2
<1>3. CASE n # 1
  <2>1. fill + (n - 1) * REFILL_BATCH_SIZE < RxCapacity - REFILL_BATCH_SIZE
    BY <1>3 DEF StopsAfter, RefillLevel
  <2>2. (n - 1) * REFILL_BATCH_SIZE = n * REFILL_BATCH_SIZE - REFILL_BATCH_SIZE
    BY <1>1
  <2>3. QED
    BY <1>1, <2>1, <2>2
<1>4. QED
  BY <1>2, <1>3

-----------------------------------------------------------------------------
(* Packets.                                                                 *)

\* The event that is handled is the first of those that wait.
LEMMA HeadEvent ==
  ASSUME IInv, pc = "events"
  PROVE  /\ EfEventState # <<>> /\ Running
         /\ Len(EfEventState) \in Nat \ {0} /\ Len(Pending) \in Nat \ {0}
         /\ event \in EventType /\ event = Pending[1]
         /\ Tail(EfEventState) \in Seq(EventType)
         /\ Len(Tail(EfEventState)) = Len(EfEventState) - 1
         /\ event.type # "other" => 1 \in Rx(Pending)
<1>1. EfEventState # <<>> /\ EfEventState \in Seq(EventType) /\ Running
  BY DEF IInv, TypeOK, ErrorEndsPass
<1>2. Len(EfEventState) \in Nat \ {0}
  BY <1>1, EmptySeq, LenProperties
<1>3. event \in EventType /\ event = EfEventState[1]
  BY <1>1, HeadTailProperties DEF event
<1>4. /\ Tail(EfEventState) \in Seq(EventType)
      /\ Len(Tail(EfEventState)) = Len(EfEventState) - 1
  BY <1>1, HeadTailProperties
<1>5. /\ Pending \in Seq(EventType) /\ Len(Pending) \in Nat \ {0}
      /\ event = Pending[1] /\ DOMAIN Pending = 1 .. Len(Pending)
  <2>1. event_queue \in Seq(EventType) /\ Len(event_queue) \in Nat
    BY LenProperties DEF IInv, TypeOK
  <2>2. /\ Pending \in Seq(EventType)
        /\ Len(Pending) = Len(EfEventState) + Len(event_queue)
        /\ \A i \in 1 .. Len(EfEventState) : Pending[i] = EfEventState[i]
    BY <1>1, <2>1, PendingFacts
  <2>3. QED
    BY <1>2, <1>3, <2>1, <2>2
<1>6. event.type # "other" => 1 \in Rx(Pending)
  BY <1>5 DEF Rx
<1>7. QED
  BY <1>1, <1>2, <1>3, <1>4, <1>5, <1>6

\* Handling it drops it.
LEMMA HandledIsDropped ==
  ASSUME IInv, pc = "events", EfEventState' = Tail(EfEventState), UNCHANGED card
  PROVE  Dropped(1)
<1>1. /\ EfEventState \in Seq(EventType) /\ event_queue \in Seq(EventType)
      /\ EfEventState' \in Seq(EventType) /\ event_queue' = event_queue
      /\ Len(EfEventState') = Len(EfEventState) - 1
      /\ Len(EfEventState) \in Nat \ {0}
      /\ \A i \in 1 .. Len(EfEventState') : EfEventState'[i] = EfEventState[i + 1]
  BY HeadEvent, HeadTailProperties DEF IInv, TypeOK, card
<1>2. Len(event_queue) \in Nat
  BY <1>1, LenProperties
<1>3. /\ Len(Pending) = Len(EfEventState) + Len(event_queue)
      /\ \A i \in 1 .. Len(EfEventState) : Pending[i] = EfEventState[i]
      /\ \A i \in 1 .. Len(event_queue) : Pending[Len(EfEventState) + i] = event_queue[i]
  BY <1>1, PendingFacts
<1>4. /\ Pending' \in Seq(EventType)
      /\ Len(Pending') = Len(EfEventState') + Len(event_queue')
      /\ \A i \in 1 .. Len(EfEventState') : Pending'[i] = EfEventState'[i]
      /\ \A i \in 1 .. Len(event_queue') :
           Pending'[Len(EfEventState') + i] = event_queue'[i]
  BY <1>1, PendingFactsNext
<1>5. ASSUME NEW i \in 1 .. Len(Pending') PROVE Pending'[i] = Pending[i + 1]
  <2>1. CASE i <= Len(EfEventState')
    BY <1>1, <1>2, <1>3, <1>4, <2>1
  <2>2. CASE i > Len(EfEventState')
    <3> DEFINE j == i - Len(EfEventState')
    <3>1. j \in 1 .. Len(event_queue) /\ i = Len(EfEventState') + j
          /\ i + 1 = Len(EfEventState) + j
      BY <1>1, <1>2, <1>4, <2>2
    <3>2. Pending'[i] = event_queue[j]
      BY <1>1, <1>4, <3>1
    <3>3. Pending[i + 1] = event_queue[j]
      BY <1>3, <3>1
    <3>4. QED
      BY <3>2, <3>3
  <2>3. QED
    BY <1>1, <1>2, <1>4, <2>1, <2>2
<1>6. QED
  BY <1>1, <1>2, <1>3, <1>4, <1>5 DEF Dropped, card

\* What has been put together with the fragment at hand are the fragments of its
\* packet up to this one.
LEMMA Gathering ==
  ASSUME IInv, Handling("rx")
  PROVE  /\ Gathered = [k \in 1 .. Fragment(event) |->
                          [number |-> Number(event), fragment |-> k]]
         /\ Fragment(event) \in Nat \ {0} /\ Number(event) \in 1 .. arrivals
         /\ Gathered \in Seq(FragmentType)
<1> DEFINE e == event
           n == Number(e)
           m == Fragment(e)
<1>1. /\ pc = "events" /\ e.type = "rx" /\ e = Pending[1] /\ 1 \in Rx(Pending)
      /\ Running /\ Pending # <<>> /\ e \in EventType
  <2>1. pc = "events" /\ e.type = "rx"
    BY DEF Handling
  <2>2. e = Pending[1] /\ 1 \in Rx(Pending) /\ Running /\ e \in EventType
    BY <2>1, HeadEvent
  <2>3. Len(Pending) # 0
    BY <2>1, HeadEvent
  <2>4. QED
    BY <2>1, <2>2, <2>3
<1>2. PICK kind \in Kinds :
        /\ n \in 1 .. arrivals /\ m \in 1 .. Len(kind.upto)
        /\ e.start = (m = 1)
  BY <1>1 DEF IInv, EventsFaithful
<1>3. kind.upto \in Seq(Nat) /\ Len(kind.upto) \in Nat
  BY PoolAssumption
<1>4. /\ m \in Nat \ {0} /\ n \in 0 .. MaxArrivals /\ arrivals \in 0 .. MaxArrivals
  <2>1. arrivals \in 0 .. MaxArrivals
    BY DEF IInv, TypeOK
  <2>2. QED
    BY <1>2, <1>3, <2>1, PoolAssumption
<1>5. content[e.buffer] = [number |-> n, fragment |-> m]
  <2>1. e.buffer \in Buffers
    BY <1>1, EventFields
  <2>2. content[e.buffer] \in FragmentType
    BY <2>1 DEF IInv, TypeOK
  <2>3. QED
    BY <2>2 DEF FragmentType, Number, Fragment
<1>6. Gathered = [k \in 1 .. m |-> [number |-> n, fragment |-> k]]
  <2>1. CASE e.start
    <3>1. m = 1 /\ Gathered = <<[number |-> n, fragment |-> 1]>>
      BY <1>2, <1>5, <2>1 DEF Gathered
    <3>2. QED
      BY <3>1
  <2>2. CASE ~e.start
    <3>1. data = [k \in 1 .. m - 1 |-> [number |-> n, fragment |-> k]]
      BY <1>1, <2>2 DEF IInv, GatheredSoFar, Gathers, Continues
    <3>2. m - 1 \in Nat
      BY <1>4
    <3>3. Gathered = Append(data, [number |-> n, fragment |-> m])
      BY <1>5, <2>2 DEF Gathered
    <3>4. data \in Seq(FragmentType) /\ Len(data) = m - 1
      <4>1. data \in Seq(FragmentType)
        BY DEF IInv, TypeOK
      <4>2. QED
        BY <3>1, <3>2, <4>1
    <3>5. QED
      BY <1>4, <3>1, <3>2, <3>3, <3>4
  <2>3. QED
    BY <1>2, <2>1, <2>2
<1>7. Gathered \in Seq(FragmentType)
  <2>1. \A k \in 1 .. m : [number |-> n, fragment |-> k] \in FragmentType
    BY <1>4 DEF FragmentType
  <2>2. m \in Nat
    BY <1>4
  <2>3. QED
    BY <1>6, <2>1, <2>2
<1>8. QED
  BY <1>2, <1>4, <1>6, <1>7

\* What is stored is a whole packet that the card did not reject.
LEMMA ReceivedIsWhole ==
  ASSUME IInv, Handling("rx"), ~event.cont
  PROVE  Received \in WholePackets /\ Received.data[1].number = Number(event)
<1> DEFINE n == Number(event)
           m == Fragment(event)
<1>1. /\ event.type = "rx" /\ event = Pending[1] /\ 1 \in Rx(Pending)
  BY HeadEvent DEF Handling
<1>2. PICK kind \in Kinds :
        /\ m \in 1 .. Len(kind.upto)
        /\ event.cont = (m # Len(kind.upto))
        /\ event.bytes = kind.upto[m]
        /\ ~kind.bad
  BY <1>1 DEF IInv, EventsFaithful
<1>3. m = Len(kind.upto)
  BY <1>2
<1>4. /\ Gathered = [k \in 1 .. m |-> [number |-> n, fragment |-> k]]
      /\ m \in Nat \ {0} /\ n \in 1 .. arrivals
  BY Gathering
<1>5. Received = Payload(kind, n)
  BY <1>2, <1>3, <1>4 DEF Received, Payload
<1>6. n \in 1 .. MaxArrivals
  <2>1. arrivals \in 0 .. MaxArrivals
    BY DEF IInv, TypeOK
  <2>2. QED
    BY <1>4, <2>1, PoolAssumption
<1>7. Received \in WholePackets
  BY <1>2, <1>5, <1>6 DEF WholePackets
<1>8. Received.data[1].number = n
  BY <1>4 DEF Received
<1>9. QED
  BY <1>7, <1>8

\* No step of the receiver does to the ring what breaks it.
LEMMA RingNext ==
  ASSUME IInv, [Next]_vars
  PROVE  Ring0!IInv' /\ Ring0!TypeOK'
<1>1. [Ring0!Next]_(Ring0!vars)
  <2>1. UNCHANGED <<ring>> => UNCHANGED Ring0!vars
    BY DEF ring, Ring0!vars, Ring0!indices
  <2>2. CASE AcceptLast
    BY <2>2, ReceivedIsWhole DEF AcceptLast, Ring0!Next
  <2>3. CASE WriteAgain
    BY <2>3, ReceivedIsWhole DEF WriteAgain, Ring0!Next
  <2>4. CASE IterateHeldBack \/ ParserReads
    BY <2>4 DEF IterateHeldBack, ParserReads, Ring0!Next
  <2>5. CASE Poll \/ AcceptBadState \/ AcceptFragment \/ HandleRxEventDiscard
          \/ UnexpectedEvent \/ RefillRxRing \/ Card \/ UNCHANGED vars
    BY <2>1, <2>5 DEF Poll, AcceptBadState, AcceptFragment, HandleRxEventDiscard,
       UnexpectedEvent, RefillRxRing, Card, PacketArrives, FragmentArrives, OtherEvent,
       vars
  <2>6. QED
    BY <2>2, <2>3, <2>4, <2>5 DEF Next, InPass
<1>2. Ring0!IInv'
  BY <1>1, RingStep DEF IInv
<1>3. QED
  BY <1>2 DEF Ring0!IInv

-----------------------------------------------------------------------------
(* What is stored for the parser.                                           *)

\* Reading and dropping events leave the order of what is stored as it is.
LEMMA StoredKeeps ==
  ASSUME IInv, NEW d, Dropped(d), Ring0!TypeOK',
         NEW c \in Nat, c <= Len(layout), Len(layout') = Len(layout) - c,
         \A i \in 1 .. Len(layout') : layout'[i].frame = layout[i + c].frame
  PROVE  ForwardsWholePackets' /\ StoredFirst'
<1>1. /\ layout \in Seq([off : Nat, frame : WholePackets])
      /\ layout' \in Seq([off : Nat, frame : WholePackets])
  BY DEF IInv, Ring0!IInv, Ring0!TypeOK
<1>2. /\ Len(layout) \in Nat /\ DOMAIN layout = 1 .. Len(layout)
      /\ Len(layout') \in Nat /\ DOMAIN layout' = 1 .. Len(layout')
  BY <1>1, LenProperties
<1>3. \A i \in DOMAIN layout' :
        /\ i + c \in DOMAIN layout
        /\ layout'[i].frame = layout[i + c].frame
        /\ i \in Nat
  BY <1>2
<1>4. ForwardsWholePackets'
  <2>1. \A i \in DOMAIN layout' : layout'[i].frame \in WholePackets
    <3>1. \A i \in DOMAIN layout' : layout'[i] \in [off : Nat, frame : WholePackets]
      BY <1>1, <1>2, ElementOfSeq
    <3>2. QED
      BY <3>1
  <2>2. ASSUME NEW i \in DOMAIN layout', NEW j \in DOMAIN layout', i < j
        PROVE  layout'[i].frame.data[1].number < layout'[j].frame.data[1].number
    <3>1. i + c < j + c
      BY <1>3, <2>2
    <3>2. QED
      BY <1>3, <3>1 DEF IInv, ForwardsWholePackets
  <2>3. QED
    BY <2>1, <2>2 DEF ForwardsWholePackets
<1>5. StoredFirst'
  <2>1. UNCHANGED <<content, arriving, arrivals>>
    BY DEF Dropped
  <2>2. \A j \in Rx(Pending)' : j + d \in Rx(Pending) /\ Pending'[j] = Pending[j + d]
    BY DropKeeps
  <2>3. QED
    BY <1>3, <2>1, <2>2 DEF IInv, StoredFirst, NumberOf, Number, NoPacket
<1>6. QED
  BY <1>4, <1>5

\* The whole packet is the newest of those stored and older than what waits.
LEMMA StoredAppends ==
  ASSUME IInv, AcceptLast, Ring0!TypeOK'
  PROVE  ForwardsWholePackets' /\ StoredFirst'
<1> DEFINE L == Len(layout)
<1>1. /\ layout \in Seq([off : Nat, frame : WholePackets])
      /\ layout' \in Seq([off : Nat, frame : WholePackets])
  BY DEF IInv, Ring0!IInv, Ring0!TypeOK
<1>2. /\ L \in Nat /\ DOMAIN layout = 1 .. L
      /\ DOMAIN layout' = 1 .. L + 1 /\ Len(layout') = L + 1
      /\ \A i \in 1 .. L : layout'[i] = layout[i]
      /\ layout'[L + 1].frame = Received
  <2>1. PICK o : layout' = Append(layout, [off |-> o, frame |-> Received])
    BY DEF AcceptLast, Ring0!Write
  <2>2. QED
    BY <1>1, <2>1
<1>3. /\ Handling("rx") /\ pc = "events" /\ ~event.cont
      /\ UNCHANGED <<content, arriving, arrivals>>
      /\ EfEventState' = Tail(EfEventState) /\ UNCHANGED card
      /\ event.type = "rx"
  BY DEF AcceptLast, Handling, NextEvent, card
<1>4. 1 \in Rx(Pending) /\ event = Pending[1]
  BY <1>3, HeadEvent
<1>5. /\ Received.data[1].number = Number(event)
      /\ Number(event) \in 1 .. arrivals
  BY <1>3, ReceivedIsWhole, Gathering
<1>6. \A j \in Rx(Pending)' :
        j \in Nat \ {0} /\ j + 1 \in Rx(Pending) /\ Pending'[j] = Pending[j + 1]
  <2>1. Dropped(1)
    BY <1>3, HandledIsDropped
  <2>2. Pending' \in Seq(EventType)
    BY <2>1 DEF Dropped
  <2>3. \A j \in Rx(Pending)' : j \in Nat \ {0}
    BY <2>2 DEF Rx
  <2>4. QED
    BY <2>1, <2>3, DropKeeps
<1>7. \A i \in 1 .. L : layout[i].frame.data[1].number < Number(event)
  BY <1>2, <1>4 DEF IInv, StoredFirst, NumberOf
<1>8. ForwardsWholePackets'
  <2>1. \A i \in DOMAIN layout' : layout'[i].frame \in WholePackets
    <3>1. \A i \in DOMAIN layout' : layout'[i] \in [off : Nat, frame : WholePackets]
      BY <1>1, <1>2, ElementOfSeq
    <3>2. QED
      BY <3>1
  <2>2. ASSUME NEW i \in 1 .. L + 1, NEW j \in 1 .. L + 1, i < j
        PROVE  layout'[i].frame.data[1].number < layout'[j].frame.data[1].number
    <3>1. i \in 1 .. L /\ layout'[i] = layout[i]
      BY <1>2, <2>2
    <3>2. CASE j \in 1 .. L
      BY <1>2, <2>2, <3>1, <3>2 DEF IInv, ForwardsWholePackets
    <3>3. CASE j = L + 1
      BY <1>2, <1>5, <1>7, <3>1, <3>3
    <3>4. QED
      BY <1>2, <3>2, <3>3
  <2>3. QED
    BY <1>2, <2>1, <2>2 DEF ForwardsWholePackets
<1>9. StoredFirst'
  <2> SUFFICES ASSUME NEW i \in 1 .. L + 1
               PROVE  /\ layout'[i].frame.data[1].number \in 1 .. arrivals
                      /\ \A j \in Rx(Pending)' :
                           layout'[i].frame.data[1].number < Number(Pending[j])'
                      /\ arriving # NoPacket =>
                           layout'[i].frame.data[1].number < arriving.number
    BY <1>2, <1>3 DEF StoredFirst, NumberOf, NoPacket
  <2>1. CASE i \in 1 .. L
    BY <1>2, <1>3, <1>6, <2>1 DEF IInv, StoredFirst, NumberOf, Number
  <2>2. CASE i = L + 1
    <3>1. layout'[i].frame.data[1].number = Number(event)
      BY <1>2, <1>5, <2>2
    <3>2. ASSUME NEW j \in Rx(Pending)' PROVE Number(event) < Number(Pending[j])'
      <4>1. j + 1 \in Rx(Pending) /\ 1 < j + 1 /\ Pending'[j] = Pending[j + 1]
        BY <1>6
      <4>2. Number(Pending[1]) < Number(Pending[j + 1])
        BY <1>3, <1>4, <4>1 DEF IInv, NumbersOrdered
      <4>3. QED
        BY <1>3, <1>4, <4>1, <4>2 DEF Number
    <3>3. arriving # NoPacket => Number(event) < arriving.number
      BY <1>3, <1>4 DEF IInv, NumbersOrdered
    <3>4. QED
      BY <1>5, <3>1, <3>2, <3>3
  <2>3. QED
    BY <1>2, <2>1, <2>2
<1>10. QED
  BY <1>8, <1>9

-----------------------------------------------------------------------------
(* Handling an event.                                                       *)

\* What comes next either continues what has been put together or starts anew.
LEMMA GatheredNext ==
  ASSUME IInv, pc = "events", event.type # "other", Dropped(1),
         event.cont => event.type = "rx" /\ data' = Gathered
  PROVE  GatheredSoFar'
<1>1. /\ Len(Pending) \in Nat \ {0} /\ event = Pending[1]
      /\ Pending' \in Seq(EventType) /\ Len(Pending') = Len(Pending) - 1
      /\ \A i \in 1 .. Len(Pending') : Pending'[i] = Pending[i + 1]
      /\ UNCHANGED <<content, arriving, arrivals>>
  BY HeadEvent DEF Dropped
<1>2. event.cont => data' = [k \in 1 .. Fragment(event) |->
                              [number |-> Number(event), fragment |-> k]]
                    /\ Fragment(event) \in Nat
  BY Gathering DEF Handling
<1>3. ASSUME Pending' # <<>>, Continues(Pending[1])'
      PROVE  Gathers(Number(Pending[1]), Fragment(Pending[1]) - 1)'
  <2>1. Len(Pending') # 0
    BY <1>1, <1>3, EmptySeq
  <2>2. 1 \in 1 .. Len(Pending) - 1 /\ Pending'[1] = Pending[1 + 1]
    BY <1>1, <2>1
  <2>3. Follows(Pending[1], Pending[1 + 1])
    BY <2>2 DEF IInv, EventsContiguous
  <2>4. /\ event.cont
        /\ Number(Pending[1])' = Number(event)
        /\ Fragment(Pending[1])' = Fragment(event) + 1
    BY <1>1, <1>3, <2>2, <2>3 DEF Follows, Continued, Continues, Number, Fragment
  <2>5. QED
    BY <1>2, <2>4 DEF Gathers
<1>4. ASSUME Pending' = <<>>, InMiddle'
      PROVE  Gathers(arriving.number, arriving.fragment - 1)'
  <2>1. Len(Pending) = 1 /\ Pending # <<>> /\ Pending[Len(Pending)] = event
    <3>1. Len(Pending') = 0
      BY <1>4
    <3>2. Len(Pending) = 1
      BY <1>1, <3>1
    <3>3. QED
      BY <1>1, <3>2
  <2>2. /\ event.cont
        /\ arriving.number = Number(event) /\ arriving.fragment = Fragment(event) + 1
    BY <1>1, <1>4, <2>1 DEF IInv, EventsContiguous, InMiddle, Continued, NoPacket
  <2>3. QED
    BY <1>1, <1>2, <2>2 DEF Gathers
<1>5. QED
  BY <1>3, <1>4 DEF GatheredSoFar

\* The buffer of the event goes to the head of the pool.
LEMMA BuffersHandled ==
  ASSUME IInv, pc = "events", event.type # "other", Dropped(1),
         free_pool' = PktBufFree, UNCHANGED <<rx_ring, error>>
  PROVE  BuffersConserved' /\ free_pool' \in Seq(Buffers)
<1> DEFINE b == event.buffer
<1>1. /\ event = Pending[1] /\ 1 \in Rx(Pending) /\ b \in Buffers
  BY HeadEvent, EventFields
<1>2. /\ InUse' = { Pending[i].buffer : i \in { i \in Rx(Pending) : i > 1 } }
      /\ \A i, j \in Rx(Pending)' : i # j => Pending'[i].buffer # Pending'[j].buffer
  BY DropKeeps
<1>3. \A i \in Rx(Pending) : i = 1 \/ i > 1
  <2>1. EfEventState \in Seq(EventType) /\ event_queue \in Seq(EventType)
    BY DEF IInv, TypeOK
  <2>2. \A i \in Rx(Pending) : i \in 1 .. Len(Pending) /\ Len(Pending) \in Nat
    BY <2>1, PendingFacts
  <2>3. QED
    BY <2>2
<1>4. InUse = InUse' \cup {b} /\ b \notin InUse'
  <2>1. /\ \A i, j \in Rx(Pending) : i # j => Pending[i].buffer # Pending[j].buffer
        /\ b = Pending[1].buffer
    BY <1>1 DEF IInv, BuffersConserved
  <2>2. b \notin InUse'
    BY <1>1, <1>2, <2>1
  <2>3. InUse = { Pending[i].buffer : i \in Rx(Pending) }
    BY DEF InUse
  <2>4. InUse \subseteq InUse' \cup {b}
    BY <1>2, <1>3, <2>1, <2>3
  <2>5. InUse' \cup {b} \subseteq InUse
    BY <1>1, <1>2, <2>1, <2>3
  <2>6. QED
    BY <2>2, <2>4, <2>5
<1>5. /\ free_pool' \in Seq(Buffers) /\ free_pool \in Seq(Buffers)
      /\ Len(free_pool') = Len(free_pool) + 1 /\ Len(free_pool) \in Nat
      /\ free_pool'[1] = b
      /\ \A i \in 2 .. Len(free_pool) + 1 : free_pool'[i] = free_pool[i - 1]
  <2>1. /\ free_pool \in Seq(Buffers) /\ <<b>> \in Seq(Buffers)
        /\ Len(<<b>>) = 1 /\ <<b>>[1] = b
    <3>1. free_pool \in Seq(Buffers)
      BY DEF IInv, TypeOK
    <3>2. QED
      BY <1>1, <3>1
  <2>2. /\ free_pool' \in Seq(Buffers)
        /\ Len(free_pool') = 1 + Len(free_pool)
        /\ \A i \in 1 .. 1 + Len(free_pool) :
             free_pool'[i] = IF i <= 1 THEN <<b>>[i] ELSE free_pool[i - 1]
    BY <2>1, ConcatProperties DEF PktBufFree
  <2>3. Len(free_pool) \in Nat
    BY <2>1, LenProperties
  <2>4. QED
    BY <2>1, <2>2, <2>3
<1>6. Free' = Free \cup {b}
  <2>1. DOMAIN free_pool' = 1 .. Len(free_pool) + 1 /\ DOMAIN free_pool = 1 .. Len(free_pool)
    BY <1>5, LenProperties
  <2>2. ASSUME NEW i \in DOMAIN free_pool'
        PROVE  free_pool'[i] = b \/ \E j \in DOMAIN free_pool : free_pool'[i] = free_pool[j]
    <3>1. i = 1 \/ (i \in 2 .. Len(free_pool) + 1 /\ i - 1 \in DOMAIN free_pool)
      BY <1>5, <2>1
    <3>2. QED
      BY <1>5, <3>1
  <2>3. ASSUME NEW j \in DOMAIN free_pool
        PROVE  \E i \in DOMAIN free_pool' : free_pool'[i] = free_pool[j]
    <3>1. j + 1 \in 2 .. Len(free_pool) + 1 /\ j + 1 \in DOMAIN free_pool'
          /\ (j + 1) - 1 = j
      BY <1>5, <2>1
    <3>2. QED
      BY <1>5, <3>1
  <2>4. 1 \in DOMAIN free_pool'
    BY <1>5, <2>1
  <2>5. /\ Free = { free_pool[j] : j \in DOMAIN free_pool }
        /\ Free' = { free_pool'[i] : i \in DOMAIN free_pool' }
    BY DEF Free, ToSet
  <2>6. Free' \subseteq Free \cup {b}
    BY <2>2, <2>5
  <2>7. free_pool'[1] = b
    BY <1>5
  <2>8. Free \subseteq Free'
    BY <2>3, <2>5
  <2>9. b \in Free'
    BY <2>4, <2>5, <2>7
  <2>10. QED
    BY <2>6, <2>8, <2>9
<1>7. b \notin Free /\ b \notin Posted /\ b \in InUse
  BY <1>4 DEF IInv, BuffersConserved
<1>8. IsInjective(free_pool')
  <2>1. DOMAIN free_pool' = 1 .. Len(free_pool) + 1 /\ DOMAIN free_pool = 1 .. Len(free_pool)
    BY <1>5, LenProperties
  <2>2. \A i \in 2 .. Len(free_pool) + 1 :
          i - 1 \in DOMAIN free_pool /\ free_pool'[i] # b
    <3>1. \A i \in DOMAIN free_pool : free_pool[i] # b
      BY <1>7 DEF Free, ToSet
    <3>2. QED
      BY <1>5, <2>1, <3>1
  <2>3. IsInjective(free_pool)
    BY DEF IInv, BuffersConserved
  <2>4. ASSUME NEW i \in DOMAIN free_pool', NEW j \in DOMAIN free_pool',
               free_pool'[i] = free_pool'[j]
        PROVE  i = j
    <3>1. CASE i = 1 \/ j = 1
      BY <1>5, <2>1, <2>2, <2>4, <3>1
    <3>2. CASE i # 1 /\ j # 1
      <4>1. i \in 2 .. Len(free_pool) + 1 /\ j \in 2 .. Len(free_pool) + 1
        BY <1>5, <2>1, <3>2
      <4>2. i - 1 = j - 1
        BY <1>5, <2>2, <2>3, <2>4, <4>1 DEF IsInjective
      <4>3. QED
        BY <4>1, <4>2
    <3>3. QED
      BY <3>1, <3>2
  <2>5. QED
    BY <2>4 DEF IsInjective
<1>9. Posted' = Posted
  BY DEF Posted
<1>10. QED
  <2>1. /\ IsInjective(rx_ring') /\ Free' \cap Posted' = {}
        /\ Free' \cap InUse' = {} /\ Posted' \cap InUse' = {}
    BY <1>4, <1>6, <1>7, <1>9 DEF IInv, BuffersConserved
  <2>2. Running' => Free' \cup Posted' \cup InUse' = Buffers
    BY <1>4, <1>6, <1>9 DEF IInv, BuffersConserved, Running
  <2>3. QED
    BY <1>2, <1>5, <1>8, <2>1, <2>2 DEF BuffersConserved

\* With the buffer back in the pool the next event follows, or the refill.
LEMMA HandledStep ==
  ASSUME IInv, [Next]_vars, pc = "events", event.type # "other",
         NextEvent, free_pool' = PktBufFree, UNCHANGED card,
         GatheredSoFar', ForwardsWholePackets', StoredFirst',
         in_pkt' \in BOOLEAN, payload_bytes' \in Nat, data' \in Seq(FragmentType)
  PROVE  IInv'
<1>1. /\ EfEventState' = Tail(EfEventState) /\ UNCHANGED error
      /\ pc' = IF Len(EfEventState) = 1 THEN "refill" ELSE "events"
      /\ UNCHANGED <<rx_ring, content, event_queue, arriving, arrivals>>
  BY DEF NextEvent, card
<1>2. Dropped(1)
  BY <1>1, HandledIsDropped
<1>3. /\ EfEventState' \in Seq(EventType)
      /\ Len(EfEventState') = Len(EfEventState) - 1
      /\ Len(EfEventState) \in Nat \ {0} /\ Running
  BY <1>1, HeadEvent
<1>4. BuffersConserved' /\ free_pool' \in Seq(Buffers)
  BY <1>1, <1>2, BuffersHandled
<1>5. Ring0!IInv' /\ Ring0!TypeOK'
  BY RingNext
<1>6. TypeOK'
  <2>1. EfEventState' \in Seq(EventType) /\ Len(EfEventState') <= MaxEvents
    <3>1. Len(EfEventState) <= MaxEvents /\ MaxEvents \in Nat
      BY PoolAssumption DEF IInv, TypeOK
    <3>2. QED
      BY <1>3, <3>1
  <2>2. pc' \in {"idle", "events", "refill"} /\ (pc' = "events" <=> EfEventState' # <<>>)
    <3>1. EfEventState' = <<>> <=> Len(EfEventState') = 0
      BY <1>3, EmptySeq
    <3>2. QED
      BY <1>1, <1>3, <3>1
  <2>3. /\ rx_ring' \in Seq(Buffers) /\ content' \in [Buffers -> FragmentType]
        /\ event_queue' \in Seq(EventType) /\ arrivals' \in 0 .. MaxArrivals
        /\ error' \in {"none", "bad state", "unexpected event", "pool empty"}
    BY <1>1 DEF IInv, TypeOK
  <2>4. (\/ arriving = NoPacket
         \/ arriving \in [ number : 1 .. MaxArrivals, kind : Kinds,
                           fragment : Nat \ {0} ])'
    BY <1>1 DEF IInv, TypeOK, NoPacket
  <2>5. QED
    BY <1>4, <1>5, <2>1, <2>2, <2>3, <2>4 DEF TypeOK
<1>7. EventsFaithful' /\ EventsContiguous' /\ NumbersOrdered'
  BY <1>2, DropKeeps
<1>8. RefillWithinBounds' /\ ErrorEndsPass'
  BY <1>1, <1>3
     DEF IInv, RefillWithinBounds, FillLevel, FillOf, Rx, ErrorEndsPass, Running
<1>9. ArrivalOK'
  BY <1>1 DEF IInv, ArrivalOK, NoPacket
<1>10. QED
  BY <1>4, <1>5, <1>6, <1>7, <1>8, <1>9 DEF IInv

\* A fragment that is continued is gathered.
LEMMA AcceptFragmentStep ==
  ASSUME IInv, AcceptFragment
  PROVE  IInv'
<1>1. /\ pc = "events" /\ event.type = "rx" /\ Handling("rx") /\ event.cont
      /\ NextEvent /\ free_pool' = PktBufFree /\ data' = Gathered
      /\ in_pkt' = TRUE /\ payload_bytes' = event.bytes
      /\ EfEventState' = Tail(EfEventState) /\ UNCHANGED card /\ layout' = layout
  BY DEF AcceptFragment, Handling, NextEvent, ring
<1>2. Dropped(1)
  BY <1>1, HandledIsDropped
<1>3. Next
  BY DEF Next, InPass
<1>4. Ring0!TypeOK'
  BY <1>3, RingNext
<1>5. GatheredSoFar'
  BY <1>1, <1>2, GatheredNext
<1>6. ForwardsWholePackets' /\ StoredFirst'
  <2>1. Len(layout) \in Nat
    BY LenProperties DEF IInv, Ring0!IInv, Ring0!TypeOK
  <2>2. 0 <= Len(layout) /\ Len(layout') = Len(layout) - 0
        /\ \A i \in 1 .. Len(layout') : layout'[i].frame = layout[i + 0].frame
    BY <1>1, <2>1
  <2>3. QED
    BY <1>2, <1>4, <2>2, StoredKeeps
<1>7. event.bytes \in Nat /\ Gathered \in Seq(FragmentType)
  BY <1>1, HeadEvent, EventFields, Gathering
<1>8. QED
  BY <1>1, <1>3, <1>5, <1>6, <1>7, HandledStep

\* The last fragment completes a packet, which is stored.
LEMMA AcceptLastStep ==
  ASSUME IInv, AcceptLast
  PROVE  IInv'
<1>1. /\ pc = "events" /\ event.type = "rx" /\ Handling("rx") /\ ~event.cont
      /\ NextEvent /\ free_pool' = PktBufFree /\ data' = Gathered
      /\ in_pkt' = FALSE /\ payload_bytes' = event.bytes
      /\ EfEventState' = Tail(EfEventState) /\ UNCHANGED card
  BY DEF AcceptLast, Handling, NextEvent
<1>2. Dropped(1)
  BY <1>1, HandledIsDropped
<1>3. Next
  BY DEF Next, InPass
<1>4. Ring0!TypeOK'
  BY <1>3, RingNext
<1>5. GatheredSoFar'
  BY <1>1, <1>2, GatheredNext
<1>6. ForwardsWholePackets' /\ StoredFirst'
  BY <1>4, StoredAppends
<1>7. event.bytes \in Nat /\ Gathered \in Seq(FragmentType)
  BY <1>1, HeadEvent, EventFields, Gathering
<1>8. QED
  BY <1>1, <1>3, <1>5, <1>6, <1>7, HandledStep

\* A rejected packet leaves nothing but its last buffer, for the pool.
LEMMA DiscardStep ==
  ASSUME IInv, HandleRxEventDiscard
  PROVE  IInv'
<1>1. /\ pc = "events" /\ event.type = "discard"
      /\ NextEvent /\ free_pool' = PktBufFree
      /\ EfEventState' = Tail(EfEventState) /\ UNCHANGED card
      /\ UNCHANGED <<layout, in_pkt, payload_bytes, data>>
  BY DEF HandleRxEventDiscard, Handling, NextEvent, ring, jumbo
<1>2. Dropped(1)
  BY <1>1, HandledIsDropped
<1>3. Next
  BY DEF Next, InPass
<1>4. Ring0!TypeOK'
  BY <1>3, RingNext
<1>5. ~event.cont
  BY <1>1, HeadEvent DEF IInv, EventsFaithful
<1>6. GatheredSoFar'
  BY <1>1, <1>2, <1>5, GatheredNext
<1>7. ForwardsWholePackets' /\ StoredFirst'
  <2>1. Len(layout) \in Nat
    BY LenProperties DEF IInv, Ring0!IInv, Ring0!TypeOK
  <2>2. 0 <= Len(layout) /\ Len(layout') = Len(layout) - 0
        /\ \A i \in 1 .. Len(layout') : layout'[i].frame = layout[i + 0].frame
    BY <1>1, <2>1
  <2>3. QED
    BY <1>2, <1>4, <2>2, StoredKeeps
<1>8. in_pkt' \in BOOLEAN /\ payload_bytes' \in Nat /\ data' \in Seq(FragmentType)
  BY <1>1 DEF IInv, TypeOK
<1>9. event.type # "other"
  BY <1>1
<1>10. QED
  BY <1>1, <1>3, <1>6, <1>7, <1>8, <1>9, HandledStep

\* An error leaves the events that were polled and ends the program.
LEMMA LeaveStep ==
  ASSUME IInv, AcceptBadState \/ UnexpectedEvent
  PROVE  IInv'
<1>1. /\ error' \in {"bad state", "unexpected event"} /\ ~Running'
      /\ EfEventState' = <<>> /\ pc' = "idle"
      /\ UNCHANGED <<free_pool, layout, in_pkt, payload_bytes, data>>
      /\ UNCHANGED <<rx_ring, content, event_queue, arriving, arrivals>>
  BY DEF AcceptBadState, UnexpectedEvent, Leave, Running, ring, jumbo, card
<1>2. Ring0!IInv' /\ Ring0!TypeOK'
  BY RingNext DEF Next, InPass
<1>3. Dropped(Len(EfEventState))
  <2>1. EfEventState \in Seq(EventType) /\ event_queue \in Seq(EventType)
    BY DEF IInv, TypeOK
  <2>2. Len(EfEventState) \in Nat /\ Len(event_queue) \in Nat
    BY <2>1, LenProperties
  <2>3. Pending' = event_queue
    BY <1>1, <2>1, ConcatEmptySeq DEF Pending
  <2>4. /\ Len(Pending) = Len(EfEventState) + Len(event_queue)
        /\ \A i \in 1 .. Len(event_queue) :
             Pending[Len(EfEventState) + i] = event_queue[i]
    BY <2>1, PendingFacts
  <2>5. \A i \in 1 .. Len(event_queue) :
          Len(EfEventState) + i = i + Len(EfEventState)
    BY <2>2
  <2>6. Len(event_queue) = Len(Pending) - Len(EfEventState)
        /\ Len(EfEventState) <= Len(Pending)
    BY <2>2, <2>4
  <2>7. UNCHANGED <<content, arriving, arrivals>>
    BY <1>1
  <2>8. QED
    BY <2>1, <2>2, <2>3, <2>4, <2>5, <2>6, <2>7 DEF Dropped
<1>4. EventsFaithful' /\ EventsContiguous' /\ NumbersOrdered'
  BY <1>3, DropKeeps
<1>5. TypeOK'
  <2>1. /\ free_pool' \in Seq(Buffers) /\ rx_ring' \in Seq(Buffers)
        /\ in_pkt' \in BOOLEAN /\ payload_bytes' \in Nat /\ data' \in Seq(FragmentType)
        /\ content' \in [Buffers -> FragmentType]
        /\ event_queue' \in Seq(EventType) /\ arrivals' \in 0 .. MaxArrivals
    BY <1>1 DEF IInv, TypeOK
  <2>2. (\/ arriving = NoPacket
         \/ arriving \in [ number : 1 .. MaxArrivals, kind : Kinds,
                           fragment : Nat \ {0} ])'
    BY <1>1 DEF IInv, TypeOK, NoPacket
  <2>3. EfEventState' \in Seq(EventType) /\ Len(EfEventState') <= MaxEvents
    <3>1. MaxEvents \in Nat
      BY PoolAssumption
    <3>2. EfEventState' = <<>> /\ Len(<<>>) = 0 /\ <<>> \in Seq(EventType)
      BY <1>1, EmptySeq
    <3>3. QED
      BY <3>1, <3>2
  <2>4. QED
    BY <1>1, <1>2, <2>1, <2>2, <2>3 DEF TypeOK
<1>6. BuffersConserved'
  <2>1. /\ InUse' \subseteq InUse /\ Free' = Free /\ Posted' = Posted
        /\ \A i, j \in Rx(Pending)' : i # j => Pending'[i].buffer # Pending'[j].buffer
    <3>1. /\ InUse' = { Pending[i].buffer :
                           i \in { i \in Rx(Pending) : i > Len(EfEventState) } }
          /\ \A i, j \in Rx(Pending)' : i # j => Pending'[i].buffer # Pending'[j].buffer
      BY <1>3, DropKeeps
    <3>2. Free' = Free /\ Posted' = Posted
      BY <1>1 DEF Free, Posted
    <3>3. InUse' \subseteq InUse
      BY <3>1 DEF InUse
    <3>4. QED
      BY <3>1, <3>2, <3>3
  <2>2. QED
    BY <1>1, <2>1 DEF IInv, BuffersConserved
<1>7. ForwardsWholePackets' /\ StoredFirst'
  <2>1. Len(layout) \in Nat
    BY LenProperties DEF IInv, Ring0!IInv, Ring0!TypeOK
  <2>2. 0 <= Len(layout) /\ Len(layout') = Len(layout) - 0
        /\ \A i \in 1 .. Len(layout') : layout'[i].frame = layout[i + 0].frame
    <3>1. layout' = layout
      BY <1>1
    <3>2. QED
      BY <2>1, <3>1
  <2>3. QED
    BY <1>2, <1>3, <2>2, StoredKeeps
<1>8. RefillWithinBounds' /\ ErrorEndsPass' /\ GatheredSoFar'
  BY <1>1 DEF IInv, RefillWithinBounds, FillLevel, FillOf, Rx, ErrorEndsPass,
     GatheredSoFar
<1>9. ArrivalOK'
  BY <1>1 DEF IInv, ArrivalOK, NoPacket
<1>10. QED
  BY <1>2, <1>4, <1>5, <1>6, <1>7, <1>8, <1>9 DEF IInv

-----------------------------------------------------------------------------
(* Steps that handle no event.                                              *)

\* Nothing but the ring moves.
LEMMA QuietStep ==
  ASSUME IInv, IterateHeldBack \/ WriteAgain \/ ParserReads \/ UNCHANGED vars
  PROVE  IInv'
<1>1. UNCHANGED <<free_pool, in_pkt, payload_bytes, data, EfEventState, pc, error,
                  rx_ring, content, event_queue, arriving, arrivals>>
  BY DEF IterateHeldBack, WriteAgain, ParserReads, vars, jumbo, pass, card
<1>2. Ring0!IInv' /\ Ring0!TypeOK'
  BY RingNext DEF Next, InPass
<1>3. Pending' = Pending
  BY <1>1 DEF Pending
<1>4. Dropped(0)
  <2>1. Pending \in Seq(EventType) /\ Len(Pending) \in Nat
    BY PendingFacts DEF IInv, TypeOK
  <2>2. \A i \in 1 .. Len(Pending) : i + 0 = i
    BY <2>1
  <2>3. Len(Pending) - 0 = Len(Pending) /\ 0 <= Len(Pending)
    BY <2>1
  <2>4. QED
    BY <1>1, <1>3, <2>1, <2>2, <2>3 DEF Dropped
<1>5. \E c \in Nat :
        /\ c <= Len(layout) /\ Len(layout') = Len(layout) - c
        /\ \A i \in 1 .. Len(layout') : layout'[i].frame = layout[i + c].frame
  <2>1. /\ layout \in Seq([off : Nat, frame : WholePackets]) /\ Len(layout) \in Nat
        /\ Len(layout) = FramesStored
    BY LenProperties
       DEF IInv, Ring0!IInv, Ring0!TypeOK, Ring0!StoredFramesIntact
  <2>2. CASE layout' = layout
    BY <2>1, <2>2
  <2>3. CASE ParserReads /\ Ring0!Read
    <3>1. /\ layout' = [i \in 1 .. Len(layout) - 1 |->
                          [layout[i + 1] EXCEPT !.off = @ - Ring0!End(layout, 1)]]
          /\ FramesStored > 0
      BY <2>3 DEF Ring0!Read
    <3>2. Len(layout) - 1 \in Nat
      BY <2>1, <3>1
    <3>3. Len(layout') = Len(layout) - 1
      BY <3>1, <3>2
    <3>4. ASSUME NEW i \in 1 .. Len(layout) - 1
          PROVE  layout'[i].frame = layout[i + 1].frame
      <4>1. i + 1 \in 1 .. Len(layout)
        BY <2>1
      <4>2. layout[i + 1] \in [off : Nat, frame : WholePackets]
        BY <2>1, <4>1, ElementOfSeq
      <4>3. QED
        BY <3>1, <4>2
    <3>5. QED
      BY <2>1, <3>2, <3>3, <3>4
  <2>4. layout' = layout \/ (ParserReads /\ Ring0!Read)
    BY DEF IterateHeldBack, WriteAgain, ParserReads, vars, ring, Ring0!GetCapacity,
       Ring0!WriteRefused, Ring0!ReadNothing
  <2>5. QED
    BY <2>2, <2>3, <2>4
<1>6. ForwardsWholePackets' /\ StoredFirst'
  BY <1>2, <1>4, <1>5, StoredKeeps
<1>7. EventsFaithful' /\ EventsContiguous' /\ NumbersOrdered'
  BY <1>4, DropKeeps
<1>8. TypeOK'
  <2>1. (\/ arriving = NoPacket
         \/ arriving \in [ number : 1 .. MaxArrivals, kind : Kinds,
                           fragment : Nat \ {0} ])'
    BY <1>1 DEF IInv, TypeOK, NoPacket
  <2>2. /\ free_pool' \in Seq(Buffers) /\ rx_ring' \in Seq(Buffers)
        /\ in_pkt' \in BOOLEAN /\ payload_bytes' \in Nat /\ data' \in Seq(FragmentType)
        /\ EfEventState' \in Seq(EventType) /\ Len(EfEventState') <= MaxEvents
        /\ content' \in [Buffers -> FragmentType]
        /\ event_queue' \in Seq(EventType) /\ arrivals' \in 0 .. MaxArrivals
    BY <1>1 DEF IInv, TypeOK
  <2>3. /\ pc' \in {"idle", "events", "refill"} /\ (pc' = "events" <=> EfEventState' # <<>>)
        /\ error' \in {"none", "bad state", "unexpected event", "pool empty"}
    BY <1>1 DEF IInv, TypeOK
  <2>4. QED
    BY <1>2, <2>1, <2>2, <2>3 DEF TypeOK
<1>9. BuffersConserved'
  BY <1>1, <1>3 DEF IInv, BuffersConserved, Free, Posted, InUse, Rx, Running
<1>10. RefillWithinBounds' /\ ErrorEndsPass'
  BY <1>1 DEF IInv, RefillWithinBounds, FillLevel, FillOf, Rx, ErrorEndsPass, Running
<1>11. ArrivalOK'
  BY <1>1 DEF IInv, ArrivalOK, NoPacket
<1>12. GatheredSoFar'
  BY <1>1, <1>3
     DEF IInv, GatheredSoFar, Gathers, Continues, Number, Fragment, InMiddle, NoPacket,
         Running
<1>13. QED
  BY <1>2, <1>6, <1>7, <1>8, <1>9, <1>10, <1>11, <1>12 DEF IInv

\* As many events are polled as there are, and as there is room for.
LEMMA PolledCount ==
  ASSUME IInv
  PROVE  /\ Min({Polled, Len(event_queue)}) \in 0 .. Len(event_queue)
         /\ Min({Polled, Len(event_queue)}) <= MaxEvents
<1>1. MaxEvents \in Nat /\ Len(event_queue) \in Nat /\ Polled = MaxEvents
  BY PoolAssumption, LenProperties DEF IInv, TypeOK, Polled
<1>2. \E x \in {MaxEvents, Len(event_queue)} :
        \A y \in {MaxEvents, Len(event_queue)} : x <= y
  BY <1>1
<1>3. /\ Min({MaxEvents, Len(event_queue)}) \in {MaxEvents, Len(event_queue)}
      /\ \A y \in {MaxEvents, Len(event_queue)} :
           Min({MaxEvents, Len(event_queue)}) <= y
  BY <1>2 DEF Min
<1>4. QED
  BY <1>1, <1>3

\* Type and length of a part of a sequence.
LEMMA Part ==
  ASSUME NEW S, NEW s \in Seq(S), NEW a \in 1 .. Len(s) + 1, NEW b \in 0 .. Len(s)
  PROVE  /\ SubSeq(s, a, b) \in Seq(S)
         /\ Len(SubSeq(s, a, b)) = IF a <= b THEN b - a + 1 ELSE 0
         /\ \A i \in 1 .. b - a + 1 : SubSeq(s, a, b)[i] = s[a + i - 1]
<1>1. Len(s) \in Nat
  BY LenProperties
<1>2. a \in Int /\ b \in Int /\ \A i \in a .. b : i \in 1 .. Len(s)
  BY <1>1
<1>3. \A i \in a .. b : s[i] \in S
  BY <1>2, ElementOfSeq
<1>4. QED
  BY <1>2, <1>3, SubSeqProperties

\* A poll moves events from one queue to the other, it loses and adds none.
LEMMA PollMoves ==
  ASSUME IInv, Poll
  PROVE  LET q == event_queue
             n == Min({Polled, Len(q)})
         IN
         /\ pc = "idle" /\ Running
         /\ pc' = IF n = 0 THEN "refill" ELSE "events"
         /\ UNCHANGED <<free_pool, layout, in_pkt, payload_bytes, data, error, rx_ring,
                        content, arriving, arrivals>>
         /\ n \in 0 .. Len(q) /\ n <= MaxEvents /\ q \in Seq(EventType)
         /\ Len(q) \in Nat
         /\ event_queue' = SubSeq(q, n + 1, Len(q))
         /\ EfEventState' \in Seq(EventType) /\ Len(EfEventState') = n
         /\ event_queue' \in Seq(EventType) /\ Len(event_queue') = Len(q) - n
         /\ Pending' = Pending
<1> DEFINE q == event_queue
           n == Min({Polled, Len(q)})
<1>1. /\ pc = "idle" /\ Running
      /\ EfEventState' = SubSeq(q, 1, n) /\ event_queue' = SubSeq(q, n + 1, Len(q))
      /\ pc' = IF n = 0 THEN "refill" ELSE "events"
      /\ UNCHANGED <<free_pool, layout, in_pkt, payload_bytes, data, error, rx_ring,
                     content, arriving, arrivals>>
  BY DEF Poll, ring, jumbo
<1>2. n \in 0 .. Len(q) /\ n <= MaxEvents /\ q \in Seq(EventType) /\ Len(q) \in Nat
  BY PolledCount, LenProperties DEF IInv, TypeOK
<1>3. /\ EfEventState' \in Seq(EventType) /\ Len(EfEventState') = n
      /\ event_queue' \in Seq(EventType) /\ Len(event_queue') = Len(q) - n
  <2>1. 1 \in 1 .. Len(q) + 1 /\ n \in 0 .. Len(q) /\ n + 1 \in 1 .. Len(q) + 1
        /\ Len(q) \in 0 .. Len(q)
    BY <1>2
  <2>2. /\ SubSeq(q, 1, n) \in Seq(EventType)
        /\ Len(SubSeq(q, 1, n)) = IF 1 <= n THEN n - 1 + 1 ELSE 0
    BY <1>2, <2>1, Part
  <2>3. /\ SubSeq(q, n + 1, Len(q)) \in Seq(EventType)
        /\ Len(SubSeq(q, n + 1, Len(q)))
             = IF n + 1 <= Len(q) THEN Len(q) - (n + 1) + 1 ELSE 0
    BY <1>2, <2>1, Part
  <2>4. QED
    <3>1. Len(SubSeq(q, 1, n)) = n
      BY <1>2, <2>2
    <3>2. Len(SubSeq(q, n + 1, Len(q))) = Len(q) - n
      BY <1>2, <2>3
    <3>3. QED
      BY <1>1, <2>2, <2>3, <3>1, <3>2
<1>4. Pending' = Pending
  <2>1. EfEventState = <<>>
    BY <1>1 DEF IInv, TypeOK
  <2>2. Pending = q
    BY <1>2, <2>1, ConcatEmptySeq DEF Pending
  <2>3. SubSeq(q, 1, n) \o SubSeq(q, n + 1, Len(q)) = q
    <3>1. /\ 1 \in 1 .. Len(q) + 1 /\ n \in 1 - 1 .. Len(q) /\ Len(q) \in n .. Len(q)
      BY <1>2
    <3>2. SubSeq(q, 1, n) \o SubSeq(q, n + 1, Len(q)) = SubSeq(q, 1, Len(q))
      BY <1>2, <3>1, ConcatAdjacentSubSeq
    <3>3. QED
      BY <1>2, <3>2, SubSeqFull
  <2>4. QED
    BY <1>1, <2>2, <2>3 DEF Pending
<1>5. QED
  BY <1>1, <1>2, <1>3, <1>4

\* A poll takes events out of the queue, no buffer changes its place.
LEMMA PollStep ==
  ASSUME IInv, Poll
  PROVE  IInv'
<1> DEFINE q == event_queue
           n == Min({Polled, Len(q)})
<1>1. /\ pc = "idle" /\ Running
      /\ event_queue' = SubSeq(q, n + 1, Len(q))
      /\ pc' = IF n = 0 THEN "refill" ELSE "events"
      /\ UNCHANGED <<free_pool, layout, in_pkt, payload_bytes, data, error, rx_ring,
                     content, arriving, arrivals>>
  BY PollMoves
<1>2. n \in 0 .. Len(q) /\ n <= MaxEvents /\ q \in Seq(EventType) /\ Len(q) \in Nat
  BY PollMoves
<1>3. /\ EfEventState' \in Seq(EventType) /\ Len(EfEventState') = n
      /\ event_queue' \in Seq(EventType) /\ Len(event_queue') = Len(q) - n
  BY PollMoves
<1>4. Pending' = Pending
  BY PollMoves
<1>5. Dropped(0)
  <2>1. Pending \in Seq(EventType) /\ Len(Pending) \in Nat
    BY PendingFacts DEF IInv, TypeOK
  <2>2. \A i \in 1 .. Len(Pending) : i + 0 = i
    BY <2>1
  <2>3. Len(Pending) - 0 = Len(Pending) /\ 0 <= Len(Pending)
    BY <2>1
  <2>4. QED
    BY <1>1, <1>4, <2>1, <2>2, <2>3 DEF Dropped
<1>6. Ring0!IInv' /\ Ring0!TypeOK'
  BY RingNext DEF Next
<1>7. ForwardsWholePackets' /\ StoredFirst'
  <2>1. Len(layout) \in Nat /\ layout' = layout
    BY <1>1, LenProperties DEF IInv, Ring0!IInv, Ring0!TypeOK
  <2>2. 0 <= Len(layout) /\ Len(layout') = Len(layout) - 0
        /\ \A i \in 1 .. Len(layout') : layout'[i].frame = layout[i + 0].frame
    BY <2>1
  <2>3. QED
    BY <1>5, <1>6, <2>2, StoredKeeps
<1>8. EventsFaithful' /\ EventsContiguous' /\ NumbersOrdered'
  BY <1>5, DropKeeps
<1>9. TypeOK'
  <2>1. (\/ arriving = NoPacket
         \/ arriving \in [ number : 1 .. MaxArrivals, kind : Kinds,
                           fragment : Nat \ {0} ])'
    BY <1>1 DEF IInv, TypeOK, NoPacket
  <2>2. /\ free_pool' \in Seq(Buffers) /\ rx_ring' \in Seq(Buffers)
        /\ in_pkt' \in BOOLEAN /\ payload_bytes' \in Nat /\ data' \in Seq(FragmentType)
        /\ content' \in [Buffers -> FragmentType] /\ arrivals' \in 0 .. MaxArrivals
        /\ error' \in {"none", "bad state", "unexpected event", "pool empty"}
    BY <1>1 DEF IInv, TypeOK
  <2>3. pc' \in {"idle", "events", "refill"} /\ (pc' = "events" <=> EfEventState' # <<>>)
    <3>1. EfEventState' = <<>> <=> n = 0
      BY <1>3, EmptySeq
    <3>2. QED
      BY <1>1, <3>1
  <2>4. QED
    BY <1>2, <1>3, <1>6, <2>1, <2>2, <2>3 DEF TypeOK
<1>10. BuffersConserved'
  BY <1>1, <1>4 DEF IInv, BuffersConserved, Free, Posted, InUse, Rx, Running
<1>11. RefillWithinBounds' /\ ErrorEndsPass'
  <2>1. Cardinality(Rx(event_queue')) <= Cardinality(Rx(q))
    BY <1>1, <1>2, RxOfSuffix
  <2>2. Cardinality(Rx(event_queue')) \in Nat /\ Cardinality(Rx(q)) \in Nat
    BY <1>2, <1>3, RxFinite
  <2>3. FillLevel <= RxCapacity /\ FillLevel = Len(rx_ring) + Cardinality(Rx(q))
    BY DEF IInv, RefillWithinBounds, FillLevel, FillOf
  <2>4. FillLevel' = Len(rx_ring) + Cardinality(Rx(event_queue'))
    BY <1>1 DEF FillLevel, FillOf, Rx
  <2>5. Len(rx_ring) \in Nat /\ RxCapacity \in Nat
    BY PoolAssumption, LenProperties DEF IInv, TypeOK
  <2>6. FillLevel' <= RxCapacity
    BY <2>1, <2>2, <2>3, <2>4, <2>5
  <2>7. QED
    BY <1>1, <2>6 DEF IInv, RefillWithinBounds, ErrorEndsPass, Running
<1>12. ArrivalOK'
  BY <1>1 DEF IInv, ArrivalOK, NoPacket
<1>13. GatheredSoFar'
  BY <1>1, <1>4
     DEF IInv, GatheredSoFar, Gathers, Continues, Number, Fragment, InMiddle, NoPacket,
         Running
<1>14. QED
  BY <1>6, <1>7, <1>8, <1>9, <1>10, <1>11, <1>12, <1>13 DEF IInv

\* A part of the pool moves to the receive ring.
LEMMA MovedBuffers ==
  ASSUME NEW f \in Seq(Buffers), NEW r \in Seq(Buffers), NEW t \in 0 .. Len(f),
         IsInjective(f), IsInjective(r), ToSet(f) \cap ToSet(r) = {}
  PROVE  LET g == SubSeq(f, t + 1, Len(f))
             p == r \o SubSeq(f, 1, t)
         IN  /\ g \in Seq(Buffers) /\ p \in Seq(Buffers)
             /\ Len(p) = Len(r) + t
             /\ IsInjective(g) /\ IsInjective(p)
             /\ ToSet(g) \cap ToSet(p) = {}
             /\ ToSet(g) \cup ToSet(p) = ToSet(f) \cup ToSet(r)
<1> DEFINE h == SubSeq(f, 1, t)
           g == SubSeq(f, t + 1, Len(f))
           p == r \o h
<1>1. Len(f) \in Nat /\ Len(r) \in Nat /\ t \in Nat
  BY LenProperties
<1>2. /\ g \in Seq(Buffers) /\ Len(g) = Len(f) - t
      /\ \A i \in 1 .. Len(f) - t : g[i] = f[i + t]
  <2>1. t + 1 \in 1 .. Len(f) + 1 /\ Len(f) \in 0 .. Len(f)
    BY <1>1
  <2>2. /\ g \in Seq(Buffers)
        /\ Len(g) = IF t + 1 <= Len(f) THEN Len(f) - (t + 1) + 1 ELSE 0
        /\ \A i \in 1 .. Len(f) - (t + 1) + 1 : g[i] = f[(t + 1) + i - 1]
    BY <2>1, Part
  <2>3. \A i \in 1 .. Len(f) - t : (t + 1) + i - 1 = i + t
    BY <1>1
  <2>4. Len(f) - (t + 1) + 1 = Len(f) - t /\ Len(g) = Len(f) - t
    BY <1>1, <2>2
  <2>5. QED
    BY <2>2, <2>3, <2>4
<1>3. /\ h \in Seq(Buffers) /\ Len(h) = t
      /\ \A i \in 1 .. t : h[i] = f[i]
  <2>1. 1 \in 1 .. Len(f) + 1
    BY <1>1
  <2>2. /\ h \in Seq(Buffers)
        /\ Len(h) = IF 1 <= t THEN t - 1 + 1 ELSE 0
        /\ \A i \in 1 .. t - 1 + 1 : h[i] = f[1 + i - 1]
    BY <2>1, Part
  <2>3. t - 1 + 1 = t /\ Len(h) = t /\ \A i \in 1 .. t : 1 + i - 1 = i
    BY <1>1, <2>2
  <2>4. QED
    BY <2>2, <2>3
<1>4. /\ p \in Seq(Buffers) /\ Len(p) = Len(r) + t
      /\ \A i \in 1 .. Len(r) + t : p[i] = IF i <= Len(r) THEN r[i] ELSE h[i - Len(r)]
  BY <1>3, ConcatProperties
<1> HIDE DEF g, p, h
<1>5. /\ DOMAIN f = 1 .. Len(f) /\ DOMAIN r = 1 .. Len(r)
      /\ DOMAIN g = 1 .. Len(f) - t /\ DOMAIN p = 1 .. Len(r) + t
  BY <1>2, <1>4, LenProperties
<1>6. \A i \in DOMAIN g : i + t \in DOMAIN f /\ i + t > t /\ g[i] = f[i + t]
  BY <1>1, <1>2, <1>5
<1>7. ASSUME NEW i \in DOMAIN p
      PROVE  \/ i \in DOMAIN r /\ p[i] = r[i]
             \/ /\ i > Len(r) /\ i - Len(r) \in DOMAIN f /\ i - Len(r) <= t
                /\ p[i] = f[i - Len(r)]
  <2>1. CASE i <= Len(r)
    BY <1>1, <1>4, <1>5, <2>1
  <2>2. CASE i > Len(r)
    <3>1. i - Len(r) \in 1 .. t /\ i - Len(r) \in DOMAIN f
      BY <1>1, <1>5, <2>2
    <3>2. QED
      BY <1>1, <1>3, <1>4, <1>5, <2>2, <3>1
  <2>3. QED
    BY <1>1, <1>5, <2>1, <2>2
<1>8. \A i \in DOMAIN f, j \in DOMAIN r : f[i] # r[j]
  BY DEF ToSet
<1>9. IsInjective(g)
  <2> SUFFICES ASSUME NEW i \in DOMAIN g, NEW j \in DOMAIN g, g[i] = g[j]
               PROVE  i = j
    BY DEF IsInjective
  <2>1. i + t = j + t
    BY <1>6 DEF IsInjective
  <2>2. QED
    BY <1>1, <1>5, <2>1
<1>10. IsInjective(p)
  <2> SUFFICES ASSUME NEW i \in DOMAIN p, NEW j \in DOMAIN p, p[i] = p[j]
               PROVE  i = j
    BY DEF IsInjective
  <2>1. CASE i \in DOMAIN r /\ p[i] = r[i] /\ j \in DOMAIN r /\ p[j] = r[j]
    BY <2>1 DEF IsInjective
  <2>2. CASE /\ i - Len(r) \in DOMAIN f /\ p[i] = f[i - Len(r)]
             /\ j - Len(r) \in DOMAIN f /\ p[j] = f[j - Len(r)]
    <3>1. i - Len(r) = j - Len(r)
      BY <2>2 DEF IsInjective
    <3>2. QED
      BY <1>1, <1>5, <3>1
  <2>3. QED
    BY <1>7, <1>8, <2>1, <2>2
<1>11. ASSUME NEW i \in DOMAIN g, NEW j \in DOMAIN p PROVE g[i] # p[j]
  <2>1. CASE j \in DOMAIN r /\ p[j] = r[j]
    BY <1>6, <1>8, <2>1
  <2>2. CASE /\ j - Len(r) \in DOMAIN f /\ j - Len(r) <= t
             /\ p[j] = f[j - Len(r)]
    <3>1. j - Len(r) # i + t
      BY <1>1, <1>5, <2>2
    <3>2. QED
      BY <1>6, <2>2, <3>1 DEF IsInjective
  <2>3. QED
    BY <1>7, <2>1, <2>2
<1>12. \A i \in DOMAIN r : i \in DOMAIN p /\ p[i] = r[i]
  BY <1>1, <1>4, <1>5
<1>13. ASSUME NEW i \in DOMAIN f
       PROVE  (\E j \in DOMAIN g : g[j] = f[i]) \/ (\E j \in DOMAIN p : p[j] = f[i])
  <2>1. CASE i > t
    <3>1. i - t \in DOMAIN g /\ (i - t) + t = i
      BY <1>1, <1>5, <2>1
    <3>2. g[i - t] = f[i]
      BY <1>6, <3>1
    <3>3. QED
      BY <3>1, <3>2
  <2>2. CASE i <= t
    <3>1. i + Len(r) \in DOMAIN p /\ i + Len(r) > Len(r)
          /\ (i + Len(r)) - Len(r) = i /\ i \in 1 .. t
      BY <1>1, <1>5, <2>2
    <3>2. p[i + Len(r)] = f[i]
      BY <1>1, <1>3, <1>4, <1>5, <3>1
    <3>3. QED
      BY <3>1, <3>2
  <2>3. QED
    BY <1>1, <1>5, <2>1, <2>2
<1>14. ToSet(g) \cap ToSet(p) = {}
  BY <1>11 DEF ToSet
<1>15. ToSet(g) \cup ToSet(p) = ToSet(f) \cup ToSet(r)
  <2>1. ToSet(g) \subseteq ToSet(f)
    BY <1>6 DEF ToSet
  <2>2. ToSet(p) \subseteq ToSet(f) \cup ToSet(r)
    BY <1>7 DEF ToSet
  <2>3. ToSet(r) \subseteq ToSet(p)
    BY <1>12 DEF ToSet
  <2>4. ToSet(f) \subseteq ToSet(g) \cup ToSet(p)
    BY <1>13 DEF ToSet
  <2>5. QED
    BY <2>1, <2>2, <2>3, <2>4
<1>16. QED
  BY <1>2, <1>4, <1>9, <1>10, <1>14, <1>15 DEF g, p, h

\* The refill finds as many buffers as it takes, and room for them.
LEMMA RefillStep ==
  ASSUME IInv, RefillRxRing
  PROVE  IInv'
<1>1. /\ pc = "refill" /\ pc' = "idle"
      /\ UNCHANGED <<layout, in_pkt, payload_bytes, data, EfEventState, content,
                     event_queue, arriving, arrivals>>
  BY DEF RefillRxRing, ring, jumbo
<1>2. Running /\ EfEventState = <<>>
  BY <1>1 DEF IInv, ErrorEndsPass, TypeOK
<1>3. /\ free_pool \in Seq(Buffers) /\ rx_ring \in Seq(Buffers)
      /\ Len(free_pool) \in Nat /\ Len(rx_ring) \in Nat
      /\ event_queue \in Seq(EventType) /\ Cardinality(Rx(event_queue)) \in Nat
  BY LenProperties, RxFinite DEF IInv, TypeOK
<1>4. /\ FillLevel = Len(rx_ring) + Cardinality(Rx(event_queue))
      /\ FillLevel \in 0 .. RxCapacity /\ RxCapacity \in Nat
      /\ Len(free_pool) + FillLevel = PKT_POOL_SIZE
  <2>1. FillLevel = Len(rx_ring) + Cardinality(Rx(event_queue))
    BY DEF FillLevel, FillOf
  <2>2. FillLevel <= RxCapacity /\ TypeOK /\ BuffersConserved
    BY DEF IInv, RefillWithinBounds
  <2>3. QED
    BY <1>2, <1>3, <2>1, <2>2, PoolAndFillLevel, PoolAssumption
<1>5. PICK t \in 0 .. Len(free_pool) :
        /\ rx_ring' = rx_ring \o SubSeq(free_pool, 1, t)
        /\ free_pool' = SubSeq(free_pool, t + 1, Len(free_pool))
        /\ error' = error
        /\ FillLevel + t <= RxCapacity
  <2>1. CASE RxCapacity - FillLevel < REFILL_BATCH_SIZE
    <3>1. /\ rx_ring \o SubSeq(free_pool, 1, 0) = rx_ring
          /\ SubSeq(free_pool, 0 + 1, Len(free_pool)) = free_pool
      BY <1>3, SubSeqEmpty, SubSeqFull, ConcatEmptySeq
    <3>2. UNCHANGED <<free_pool, rx_ring, error>>
      BY <2>1 DEF RefillRxRing
    <3>3. 0 \in 0 .. Len(free_pool) /\ FillLevel + 0 <= RxCapacity
      BY <1>3, <1>4
    <3>4. QED
      BY <3>1, <3>2, <3>3
  <2>2. CASE ~(RxCapacity - FillLevel < REFILL_BATCH_SIZE)
    <3>1. PICK n \in 1 .. RxCapacity :
            /\ StopsAfter(n, FillLevel)
            /\ IF n * REFILL_BATCH_SIZE <= Len(free_pool)
                 THEN /\ rx_ring' = rx_ring \o SubSeq(free_pool, 1, n * REFILL_BATCH_SIZE)
                      /\ free_pool' = SubSeq(free_pool, n * REFILL_BATCH_SIZE + 1,
                                             Len(free_pool))
                      /\ UNCHANGED error
                 ELSE error' = "pool empty" /\ UNCHANGED <<free_pool, rx_ring>>
      BY <2>2 DEF RefillRxRing
    <3>2. RxCapacity - FillLevel >= REFILL_BATCH_SIZE
      BY <1>4, <2>2, PoolAssumption
    <3>3. /\ n * REFILL_BATCH_SIZE \in Nat \ {0}
          /\ FillLevel + n * REFILL_BATCH_SIZE <= RxCapacity
      BY <1>4, <3>1, <3>2, RefillFits
    <3> DEFINE m == n * REFILL_BATCH_SIZE
    <3>4. m \in 0 .. Len(free_pool)
      <4> HIDE DEF m
      <4>1. RxCapacity <= PKT_POOL_SIZE /\ PKT_POOL_SIZE \in Nat
        BY PoolAssumption
      <4>2. m \in Nat /\ FillLevel + m <= RxCapacity
        BY <3>3 DEF m
      <4>3. QED
        BY <1>3, <1>4, <4>1, <4>2
    <3>5. m <= Len(free_pool)
      BY <1>3, <3>4
    <3>6. /\ rx_ring' = rx_ring \o SubSeq(free_pool, 1, m)
          /\ free_pool' = SubSeq(free_pool, m + 1, Len(free_pool))
          /\ error' = error
      BY <3>1, <3>5
    <3>7. FillLevel + m <= RxCapacity
      BY <3>3
    <3> HIDE DEF m
    <3>8. QED
      BY <3>4, <3>6, <3>7
  <2>3. QED
    BY <2>1, <2>2
<1>6. /\ free_pool' \in Seq(Buffers) /\ rx_ring' \in Seq(Buffers)
      /\ Len(rx_ring') = Len(rx_ring) + t
      /\ IsInjective(free_pool') /\ IsInjective(rx_ring')
      /\ ToSet(free_pool') \cap ToSet(rx_ring') = {}
      /\ ToSet(free_pool') \cup ToSet(rx_ring') = ToSet(free_pool) \cup ToSet(rx_ring)
  <2>1. /\ IsInjective(free_pool) /\ IsInjective(rx_ring)
        /\ ToSet(free_pool) \cap ToSet(rx_ring) = {}
    BY DEF IInv, BuffersConserved, Free, Posted
  <2>2. QED
    <3> DEFINE g == SubSeq(free_pool, t + 1, Len(free_pool))
               p == rx_ring \o SubSeq(free_pool, 1, t)
    <3>1. /\ g \in Seq(Buffers) /\ p \in Seq(Buffers)
          /\ Len(p) = Len(rx_ring) + t
          /\ IsInjective(g) /\ IsInjective(p)
          /\ ToSet(g) \cap ToSet(p) = {}
          /\ ToSet(g) \cup ToSet(p) = ToSet(free_pool) \cup ToSet(rx_ring)
      BY <1>3, <2>1, MovedBuffers
    <3>2. free_pool' = g /\ rx_ring' = p
      BY <1>5
    <3> HIDE DEF g, p
    <3>3. QED
      BY <3>1, <3>2
<1>7. Pending' = Pending
  BY <1>1 DEF Pending
<1>8. Dropped(0)
  <2>1. Pending \in Seq(EventType) /\ Len(Pending) \in Nat
    BY PendingFacts DEF IInv, TypeOK
  <2>2. \A i \in 1 .. Len(Pending) : i + 0 = i
    BY <2>1
  <2>3. Len(Pending) - 0 = Len(Pending) /\ 0 <= Len(Pending)
    BY <2>1
  <2>4. QED
    BY <1>1, <1>7, <2>1, <2>2, <2>3 DEF Dropped
<1>9. Ring0!IInv' /\ Ring0!TypeOK'
  BY RingNext DEF Next, InPass
<1>10. ForwardsWholePackets' /\ StoredFirst'
  <2>1. Len(layout) \in Nat /\ layout' = layout
    BY <1>1, LenProperties DEF IInv, Ring0!IInv, Ring0!TypeOK
  <2>2. 0 <= Len(layout) /\ Len(layout') = Len(layout) - 0
        /\ \A i \in 1 .. Len(layout') : layout'[i].frame = layout[i + 0].frame
    BY <2>1
  <2>3. QED
    BY <1>8, <1>9, <2>2, StoredKeeps
<1>11. EventsFaithful' /\ EventsContiguous' /\ NumbersOrdered'
  BY <1>8, DropKeeps
<1>12. TypeOK'
  <2>1. (\/ arriving = NoPacket
         \/ arriving \in [ number : 1 .. MaxArrivals, kind : Kinds,
                           fragment : Nat \ {0} ])'
    BY <1>1 DEF IInv, TypeOK, NoPacket
  <2>2. /\ in_pkt' \in BOOLEAN /\ payload_bytes' \in Nat /\ data' \in Seq(FragmentType)
        /\ EfEventState' \in Seq(EventType) /\ Len(EfEventState') <= MaxEvents
        /\ content' \in [Buffers -> FragmentType]
        /\ event_queue' \in Seq(EventType) /\ arrivals' \in 0 .. MaxArrivals
    BY <1>1 DEF IInv, TypeOK
  <2>3. /\ pc' \in {"idle", "events", "refill"} /\ (pc' = "events" <=> EfEventState' # <<>>)
        /\ error' \in {"none", "bad state", "unexpected event", "pool empty"}
    BY <1>1, <1>2, <1>5 DEF IInv, TypeOK
  <2>4. QED
    BY <1>6, <1>9, <2>1, <2>2, <2>3 DEF TypeOK
<1>13. BuffersConserved'
  <2>1. InUse' = InUse /\ Rx(Pending)' = Rx(Pending)
    BY <1>7 DEF InUse, Rx
  <2>2. /\ Free' \cup Posted' = Free \cup Posted /\ Free' \cap Posted' = {}
        /\ Free \cap InUse = {} /\ Posted \cap InUse = {}
    BY <1>6 DEF IInv, BuffersConserved, Free, Posted
  <2>3. Free' \cap InUse' = {} /\ Posted' \cap InUse' = {}
    BY <2>1, <2>2
  <2>4. Free \cup Posted \cup InUse = Buffers
    BY <1>2 DEF IInv, BuffersConserved
  <2>5. Free' \cup Posted' \cup InUse' = Buffers
    BY <2>1, <2>2, <2>4
  <2>6. \A i, j \in Rx(Pending)' : i # j => Pending'[i].buffer # Pending'[j].buffer
    BY <1>7, <2>1 DEF IInv, BuffersConserved
  <2>7. QED
    BY <1>6, <2>2, <2>3, <2>5, <2>6 DEF BuffersConserved
<1>14. RefillWithinBounds' /\ ErrorEndsPass'
  <2>1. FillLevel' = Len(rx_ring') + Cardinality(Rx(event_queue))
    BY <1>1 DEF FillLevel, FillOf, Rx
  <2>2. FillLevel' <= RxCapacity
    BY <1>3, <1>4, <1>5, <1>6, <2>1
  <2>3. QED
    BY <1>1, <1>2, <1>5, <2>2 DEF RefillWithinBounds, ErrorEndsPass, Running
<1>15. ArrivalOK'
  <2>1. Len(rx_ring') >= Len(rx_ring) /\ Len(rx_ring') \in Nat
    BY <1>3, <1>5, <1>6
  <2>2. ASSUME arriving # NoPacket
        PROVE  Len(arriving.kind.upto) - arriving.fragment < Len(rx_ring')
    <3>1. /\ arriving.kind \in Kinds
          /\ arriving.fragment \in 1 .. Len(arriving.kind.upto)
          /\ Len(arriving.kind.upto) - arriving.fragment < Len(rx_ring)
      BY <2>2 DEF IInv, ArrivalOK
    <3>2. Len(arriving.kind.upto) \in Nat
      BY <3>1, PoolAssumption
    <3>3. QED
      BY <1>3, <2>1, <3>1, <3>2
  <2>3. QED
    BY <1>1, <2>2 DEF IInv, ArrivalOK, NoPacket
<1>16. GatheredSoFar'
  BY <1>1, <1>2, <1>7
     DEF IInv, GatheredSoFar, Gathers, Continues, Number, Fragment, InMiddle, NoPacket
<1>17. QED
  BY <1>9, <1>10, <1>11, <1>12, <1>13, <1>14, <1>15, <1>16 DEF IInv

-----------------------------------------------------------------------------
(* Steps of the card.                                                       *)

\* A packet that begins to arrive is newer than all others.
LEMMA PacketStep ==
  ASSUME IInv, NEW kind \in Kinds, PacketArrives(kind)
  PROVE  IInv'
<1>1. /\ arriving = NoPacket /\ arrivals < MaxArrivals
      /\ Len(kind.upto) <= Len(rx_ring)
      /\ arrivals' = arrivals + 1
      /\ arriving' = [number |-> arrivals + 1, kind |-> kind, fragment |-> 1]
      /\ UNCHANGED <<layout, free_pool, in_pkt, payload_bytes, data, EfEventState, pc,
                     error, rx_ring, content, event_queue>>
  BY DEF PacketArrives, ring, jumbo, pass
<1>2. /\ arrivals \in Nat /\ arrivals + 1 \in 1 .. MaxArrivals
      /\ arriving'.number = arrivals + 1 /\ arriving'.fragment = 1
      /\ arriving'.kind = kind /\ arriving' # NoPacket
  <2>1. arrivals \in 0 .. MaxArrivals
    BY DEF IInv, TypeOK
  <2>2. arrivals \in Nat /\ arrivals + 1 \in 1 .. MaxArrivals
    BY <1>1, <2>1, PoolAssumption
  <2>3. arriving' # NoPacket
    BY <1>1, <2>2 DEF NoPacket
  <2>4. QED
    BY <1>1, <2>2, <2>3
<1>3. kind.upto \in Seq(Nat) /\ Len(kind.upto) \in Nat \ {0}
  BY PoolAssumption, EmptySeq, LenProperties
<1>4. Pending' = Pending /\ Rx(Pending)' = Rx(Pending)
  BY <1>1 DEF Pending, Rx
<1>5. Ring0!IInv' /\ Ring0!TypeOK'
  BY RingNext DEF Next, Card
<1>6. ~InMiddle /\ ~InMiddle'
  BY <1>1, <1>2 DEF InMiddle
<1>7. \A i \in Rx(Pending) :
        Number(Pending[i]) \in 1 .. arrivals /\ Number(Pending[i])' = Number(Pending[i])
        /\ Fragment(Pending[i])' = Fragment(Pending[i])
  BY <1>1, <1>4 DEF IInv, EventsFaithful, Number, Fragment
<1>8. TypeOK'
  <2>1. arriving' \in [ number : 1 .. MaxArrivals, kind : Kinds, fragment : Nat \ {0} ]
    BY <1>1, <1>2
  <2>2. arrivals' \in 0 .. MaxArrivals
    BY <1>1, <1>2
  <2>3. /\ free_pool' \in Seq(Buffers) /\ rx_ring' \in Seq(Buffers)
        /\ in_pkt' \in BOOLEAN /\ payload_bytes' \in Nat /\ data' \in Seq(FragmentType)
        /\ EfEventState' \in Seq(EventType) /\ Len(EfEventState') <= MaxEvents
        /\ content' \in [Buffers -> FragmentType] /\ event_queue' \in Seq(EventType)
    BY <1>1 DEF IInv, TypeOK
  <2>4. /\ pc' \in {"idle", "events", "refill"} /\ (pc' = "events" <=> EfEventState' # <<>>)
        /\ error' \in {"none", "bad state", "unexpected event", "pool empty"}
    BY <1>1 DEF IInv, TypeOK
  <2>5. QED
    BY <1>5, <2>1, <2>2, <2>3, <2>4 DEF TypeOK
<1>9. BuffersConserved'
  BY <1>1, <1>4 DEF IInv, BuffersConserved, Free, Posted, InUse, Running
<1>10. RefillWithinBounds' /\ ErrorEndsPass' /\ ForwardsWholePackets'
  BY <1>1 DEF IInv, RefillWithinBounds, FillLevel, FillOf, Rx, ErrorEndsPass, Running,
     ForwardsWholePackets
<1>11. EventsFaithful'
  <2> SUFFICES ASSUME NEW i \in Rx(Pending)
               PROVE  (\E k \in Kinds :
                         /\ Number(Pending[i]) \in 1 .. arrivals
                         /\ Fragment(Pending[i]) \in 1 .. Len(k.upto)
                         /\ Pending[i].start = (Fragment(Pending[i]) = 1)
                         /\ Pending[i].cont = (Fragment(Pending[i]) # Len(k.upto))
                         /\ Pending[i].bytes = k.upto[Fragment(Pending[i])]
                         /\ Pending[i].type = "rx" /\ ~Pending[i].cont => ~k.bad
                         /\ Pending[i].type = "discard" => ~Pending[i].cont)'
    BY <1>4 DEF EventsFaithful
  <2>1. Number(Pending[i])' \in 1 .. arrivals'
    BY <1>1, <1>2, <1>7
  <2>2. QED
    BY <1>4, <1>7, <2>1 DEF IInv, EventsFaithful
<1>12. EventsContiguous'
  BY <1>1, <1>4, <1>6
     DEF IInv, EventsContiguous, Follows, Continued, Continues, Number, Fragment
<1>13. NumbersOrdered'
  <2>1. \A i \in Rx(Pending) : Number(Pending[i])' < arriving'.number
    BY <1>2, <1>7
  <2>2. QED
    BY <1>4, <1>7, <2>1 DEF IInv, NumbersOrdered
<1>14. StoredFirst'
  <2>1. ASSUME NEW i \in DOMAIN layout
        PROVE  /\ NumberOf(i)' \in 1 .. arrivals'
               /\ \A j \in Rx(Pending) : NumberOf(i)' < Number(Pending[j])'
               /\ NumberOf(i)' < arriving'.number
    <3>1. /\ NumberOf(i) \in 1 .. arrivals /\ NumberOf(i)' = NumberOf(i)
          /\ \A j \in Rx(Pending) : NumberOf(i) < Number(Pending[j])
      BY <1>1 DEF IInv, StoredFirst, NumberOf
    <3>2. QED
      BY <1>1, <1>2, <1>7, <3>1
  <2>2. QED
    BY <1>1, <1>4, <2>1 DEF StoredFirst
<1>15. ArrivalOK'
  <2>1. Len(rx_ring) \in Nat
    BY LenProperties DEF IInv, TypeOK
  <2>2. 1 \in 1 .. Len(kind.upto) /\ Len(kind.upto) - 1 < Len(rx_ring)
    BY <1>1, <1>3, <2>1
  <2>3. QED
    BY <1>1, <1>2, <2>2 DEF ArrivalOK
<1>16. GatheredSoFar'
  BY <1>1, <1>4, <1>6
     DEF IInv, GatheredSoFar, Gathers, Continues, Number, Fragment, Running
<1>17. QED
  BY <1>5, <1>8, <1>9, <1>10, <1>11, <1>12, <1>13, <1>14, <1>15, <1>16 DEF IInv

\* A new event waits behind all others.
LEMMA EventAppended ==
  ASSUME TypeOK, NEW e \in EventType, event_queue' = Append(event_queue, e),
         EfEventState' = EfEventState
  PROVE  /\ event_queue' \in Seq(EventType)
         /\ Len(Pending) \in Nat /\ Len(Pending') = Len(Pending) + 1
         /\ Pending # <<>> <=> Len(Pending) # 0
         /\ Pending' # <<>>
         /\ \A i \in 1 .. Len(Pending) : Pending'[i] = Pending[i]
         /\ Pending'[Len(Pending) + 1] = e
         /\ \A i \in Rx(Pending) : i \in 1 .. Len(Pending)
         /\ Rx(Pending)' = IF e.type = "other" THEN Rx(Pending)
                             ELSE Rx(Pending) \cup {Len(Pending) + 1}
<1>1. EfEventState \in Seq(EventType) /\ event_queue \in Seq(EventType)
  BY DEF TypeOK
<1>2. /\ event_queue' \in Seq(EventType) /\ Len(event_queue') = Len(event_queue) + 1
      /\ \A i \in 1 .. Len(event_queue) : event_queue'[i] = event_queue[i]
      /\ event_queue'[Len(event_queue) + 1] = e
      /\ Len(event_queue) \in Nat /\ Len(EfEventState) \in Nat
  BY <1>1, AppendProperties, LenProperties
<1>3. Pending' = Append(Pending, e) /\ Pending \in Seq(EventType)
  <2>1. /\ Pending \in Seq(EventType)
        /\ Len(Pending) = Len(EfEventState) + Len(event_queue)
        /\ \A i \in 1 .. Len(EfEventState) : Pending[i] = EfEventState[i]
        /\ \A i \in 1 .. Len(event_queue) : Pending[Len(EfEventState) + i] = event_queue[i]
    BY <1>1, PendingFacts
  <2>2. /\ Pending' \in Seq(EventType)
        /\ Len(Pending') = Len(EfEventState) + Len(event_queue')
        /\ \A i \in 1 .. Len(EfEventState) : Pending'[i] = EfEventState[i]
        /\ \A i \in 1 .. Len(event_queue') : Pending'[Len(EfEventState) + i] = event_queue'[i]
    BY <1>1, <1>2, PendingFactsNext
  <2>3. /\ Append(Pending, e) \in Seq(EventType)
        /\ Len(Append(Pending, e)) = Len(Pending) + 1
        /\ \A i \in 1 .. Len(Pending) : Append(Pending, e)[i] = Pending[i]
        /\ Append(Pending, e)[Len(Pending) + 1] = e
    BY <2>1, AppendProperties
  <2>4. ASSUME NEW i \in 1 .. Len(Pending) + 1
        PROVE  Pending'[i] = Append(Pending, e)[i]
    <3>1. CASE i <= Len(EfEventState)
      <4>1. i \in 1 .. Len(EfEventState) /\ i \in 1 .. Len(Pending)
        BY <1>2, <2>1, <3>1
      <4>2. QED
        BY <2>1, <2>2, <2>3, <4>1
    <3>2. CASE i > Len(EfEventState)
      <4> DEFINE j == i - Len(EfEventState)
      <4>1. j \in 1 .. Len(event_queue) + 1 /\ i = Len(EfEventState) + j
        BY <1>2, <2>1, <3>2
      <4>2. Pending'[i] = event_queue'[j]
        BY <1>2, <2>2, <4>1
      <4>3. CASE j <= Len(event_queue)
        <5>1. j \in 1 .. Len(event_queue) /\ i \in 1 .. Len(Pending)
          BY <1>2, <2>1, <4>1, <4>3
        <5>2. Pending[i] = event_queue[j] /\ event_queue'[j] = event_queue[j]
          BY <1>2, <2>1, <4>1, <5>1
        <5>3. QED
          BY <2>3, <4>2, <5>1, <5>2
      <4>4. CASE j = Len(event_queue) + 1
        <5>1. i = Len(Pending) + 1
          BY <1>2, <2>1, <4>1, <4>4
        <5>2. QED
          BY <1>2, <2>3, <4>2, <4>4, <5>1
      <4>5. QED
        BY <1>2, <4>1, <4>3, <4>4
    <3>3. QED
      BY <1>2, <2>1, <3>1, <3>2
  <2>5. Len(Pending') = Len(Append(Pending, e)) /\ Len(Append(Pending, e)) = Len(Pending) + 1
    BY <1>2, <2>1, <2>2, <2>3
  <2>6. Pending' = Append(Pending, e)
    BY <2>2, <2>3, <2>4, <2>5, SeqEqual
  <2>7. QED
    BY <2>1, <2>6
<1>4. Len(Pending) \in Nat /\ (Pending # <<>> <=> Len(Pending) # 0)
  BY <1>3, EmptySeq, LenProperties
<1>5. /\ Len(Pending') = Len(Pending) + 1
      /\ \A i \in 1 .. Len(Pending) : Pending'[i] = Pending[i]
      /\ Pending'[Len(Pending) + 1] = e
  BY <1>3, AppendProperties
<1>6. Pending' # <<>>
  BY <1>4, <1>5
<1>7. Rx(Append(Pending, e)) = IF e.type = "other" THEN Rx(Pending)
                                 ELSE Rx(Pending) \cup {Len(Pending) + 1}
  BY <1>3, RxOfAppend
<1>8. Rx(Pending)' = Rx(Append(Pending, e))
  BY <1>3 DEF Rx
<1>9. \A i \in Rx(Pending) : i \in 1 .. Len(Pending)
  BY <1>3, RxFinite
<1>10. QED
  BY <1>2, <1>4, <1>5, <1>6, <1>7, <1>8, <1>9

\* An event that the program does not know belongs to no packet.
LEMMA OtherStep ==
  ASSUME IInv, OtherEvent
  PROVE  IInv'
<1> DEFINE e == [type |-> "other"]
           L == Len(Pending)
<1>1. /\ arriving = NoPacket /\ arrivals < MaxArrivals
      /\ arrivals' = arrivals + 1 /\ event_queue' = Append(event_queue, e)
      /\ UNCHANGED <<layout, free_pool, in_pkt, payload_bytes, data, EfEventState, pc,
                     error, rx_ring, content, arriving>>
  BY DEF OtherEvent, ring, jumbo, pass
<1>2. e \in EventType /\ e.type = "other"
  BY DEF EventType
<1>3. /\ event_queue' \in Seq(EventType)
      /\ L \in Nat /\ Len(Pending') = L + 1
      /\ Pending # <<>> <=> L # 0
      /\ Pending' # <<>>
      /\ \A i \in 1 .. L : Pending'[i] = Pending[i]
      /\ Pending'[L + 1] = e
      /\ \A i \in Rx(Pending) : i \in 1 .. L
      /\ Rx(Pending)' = Rx(Pending)
  <2>1. TypeOK
    BY DEF IInv
  <2>2. QED
    BY <1>1, <1>2, <2>1, EventAppended
<1>4. Ring0!IInv' /\ Ring0!TypeOK'
  BY RingNext DEF Next, Card
<1>5. ~InMiddle /\ ~InMiddle'
  BY <1>1 DEF InMiddle, NoPacket
<1>6. arrivals \in Nat /\ arrivals' \in 0 .. MaxArrivals /\ arrivals' = arrivals + 1
  <2>1. arrivals \in 0 .. MaxArrivals
    BY DEF IInv, TypeOK
  <2>2. QED
    BY <1>1, <2>1, PoolAssumption
<1>7. \A i \in Rx(Pending) :
        /\ Number(Pending[i]) \in 1 .. arrivals
        /\ Number(Pending[i]) \in 1 .. arrivals'
        /\ Number(Pending[i])' = Number(Pending[i])
        /\ Fragment(Pending[i])' = Fragment(Pending[i])
        /\ Pending'[i] = Pending[i]
  <2>1. \A i \in Rx(Pending) : Number(Pending[i]) \in 1 .. arrivals
    BY DEF IInv, EventsFaithful
  <2>2. QED
    BY <1>1, <1>3, <1>6, <2>1 DEF Number, Fragment
<1>8. TypeOK'
  <2>1. (\/ arriving = NoPacket
         \/ arriving \in [ number : 1 .. MaxArrivals, kind : Kinds,
                           fragment : Nat \ {0} ])'
    BY <1>1 DEF NoPacket
  <2>2. /\ free_pool' \in Seq(Buffers) /\ rx_ring' \in Seq(Buffers)
        /\ in_pkt' \in BOOLEAN /\ payload_bytes' \in Nat /\ data' \in Seq(FragmentType)
        /\ EfEventState' \in Seq(EventType) /\ Len(EfEventState') <= MaxEvents
        /\ content' \in [Buffers -> FragmentType]
    BY <1>1 DEF IInv, TypeOK
  <2>3. /\ pc' \in {"idle", "events", "refill"} /\ (pc' = "events" <=> EfEventState' # <<>>)
        /\ error' \in {"none", "bad state", "unexpected event", "pool empty"}
    BY <1>1 DEF IInv, TypeOK
  <2>4. QED
    BY <1>3, <1>4, <1>6, <2>1, <2>2, <2>3 DEF TypeOK
<1>9. BuffersConserved'
  <2>1. InUse' = InUse /\ Free' = Free /\ Posted' = Posted
    BY <1>1, <1>3, <1>7 DEF InUse, Free, Posted
  <2>2. QED
    BY <1>1, <1>3, <1>7, <2>1 DEF IInv, BuffersConserved, Running
<1>10. RefillWithinBounds' /\ ErrorEndsPass' /\ ForwardsWholePackets' /\ ArrivalOK'
  <2>1. Rx(event_queue)' = Rx(event_queue)
    <3>1. event_queue \in Seq(EventType)
      BY DEF IInv, TypeOK
    <3>2. Rx(Append(event_queue, e)) = Rx(event_queue)
      BY <1>2, <3>1, RxOfAppend
    <3>3. QED
      BY <1>1, <3>2 DEF Rx
  <2>2. FillLevel' = FillLevel
    BY <1>1, <2>1 DEF FillLevel, FillOf
  <2>3. QED
    BY <1>1, <2>2 DEF IInv, RefillWithinBounds, ErrorEndsPass, Running,
       ForwardsWholePackets, ArrivalOK, NoPacket
<1>11. EventsFaithful'
  <2> SUFFICES ASSUME NEW i \in Rx(Pending)
               PROVE  (\E k \in Kinds :
                         /\ Number(Pending[i]) \in 1 .. arrivals
                         /\ Fragment(Pending[i]) \in 1 .. Len(k.upto)
                         /\ Pending[i].start = (Fragment(Pending[i]) = 1)
                         /\ Pending[i].cont = (Fragment(Pending[i]) # Len(k.upto))
                         /\ Pending[i].bytes = k.upto[Fragment(Pending[i])]
                         /\ Pending[i].type = "rx" /\ ~Pending[i].cont => ~k.bad
                         /\ Pending[i].type = "discard" => ~Pending[i].cont)'
    BY <1>3 DEF EventsFaithful
  <2>1. QED
    BY <1>7 DEF IInv, EventsFaithful
<1>12. EventsContiguous'
  <2>1. ASSUME NEW i \in 1 .. Len(Pending') - 1
        PROVE  Follows(Pending[i], Pending[i + 1])'
    <3>1. CASE i = L
      <4>1. L # 0 /\ Pending'[i] = Pending[L] /\ Pending'[i + 1] = e
        BY <1>3, <3>1
      <4>2. ~Continued(Pending[L])
        BY <1>3, <1>5, <4>1 DEF IInv, EventsContiguous
      <4>3. QED
        BY <4>1, <4>2 DEF Follows, Continued, Continues
    <3>2. CASE i # L
      <4>1. /\ i \in 1 .. L - 1
            /\ Pending'[i] = Pending[i] /\ Pending'[i + 1] = Pending[i + 1]
        BY <1>3, <3>2
      <4>2. Follows(Pending[i], Pending[i + 1])
        BY <4>1 DEF IInv, EventsContiguous
      <4>3. QED
        BY <1>1, <4>1, <4>2 DEF Follows, Continued, Continues, Number, Fragment
    <3>3. QED
      BY <3>1, <3>2
  <2>2. Pending'[Len(Pending')] = e
    BY <1>3
  <2>3. QED
    BY <1>5, <2>1, <2>2 DEF EventsContiguous, Continued
<1>13. NumbersOrdered' /\ StoredFirst'
  <2>1. NumbersOrdered'
    BY <1>1, <1>3, <1>7 DEF IInv, NumbersOrdered, NoPacket
  <2>2. ASSUME NEW i \in DOMAIN layout
        PROVE  /\ NumberOf(i)' \in 1 .. arrivals'
               /\ \A j \in Rx(Pending) : NumberOf(i)' < Number(Pending[j])'
    <3>1. /\ NumberOf(i) \in 1 .. arrivals /\ NumberOf(i)' = NumberOf(i)
          /\ \A j \in Rx(Pending) : NumberOf(i) < Number(Pending[j])
      BY <1>1 DEF IInv, StoredFirst, NumberOf
    <3>2. QED
      BY <1>6, <1>7, <3>1
  <2>3. arriving' = NoPacket /\ NoPacket' = NoPacket
    BY <1>1 DEF NoPacket
  <2>4. QED
    BY <1>1, <1>3, <2>1, <2>2, <2>3 DEF StoredFirst
<1>14. GatheredSoFar'
  <2> SUFFICES ASSUME Running', Continues(Pending[1])'
               PROVE  Gathers(Number(Pending[1]), Fragment(Pending[1]) - 1)'
    BY <1>3 DEF GatheredSoFar
  <2>1. L # 0
    BY <1>3 DEF Continues
  <2>2. Pending'[1] = Pending[1]
    BY <1>3, <2>1
  <2>3. QED
    BY <1>1, <1>3, <2>1, <2>2
       DEF IInv, GatheredSoFar, Gathers, Continues, Number, Fragment, Running
<1>15. QED
  BY <1>4, <1>8, <1>9, <1>10, <1>11, <1>12, <1>13, <1>14 DEF IInv

\* The event of the fragment that arrives next.
ArrivingLast == arriving.fragment = Len(arriving.kind.upto)
NewEvent ==
  [ type   |-> IF ArrivingLast /\ arriving.kind.bad THEN "discard" ELSE "rx",
    buffer |-> Head(rx_ring), start |-> arriving.fragment = 1,
    cont   |-> ~ArrivingLast, bytes |-> arriving.kind.upto[arriving.fragment] ]

\* What changes when it arrives, and that the fragments of the events that wait
\* stay what they are.
LEMMA FragmentFacts ==
  ASSUME IInv, FragmentArrives, NEW L, L = Len(Pending)
  PROVE  LET k    == arriving.fragment
             n    == arriving.number
             kind == arriving.kind
             last == k = Len(kind.upto)
             b    == Head(rx_ring)
             e    == NewEvent
         IN
         /\ arriving # NoPacket /\ rx_ring' = Tail(rx_ring)
         /\ content' = [content EXCEPT ![b] = [number |-> n, fragment |-> k]]
         /\ event_queue' = Append(event_queue, e)
         /\ arriving' = IF last THEN NoPacket ELSE [arriving EXCEPT !.fragment = k + 1]
         /\ UNCHANGED <<layout, free_pool, in_pkt, payload_bytes, data, EfEventState, pc,
                        error, arrivals>>
         /\ kind \in Kinds /\ n = arrivals /\ k \in 1 .. Len(kind.upto)
         /\ Len(kind.upto) - k < Len(rx_ring)
         /\ arriving \in [ number : 1 .. MaxArrivals, kind : Kinds, fragment : Nat \ {0} ]
         /\ kind.upto \in Seq(Nat) /\ kind.bad \in BOOLEAN
         /\ Len(kind.upto) \in Nat /\ kind.upto[k] \in Nat
         /\ k \in Nat \ {0} /\ n \in 1 .. MaxArrivals /\ MaxArrivals \in Nat
         /\ n = arrivals /\ arrivals \in Nat
         /\ rx_ring \in Seq(Buffers) /\ Len(rx_ring) \in Nat \ {0}
         /\ b \in Buffers /\ b = rx_ring[1]
         /\ rx_ring' \in Seq(Buffers) /\ Len(rx_ring') = Len(rx_ring) - 1
         /\ \A i \in 1 .. Len(rx_ring) - 1 : rx_ring'[i] = rx_ring[i + 1]
         /\ e \in EventType /\ e.type # "other"
         /\ e.type = (IF last /\ kind.bad THEN "discard" ELSE "rx") /\ e.buffer = b
         /\ e.start = (k = 1) /\ e.cont = ~last /\ e.bytes = kind.upto[k]
         /\ event_queue' \in Seq(EventType) /\ L = Len(Pending)
         /\ L \in Nat /\ Len(Pending') = L + 1
         /\ Pending # <<>> <=> L # 0
         /\ Pending' # <<>>
         /\ \A i \in 1 .. L : Pending'[i] = Pending[i]
         /\ Pending'[L + 1] = e
         /\ \A i \in Rx(Pending) : i \in 1 .. L
         /\ Rx(Pending)' = Rx(Pending) \cup {L + 1}
         /\ content \in [Buffers -> FragmentType]
         /\ \A i \in Rx(Pending) : Pending[i].buffer \in Buffers /\ Pending[i].buffer # b
         /\ \A i \in Rx(Pending) :
              /\ Number(Pending[i]) \in 1 .. arrivals
              /\ Number(Pending[i])' = Number(Pending[i])
              /\ Fragment(Pending[i])' = Fragment(Pending[i])
              /\ Pending'[i] = Pending[i]
         /\ Number(Pending[L + 1])' = n /\ Fragment(Pending[L + 1])' = k
         /\ last => arriving' = NoPacket
         /\ ~last => /\ arriving' # NoPacket /\ arriving'.number = n
                     /\ arriving'.kind = kind /\ arriving'.fragment = k + 1
                     /\ arriving' \in [ number : 1 .. MaxArrivals, kind : Kinds,
                                        fragment : Nat \ {0} ]
<1> DEFINE k == arriving.fragment
           n == arriving.number
           kind == arriving.kind
           last == k = Len(kind.upto)
           b == Head(rx_ring)
           e == NewEvent
<1>1. /\ arriving # NoPacket /\ rx_ring' = Tail(rx_ring)
      /\ content' = [content EXCEPT ![b] = [number |-> n, fragment |-> k]]
      /\ event_queue' = Append(event_queue, e)
      /\ arriving' = IF last THEN NoPacket ELSE [arriving EXCEPT !.fragment = k + 1]
      /\ UNCHANGED <<layout, free_pool, in_pkt, payload_bytes, data, EfEventState, pc,
                     error, arrivals>>
  BY DEF NewEvent, ArrivingLast, FragmentArrives, ring, jumbo, pass
<1>2. /\ kind \in Kinds /\ n = arrivals /\ k \in 1 .. Len(kind.upto)
      /\ Len(kind.upto) - k < Len(rx_ring)
      /\ arriving \in [ number : 1 .. MaxArrivals, kind : Kinds, fragment : Nat \ {0} ]
  BY <1>1 DEF IInv, ArrivalOK, TypeOK
<1>3. /\ kind.upto \in Seq(Nat) /\ kind.bad \in BOOLEAN
      /\ Len(kind.upto) \in Nat /\ kind.upto[k] \in Nat
      /\ k \in Nat \ {0} /\ n \in 1 .. MaxArrivals /\ MaxArrivals \in Nat
      /\ n = arrivals /\ arrivals \in Nat
  <2>1. kind.upto \in Seq(Nat) /\ kind.bad \in BOOLEAN /\ MaxArrivals \in Nat
    BY <1>2, PoolAssumption
  <2>2. Len(kind.upto) \in Nat /\ kind.upto[k] \in Nat
    BY <1>2, <2>1, LenProperties, ElementOfSeq
  <2>3. k \in Nat \ {0} /\ n \in 1 .. MaxArrivals
    BY <1>2
  <2>4. QED
    BY <1>2, <2>1, <2>2, <2>3
<1>4. /\ rx_ring \in Seq(Buffers) /\ Len(rx_ring) \in Nat \ {0}
      /\ b \in Buffers /\ b = rx_ring[1]
      /\ rx_ring' \in Seq(Buffers) /\ Len(rx_ring') = Len(rx_ring) - 1
      /\ \A i \in 1 .. Len(rx_ring) - 1 : rx_ring'[i] = rx_ring[i + 1]
  <2>1. rx_ring \in Seq(Buffers) /\ Len(rx_ring) \in Nat
    BY LenProperties DEF IInv, TypeOK
  <2>2. Len(rx_ring) # 0 /\ rx_ring # <<>>
    BY <1>2, <1>3, <2>1
  <2>3. QED
    BY <1>1, <2>1, <2>2, HeadTailProperties
<1>5. e \in EventType /\ e.type # "other"
  BY <1>3, <1>4 DEF EventType, NewEvent, ArrivingLast
<1>6. /\ e.type = (IF last /\ kind.bad THEN "discard" ELSE "rx") /\ e.buffer = b
      /\ e.start = (k = 1) /\ e.cont = ~last /\ e.bytes = kind.upto[k]
  BY DEF NewEvent, ArrivingLast
<1>7. /\ event_queue' \in Seq(EventType) /\ L = Len(Pending)
      /\ L \in Nat /\ Len(Pending') = L + 1
      /\ Pending # <<>> <=> L # 0
      /\ Pending' # <<>>
      /\ \A i \in 1 .. L : Pending'[i] = Pending[i]
      /\ Pending'[L + 1] = e
      /\ \A i \in Rx(Pending) : i \in 1 .. L
      /\ Rx(Pending)' = Rx(Pending) \cup {L + 1}
  <2>1. TypeOK
    BY DEF IInv
  <2>2. QED
    BY <1>1, <1>5, <2>1, EventAppended
<1>8. content \in [Buffers -> FragmentType]
  BY DEF IInv, TypeOK
<1>9. \A i \in Rx(Pending) : Pending[i].buffer \in Buffers /\ Pending[i].buffer # b
  <2>1. b \in Posted
    <3>1. 1 \in DOMAIN rx_ring
      BY <1>4
    <3>2. QED
      BY <1>4, <3>1 DEF Posted, ToSet
  <2>2. \A i \in Rx(Pending) : Pending[i].buffer \in InUse
    BY DEF InUse
  <2>3. \A i \in Rx(Pending) : Pending[i] \in EventType /\ Pending[i].type # "other"
    BY PendingFacts DEF IInv, TypeOK
  <2>4. QED
    BY <2>1, <2>2, <2>3, EventFields DEF IInv, BuffersConserved
<1>10. \A i \in Rx(Pending) :
         /\ Number(Pending[i]) \in 1 .. arrivals
         /\ Number(Pending[i])' = Number(Pending[i])
         /\ Fragment(Pending[i])' = Fragment(Pending[i])
         /\ Pending'[i] = Pending[i]
  <2>1. \A i \in Rx(Pending) : Number(Pending[i]) \in 1 .. arrivals
    BY DEF IInv, EventsFaithful
  <2>2. QED
    BY <1>1, <1>7, <1>8, <1>9, <2>1 DEF Number, Fragment
<1>11. Number(Pending[L + 1])' = n /\ Fragment(Pending[L + 1])' = k
  BY <1>1, <1>4, <1>6, <1>7, <1>8 DEF Number, Fragment
<1>12. /\ last => arriving' = NoPacket
       /\ ~last => /\ arriving' # NoPacket /\ arriving'.number = n
                   /\ arriving'.kind = kind /\ arriving'.fragment = k + 1
                   /\ arriving' \in [ number : 1 .. MaxArrivals, kind : Kinds,
                                      fragment : Nat \ {0} ]
  <2>1. ~last => /\ arriving'.number = n /\ arriving'.kind = kind
                 /\ arriving'.fragment = k + 1
                 /\ arriving' \in [ number : 1 .. MaxArrivals, kind : Kinds,
                                    fragment : Nat \ {0} ]
    <3>1. arriving = [number |-> n, kind |-> kind, fragment |-> k]
      BY <1>2
    <3>2. ~last => arriving' = [number |-> n, kind |-> kind, fragment |-> k + 1]
      BY <1>1, <3>1
    <3>3. k + 1 \in Nat \ {0}
      BY <1>3
    <3>4. QED
      BY <1>2, <1>3, <3>2, <3>3
  <2>2. ~last => arriving' # NoPacket
    BY <1>3, <2>1 DEF NoPacket
  <2>3. QED
    BY <1>1, <2>1, <2>2
<1>13. QED
  BY <1>1, <1>2, <1>3, <1>4, <1>5, <1>6, <1>7,
     <1>8, <1>9, <1>10, <1>11, <1>12

\* The card writes to no buffer that an event still refers to, and the event of a
\* fragment follows that of the fragment before.
LEMMA FragmentStep ==
  ASSUME IInv, FragmentArrives
  PROVE  IInv'
<1> DEFINE k == arriving.fragment
           n == arriving.number
           kind == arriving.kind
           last == k = Len(kind.upto)
           b == Head(rx_ring)
           e == NewEvent
<1>0. PICK L : L = Len(Pending)
  OBVIOUS
<1>1. /\ arriving # NoPacket /\ rx_ring' = Tail(rx_ring)
      /\ content' = [content EXCEPT ![b] = [number |-> n, fragment |-> k]]
      /\ event_queue' = Append(event_queue, e)
      /\ arriving' = IF last THEN NoPacket ELSE [arriving EXCEPT !.fragment = k + 1]
      /\ UNCHANGED <<layout, free_pool, in_pkt, payload_bytes, data, EfEventState, pc,
                     error, arrivals>>
  BY <1>0, FragmentFacts
<1>2. /\ kind \in Kinds /\ n = arrivals /\ k \in 1 .. Len(kind.upto)
      /\ Len(kind.upto) - k < Len(rx_ring)
      /\ arriving \in [ number : 1 .. MaxArrivals, kind : Kinds, fragment : Nat \ {0} ]
  BY <1>0, FragmentFacts
<1>3. /\ kind.upto \in Seq(Nat) /\ kind.bad \in BOOLEAN
      /\ Len(kind.upto) \in Nat /\ kind.upto[k] \in Nat
      /\ k \in Nat \ {0} /\ n \in 1 .. MaxArrivals /\ MaxArrivals \in Nat
      /\ n = arrivals /\ arrivals \in Nat
  BY <1>0, FragmentFacts
<1>4. /\ rx_ring \in Seq(Buffers) /\ Len(rx_ring) \in Nat \ {0}
      /\ b \in Buffers /\ b = rx_ring[1]
      /\ rx_ring' \in Seq(Buffers) /\ Len(rx_ring') = Len(rx_ring) - 1
      /\ \A i \in 1 .. Len(rx_ring) - 1 : rx_ring'[i] = rx_ring[i + 1]
  BY <1>0, FragmentFacts
<1>5. e \in EventType /\ e.type # "other"
  BY <1>0, FragmentFacts
<1>6. /\ e.type = (IF last /\ kind.bad THEN "discard" ELSE "rx") /\ e.buffer = b
      /\ e.start = (k = 1) /\ e.cont = ~last /\ e.bytes = kind.upto[k]
  BY <1>0, FragmentFacts
<1>7. /\ event_queue' \in Seq(EventType) /\ L = Len(Pending)
      /\ L \in Nat /\ Len(Pending') = L + 1
      /\ Pending # <<>> <=> L # 0
      /\ Pending' # <<>>
      /\ \A i \in 1 .. L : Pending'[i] = Pending[i]
      /\ Pending'[L + 1] = e
      /\ \A i \in Rx(Pending) : i \in 1 .. L
      /\ Rx(Pending)' = Rx(Pending) \cup {L + 1}
  BY <1>0, FragmentFacts
<1>8. Ring0!IInv' /\ Ring0!TypeOK'
  BY RingNext DEF Next, Card
<1>9. content \in [Buffers -> FragmentType]
  BY <1>0, FragmentFacts
<1>10. \A i \in Rx(Pending) : Pending[i].buffer \in Buffers /\ Pending[i].buffer # b
  BY <1>0, FragmentFacts
<1>11. \A i \in Rx(Pending) :
         /\ Number(Pending[i]) \in 1 .. arrivals
         /\ Number(Pending[i])' = Number(Pending[i])
         /\ Fragment(Pending[i])' = Fragment(Pending[i])
         /\ Pending'[i] = Pending[i]
  BY <1>0, FragmentFacts
<1>12. Number(Pending[L + 1])' = n /\ Fragment(Pending[L + 1])' = k
  BY <1>0, FragmentFacts
<1>13. /\ last => arriving' = NoPacket
       /\ ~last => /\ arriving' # NoPacket /\ arriving'.number = n
                   /\ arriving'.kind = kind /\ arriving'.fragment = k + 1
                   /\ arriving' \in [ number : 1 .. MaxArrivals, kind : Kinds,
                                      fragment : Nat \ {0} ]
  BY <1>0, FragmentFacts
<1>14. InMiddle' <=> ~last
  BY <1>3, <1>13 DEF InMiddle, NoPacket
<1>15. TypeOK'
  <2>1. (\/ arriving = NoPacket
         \/ arriving \in [ number : 1 .. MaxArrivals, kind : Kinds,
                           fragment : Nat \ {0} ])'
    BY <1>13 DEF NoPacket
  <2>2. /\ free_pool' \in Seq(Buffers)
        /\ in_pkt' \in BOOLEAN /\ payload_bytes' \in Nat /\ data' \in Seq(FragmentType)
        /\ EfEventState' \in Seq(EventType) /\ Len(EfEventState') <= MaxEvents
        /\ arrivals' \in 0 .. MaxArrivals
    BY <1>1 DEF IInv, TypeOK
  <2>3. /\ pc' \in {"idle", "events", "refill"} /\ (pc' = "events" <=> EfEventState' # <<>>)
        /\ error' \in {"none", "bad state", "unexpected event", "pool empty"}
    BY <1>1 DEF IInv, TypeOK
  <2>4. content' \in [Buffers -> FragmentType]
    <3>1. n \in 0 .. MaxArrivals /\ k \in Nat
      BY <1>3
    <3>2. [number |-> n, fragment |-> k] \in FragmentType
      BY <3>1 DEF FragmentType
    <3>3. QED
      BY <1>1, <1>9, <3>2
  <2>5. QED
    BY <1>4, <1>7, <1>8, <2>1, <2>2, <2>3, <2>4 DEF TypeOK
<1>16. BuffersConserved'
  <2>1. IsInjective(rx_ring)
    BY DEF IInv, BuffersConserved
  <2>2. DOMAIN rx_ring = 1 .. Len(rx_ring) /\ DOMAIN rx_ring' = 1 .. Len(rx_ring) - 1
    BY <1>4, LenProperties
  <2>3. \A i \in DOMAIN rx_ring' : i + 1 \in DOMAIN rx_ring /\ i + 1 # 1
                                   /\ rx_ring'[i] = rx_ring[i + 1] /\ i \in Nat
    BY <1>4, <2>2
  <2>4. IsInjective(rx_ring')
    <3> SUFFICES ASSUME NEW i \in DOMAIN rx_ring', NEW j \in DOMAIN rx_ring',
                        rx_ring'[i] = rx_ring'[j]
                 PROVE  i = j
      BY DEF IsInjective
    <3>1. i + 1 = j + 1
      BY <2>1, <2>3 DEF IsInjective
    <3>2. QED
      BY <2>3, <3>1
  <2>5. Posted = Posted' \cup {b} /\ b \notin Posted'
    <3>1. \A i \in DOMAIN rx_ring' : rx_ring'[i] # b
      BY <1>4, <2>1, <2>2, <2>3 DEF IsInjective
    <3>2. \A i \in DOMAIN rx_ring : i # 1 => \E j \in DOMAIN rx_ring' : rx_ring'[j] = rx_ring[i]
      <4> SUFFICES ASSUME NEW i \in DOMAIN rx_ring, i # 1
                   PROVE  \E j \in DOMAIN rx_ring' : rx_ring'[j] = rx_ring[i]
        OBVIOUS
      <4>1. i - 1 \in DOMAIN rx_ring' /\ (i - 1) + 1 = i
        BY <1>4, <2>2
      <4>2. rx_ring'[i - 1] = rx_ring[i]
        BY <2>3, <4>1
      <4>3. QED
        BY <4>1, <4>2
    <3>3. 1 \in DOMAIN rx_ring
      BY <1>4, <2>2
    <3>4. Posted \subseteq Posted' \cup {b}
      BY <1>4, <3>2 DEF Posted, ToSet
    <3>5. Posted' \cup {b} \subseteq Posted
      BY <1>4, <2>3, <3>3 DEF Posted, ToSet
    <3>6. b \notin Posted'
      BY <3>1 DEF Posted, ToSet
    <3>7. QED
      BY <3>4, <3>5, <3>6
  <2>6. InUse' = InUse \cup {b}
    <3>1. InUse' = { Pending'[i].buffer : i \in Rx(Pending) \cup {L + 1} }
      BY <1>7 DEF InUse
    <3>2. \A i \in Rx(Pending) : Pending'[i].buffer = Pending[i].buffer
      BY <1>11
    <3>3. Pending'[L + 1].buffer = b
      BY <1>6, <1>7
    <3>4. QED
      BY <3>1, <3>2, <3>3 DEF InUse
  <2>7. \A i, j \in Rx(Pending)' : i # j => Pending'[i].buffer # Pending'[j].buffer
    BY <1>6, <1>7, <1>10, <1>11 DEF IInv, BuffersConserved
  <2>8. Free' = Free
    BY <1>1 DEF Free
  <2>9. Running' => Free' \cup Posted' \cup InUse' = Buffers
    BY <1>1, <2>5, <2>6, <2>8 DEF IInv, BuffersConserved, Running
  <2>10. /\ Free' \cap Posted' = {} /\ Free' \cap InUse' = {} /\ Posted' \cap InUse' = {}
         /\ IsInjective(free_pool')
    BY <1>1, <2>5, <2>6, <2>8 DEF IInv, BuffersConserved
  <2>11. QED
    BY <2>4, <2>7, <2>9, <2>10 DEF BuffersConserved
<1>17. RefillWithinBounds' /\ ErrorEndsPass' /\ ForwardsWholePackets'
  <2>1. event_queue \in Seq(EventType) /\ Cardinality(Rx(event_queue)) \in Nat
    BY RxFinite DEF IInv, TypeOK
  <2>2. Cardinality(Rx(Append(event_queue, e))) = Cardinality(Rx(event_queue)) + 1
    BY <1>5, <2>1, RxOfAppend
  <2>3. FillLevel' = Len(rx_ring') + Cardinality(Rx(Append(event_queue, e)))
    BY <1>1 DEF FillLevel, FillOf, Rx
  <2>4. FillLevel = Len(rx_ring) + Cardinality(Rx(event_queue))
    BY DEF FillLevel, FillOf
  <2>5. FillLevel' = FillLevel
    BY <1>4, <2>1, <2>2, <2>3, <2>4
  <2>6. QED
    BY <1>1, <2>5 DEF IInv, RefillWithinBounds, ErrorEndsPass, Running,
       ForwardsWholePackets
<1>18. EventsFaithful'
  <2> SUFFICES ASSUME NEW i \in Rx(Pending) \cup {L + 1}
               PROVE  (\E q \in Kinds :
                         /\ Number(Pending[i]) \in 1 .. arrivals
                         /\ Fragment(Pending[i]) \in 1 .. Len(q.upto)
                         /\ Pending[i].start = (Fragment(Pending[i]) = 1)
                         /\ Pending[i].cont = (Fragment(Pending[i]) # Len(q.upto))
                         /\ Pending[i].bytes = q.upto[Fragment(Pending[i])]
                         /\ Pending[i].type = "rx" /\ ~Pending[i].cont => ~q.bad
                         /\ Pending[i].type = "discard" => ~Pending[i].cont)'
    BY <1>7 DEF EventsFaithful
  <2>1. CASE i \in Rx(Pending)
    BY <1>1, <1>11, <2>1 DEF IInv, EventsFaithful
  <2>2. CASE i = L + 1
    <3>1. Pending'[i] = e /\ Number(Pending[i])' = n /\ Fragment(Pending[i])' = k
      BY <1>7, <1>12, <2>2
    <3>2. n \in 1 .. arrivals'
      BY <1>1, <1>3
    <3>3. QED
      BY <1>2, <1>6, <3>1, <3>2
  <2>3. QED
    BY <2>1, <2>2
<1>19. ArrivalOK'
  <2> SUFFICES ASSUME ~last
               PROVE  /\ k + 1 \in 1 .. Len(kind.upto)
                      /\ Len(kind.upto) - (k + 1) < Len(rx_ring')
    BY <1>1, <1>2, <1>13 DEF ArrivalOK, NoPacket
  <2>1. QED
    BY <1>2, <1>3, <1>4
<1>20. L # 0 => IF Continued(Pending[L])
                  THEN k > 1 /\ n = Number(Pending[L]) /\ k = Fragment(Pending[L]) + 1
                  ELSE k = 1
  <2>1. InMiddle <=> k > 1
    <3>1. arriving # NoPacket
      BY <1>1
    <3>2. QED
      BY <3>1 DEF InMiddle
  <2>2. ASSUME L # 0
        PROVE  IF Continued(Pending[L])
                 THEN /\ InMiddle /\ arriving.number = Number(Pending[L])
                      /\ arriving.fragment = Fragment(Pending[L]) + 1
                 ELSE ~InMiddle
    BY <1>0, <1>7, <2>2 DEF IInv, EventsContiguous
  <2>3. k > 1 <=> k # 1
    BY <1>3
  <2>4. QED
    BY <1>2, <2>1, <2>2, <2>3
<1>21. EventsContiguous'
  <2>1. ASSUME NEW i \in 1 .. Len(Pending') - 1
        PROVE  Follows(Pending[i], Pending[i + 1])'
    <3>1. CASE i = L
      <4>1. L # 0 /\ Pending'[i] = Pending[L] /\ Pending'[i + 1] = e
        BY <1>7, <3>1
      <4>2. /\ Number(Pending[i + 1])' = n /\ Fragment(Pending[i + 1])' = k
            /\ Continues(Pending[i + 1])' = (k # 1)
            /\ Continued(Pending[i])' = Continued(Pending[L])
        BY <1>5, <1>6, <1>12, <3>1, <4>1 DEF Continues, Continued
      <4>3. Continued(Pending[L]) =>
              Number(Pending[i])' = Number(Pending[L])
              /\ Fragment(Pending[i])' = Fragment(Pending[L])
        <5>1. ASSUME Continued(Pending[L]) PROVE L \in Rx(Pending)
          <6>1. Pending \in Seq(EventType)
            BY PendingFacts DEF IInv, TypeOK
          <6>2. QED
            BY <1>7, <4>1, <5>1, <6>1 DEF Continued, Rx
        <5>2. QED
          BY <1>11, <3>1, <5>1
      <4>4. k > 1 <=> k # 1
        BY <1>3
      <4>5. IF Continued(Pending[i])'
              THEN /\ Continues(Pending[i + 1])'
                   /\ Number(Pending[i + 1])' = Number(Pending[i])'
                   /\ Fragment(Pending[i + 1])' = Fragment(Pending[i])' + 1
              ELSE ~Continues(Pending[i + 1])'
        BY <1>20, <4>1, <4>2, <4>3, <4>4
      <4>6. QED
        BY <4>5 DEF Follows
    <3>2. CASE i # L
      <4>1. /\ i \in 1 .. L - 1 /\ i \in 1 .. L /\ i + 1 \in 1 .. L
            /\ Pending'[i] = Pending[i] /\ Pending'[i + 1] = Pending[i + 1]
        BY <1>7, <3>2
      <4>2. Follows(Pending[i], Pending[i + 1])
        <5>1. i \in 1 .. Len(Pending) - 1
          BY <1>0, <4>1
        <5>2. QED
          BY <5>1 DEF IInv, EventsContiguous
      <4>3. Pending \in Seq(EventType)
        BY PendingFacts DEF IInv, TypeOK
      <4>4. /\ Continued(Pending[i]) => i \in Rx(Pending)
            /\ Continues(Pending[i + 1]) => i + 1 \in Rx(Pending)
        <5>1. i \in DOMAIN Pending /\ i + 1 \in DOMAIN Pending
          BY <1>0, <4>1, <4>3, LenProperties
        <5>2. QED
          BY <5>1 DEF Continued, Continues, Rx
      <4>5. /\ Continued(Pending[i])' = Continued(Pending[i])
            /\ Continues(Pending[i + 1])' = Continues(Pending[i + 1])
        BY <4>1 DEF Continued, Continues
      <4>6. QED
        BY <1>11, <4>2, <4>4, <4>5 DEF Follows
    <3>3. QED
      BY <3>1, <3>2
  <2>2. /\ Pending'[Len(Pending')] = e
        /\ Number(Pending[Len(Pending)])' = n /\ Fragment(Pending[Len(Pending)])' = k
    BY <1>7, <1>12
  <2>3. Continued(Pending[Len(Pending)])' = ~last
    BY <1>5, <1>6, <2>2 DEF Continued
  <2>4. QED
    BY <1>13, <1>14, <2>1, <2>2, <2>3 DEF EventsContiguous
<1>22. NumbersOrdered'
  <2>1. \A i \in Rx(Pending) : ~Pending[i].cont => Number(Pending[i]) < n
    BY <1>1 DEF IInv, NumbersOrdered
  <2>2. \A i \in Rx(Pending) : Number(Pending[i]) <= n /\ Number(Pending[i]) \in Nat
    BY <1>3, <1>11
  <2>3. ASSUME NEW i \in Rx(Pending) \cup {L + 1}, NEW j \in Rx(Pending) \cup {L + 1},
               i < j
        PROVE  IF Pending'[i].cont THEN Number(Pending[i])' <= Number(Pending[j])'
                 ELSE Number(Pending[i])' < Number(Pending[j])'
    <3>1. i \in Rx(Pending)
      BY <1>7, <2>3
    <3>2. CASE j \in Rx(Pending)
      BY <1>11, <2>3, <3>1, <3>2 DEF IInv, NumbersOrdered
    <3>3. CASE j = L + 1
      BY <1>11, <1>12, <2>1, <2>2, <3>1, <3>3
    <3>4. QED
      BY <3>2, <3>3
  <2>4. ASSUME ~last, NEW i \in Rx(Pending) \cup {L + 1}, ~Pending'[i].cont
        PROVE  Number(Pending[i])' < arriving'.number
    <3>1. i \in Rx(Pending)
      BY <1>6, <1>7, <2>4
    <3>2. QED
      BY <1>11, <1>13, <2>1, <2>4, <3>1
  <2>5. QED
    BY <1>7, <1>13, <2>3, <2>4 DEF NumbersOrdered, NoPacket
<1>23. StoredFirst'
  <2>1. ASSUME NEW i \in DOMAIN layout
        PROVE  /\ NumberOf(i)' \in 1 .. arrivals'
               /\ \A j \in Rx(Pending) \cup {L + 1} : NumberOf(i)' < Number(Pending[j])'
               /\ ~last => NumberOf(i)' < arriving'.number
    <3>1. /\ NumberOf(i) \in 1 .. arrivals /\ NumberOf(i)' = NumberOf(i)
          /\ \A j \in Rx(Pending) : NumberOf(i) < Number(Pending[j])
          /\ NumberOf(i) < n
      BY <1>1 DEF IInv, StoredFirst, NumberOf
    <3>2. QED
      BY <1>1, <1>11, <1>12, <1>13, <3>1
  <2>2. QED
    BY <1>1, <1>7, <1>13, <2>1 DEF StoredFirst, NoPacket
<1>24. GatheredSoFar'
  <2> SUFFICES ASSUME Running', Continues(Pending[1])'
               PROVE  Gathers(Number(Pending[1]), Fragment(Pending[1]) - 1)'
    BY <1>7 DEF GatheredSoFar
  <2>1. CASE L = 0
    <3>1. /\ Pending'[1] = e /\ Pending = <<>>
          /\ Number(Pending[1])' = n /\ Fragment(Pending[1])' = k
      BY <1>7, <1>12, <2>1
    <3>2. k > 1
      <4>1. Continues(e)
        BY <3>1 DEF Continues
      <4>2. k # 1
        BY <1>6, <4>1 DEF Continues
      <4>3. QED
        BY <1>3, <4>2
    <3>3. Gathers(n, k - 1)
      BY <1>1, <3>1, <3>2 DEF IInv, GatheredSoFar, InMiddle, Running
    <3>4. QED
      BY <1>1, <3>1, <3>3 DEF Gathers
  <2>2. CASE L # 0
    <3>1. 1 \in 1 .. L /\ Pending'[1] = Pending[1] /\ Pending # <<>>
      BY <1>7, <2>2
    <3>2. Continues(Pending[1])
      BY <3>1 DEF Continues
    <3>3. Pending \in Seq(EventType)
      BY PendingFacts DEF IInv, TypeOK
    <3>4. 1 \in Rx(Pending)
      BY <3>1, <3>2, <3>3 DEF Continues, Rx
    <3>5. Gathers(Number(Pending[1]), Fragment(Pending[1]) - 1)
      BY <1>1, <3>1, <3>2 DEF IInv, GatheredSoFar, Running
    <3>6. QED
      BY <1>1, <1>11, <3>4, <3>5 DEF Gathers
  <2>3. QED
    BY <2>1, <2>2
<1>25. QED
  BY <1>8, <1>15, <1>16, <1>17, <1>18, <1>19, <1>21, <1>22, <1>23, <1>24 DEF IInv

-----------------------------------------------------------------------------
(* The invariant.                                                           *)

\* Initialize leaves the first buffers in the receive ring, the others in the
\* pool.
LEMMA InitEstablishes == Init => IInv
<1> SUFFICES ASSUME Init
             PROVE  IInv
  OBVIOUS
<1>1. /\ in_pkt = FALSE /\ payload_bytes = 0 /\ data = <<>>
      /\ EfEventState = <<>> /\ pc = "idle" /\ error = "none"
      /\ content = [b \in Buffers |-> Nothing] /\ event_queue = <<>>
      /\ arriving = NoPacket /\ arrivals = 0
  BY DEF Init
<1>2. Ring0!IInv /\ Ring0!TypeOK
  BY RingStarts DEF Init, Ring0!IInv
<1>3. layout = <<>>
  BY DEF Init, Ring0!Init
<1>4. PICK t \in 1 .. RxCapacity :
        /\ free_pool = [i \in 1 .. PKT_POOL_SIZE - t |-> PKT_POOL_SIZE - t - i]
        /\ rx_ring = [i \in 1 .. t |-> PKT_POOL_SIZE - i]
  <2>1. PICK n \in 1 .. RxCapacity :
          /\ StopsAfter(n, 0)
          /\ free_pool = [i \in 1 .. PKT_POOL_SIZE - n * REFILL_BATCH_SIZE
                            |-> PKT_POOL_SIZE - n * REFILL_BATCH_SIZE - i]
          /\ rx_ring = [i \in 1 .. n * REFILL_BATCH_SIZE |-> PKT_POOL_SIZE - i]
    BY DEF Init
  <2>2. 0 \in 0 .. RxCapacity /\ RxCapacity - 0 >= REFILL_BATCH_SIZE
    BY PoolAssumption
  <2>3. /\ n * REFILL_BATCH_SIZE \in Nat \ {0}
        /\ 0 + n * REFILL_BATCH_SIZE <= RxCapacity
    BY <2>1, <2>2, RefillFits
  <2>4. n * REFILL_BATCH_SIZE \in 1 .. RxCapacity
    BY <2>3, PoolAssumption
  <2>5. QED
    BY <2>1, <2>4
<1>5. /\ PKT_POOL_SIZE \in Nat /\ RxCapacity \in Nat /\ RxCapacity <= PKT_POOL_SIZE
      /\ t \in Nat /\ t <= RxCapacity /\ PKT_POOL_SIZE - t \in Nat
  BY PoolAssumption
<1>6. /\ free_pool \in Seq(Buffers) /\ rx_ring \in Seq(Buffers) /\ Len(rx_ring) = t
      /\ DOMAIN free_pool = 1 .. PKT_POOL_SIZE - t /\ DOMAIN rx_ring = 1 .. t
  <2>1. \A i \in 1 .. PKT_POOL_SIZE - t : PKT_POOL_SIZE - t - i \in Buffers
    BY <1>5 DEF Buffers
  <2>2. \A i \in 1 .. t : PKT_POOL_SIZE - i \in Buffers
    BY <1>5 DEF Buffers
  <2>3. /\ free_pool \in [1 .. PKT_POOL_SIZE - t -> Buffers]
        /\ rx_ring \in [1 .. t -> Buffers]
    BY <1>4, <2>1, <2>2
  <2>4. QED
    BY <1>5, <2>3, SeqDef, LenProperties
<1>7. Pending = <<>> /\ Rx(Pending) = {} /\ Rx(event_queue) = {}
  BY <1>1, ConcatEmptySeq, EmptySeq DEF Pending, Rx
<1>8. FillLevel = t
  BY <1>5, <1>6, <1>7, FS_EmptySet DEF FillLevel, FillOf
<1>9. BuffersConserved
  <2>1. IsInjective(free_pool) /\ IsInjective(rx_ring)
    BY <1>4, <1>5, <1>6 DEF IsInjective
  <2>2. InUse = {}
    BY <1>7 DEF InUse
  <2>3. \A b \in Free : b \in 0 .. PKT_POOL_SIZE - t - 1
    BY <1>4, <1>5, <1>6 DEF Free, ToSet
  <2>4. \A b \in Posted : b \in PKT_POOL_SIZE - t .. PKT_POOL_SIZE - 1
    BY <1>4, <1>5, <1>6 DEF Posted, ToSet
  <2>5. Free \cap Posted = {}
    BY <1>5, <2>3, <2>4
  <2>6. ASSUME NEW b \in Buffers
        PROVE  b \in Free \cup Posted
    <3>1. b \in 0 .. PKT_POOL_SIZE - 1
      BY DEF Buffers
    <3>2. CASE b < PKT_POOL_SIZE - t
      <4>1. /\ PKT_POOL_SIZE - t - b \in 1 .. PKT_POOL_SIZE - t
            /\ PKT_POOL_SIZE - t - (PKT_POOL_SIZE - t - b) = b
        BY <1>5, <3>1, <3>2
      <4>2. free_pool[PKT_POOL_SIZE - t - b] = b
        BY <1>4, <4>1
      <4>3. QED
        BY <1>6, <4>1, <4>2 DEF Free, ToSet
    <3>3. CASE b >= PKT_POOL_SIZE - t
      <4>1. PKT_POOL_SIZE - b \in 1 .. t /\ PKT_POOL_SIZE - (PKT_POOL_SIZE - b) = b
        BY <1>5, <3>1, <3>3
      <4>2. rx_ring[PKT_POOL_SIZE - b] = b
        BY <1>4, <4>1
      <4>3. QED
        BY <1>6, <4>1, <4>2 DEF Posted, ToSet
    <3>4. QED
      BY <1>5, <3>1, <3>2, <3>3
  <2>7. Free \subseteq Buffers /\ Posted \subseteq Buffers
    BY <1>5, <2>3, <2>4 DEF Buffers
  <2>8. Free \cup Posted \cup InUse = Buffers
    BY <2>2, <2>6, <2>7
  <2>9. QED
    BY <1>7, <2>1, <2>2, <2>5, <2>8 DEF BuffersConserved
<1>10. TypeOK
  <2>1. content \in [Buffers -> FragmentType]
    <3>1. Nothing \in FragmentType
      BY PoolAssumption DEF Nothing, FragmentType
    <3>2. QED
      BY <1>1, <3>1
  <2>2. /\ data \in Seq(FragmentType) /\ EfEventState \in Seq(EventType)
        /\ event_queue \in Seq(EventType) /\ Len(EfEventState) <= MaxEvents
    BY <1>1, EmptySeq, PoolAssumption
  <2>3. arrivals \in 0 .. MaxArrivals
    BY <1>1, PoolAssumption
  <2>4. QED
    BY <1>1, <1>2, <1>6, <2>1, <2>2, <2>3 DEF TypeOK
<1>11. RefillWithinBounds
  BY <1>1, <1>5, <1>8 DEF RefillWithinBounds
<1>12. EventsFaithful /\ NumbersOrdered
  BY <1>1, <1>7 DEF EventsFaithful, NumbersOrdered
<1>13. ForwardsWholePackets /\ StoredFirst
  <2>1. DOMAIN layout = {}
    BY <1>3, EmptySeq
  <2>2. QED
    BY <2>1 DEF ForwardsWholePackets, StoredFirst
<1>14. EventsContiguous
  <2>1. 1 .. Len(Pending) - 1 = {}
    BY <1>7, EmptySeq
  <2>2. QED
    BY <1>7, <2>1 DEF EventsContiguous
<1>15. GatheredSoFar /\ ArrivalOK
  BY <1>1, <1>7 DEF GatheredSoFar, InMiddle, ArrivalOK
<1>16. ErrorEndsPass
  BY <1>1 DEF ErrorEndsPass, Running
<1>17. QED
  BY <1>2, <1>9, <1>10, <1>11, <1>12, <1>13, <1>14, <1>15, <1>16 DEF IInv

\* No step of the program or of the card breaks the invariant.
LEMMA NextStep == IInv /\ [Next]_vars => IInv'
<1> SUFFICES ASSUME IInv, [Next]_vars
             PROVE  IInv'
  OBVIOUS
<1>1. CASE IterateHeldBack \/ WriteAgain \/ ParserReads \/ UNCHANGED vars
  BY <1>1, QuietStep
<1>2. CASE Poll
  BY <1>2, PollStep
<1>3. CASE AcceptFragment
  BY <1>3, AcceptFragmentStep
<1>4. CASE AcceptLast
  BY <1>4, AcceptLastStep
<1>5. CASE HandleRxEventDiscard
  BY <1>5, DiscardStep
<1>6. CASE AcceptBadState \/ UnexpectedEvent
  BY <1>6, LeaveStep
<1>7. CASE RefillRxRing
  BY <1>7, RefillStep
<1>8. ASSUME NEW kind \in Kinds, PacketArrives(kind)
      PROVE  IInv'
  BY <1>8, PacketStep
<1>9. CASE FragmentArrives
  BY <1>9, FragmentStep
<1>10. CASE OtherEvent
  BY <1>10, OtherStep
<1>11. QED
  BY <1>1, <1>2, <1>3, <1>4, <1>5, <1>6, <1>7, <1>8, <1>9, <1>10
     DEF Next, InPass, Card

-----------------------------------------------------------------------------
(* What follows from it.                                                    *)

\* The invariant holds whatever arrives and whenever the program looks.
THEOREM ReceiverInvariant == Spec => []IInv
<1>1. Init => IInv
  BY InitEstablishes
<1>2. IInv /\ [Next]_vars => IInv'
  BY NextStep
<1>3. QED
  BY <1>1, <1>2, PTL DEF Spec

\* Every field keeps its type, and a poll takes no more events than fit.
THEOREM ReceiverTypes == Spec => []TypeOK
<1>1. IInv => TypeOK
  BY DEF IInv
<1>2. QED
  BY <1>1, ReceiverInvariant, PTL

\* No packet buffer is lost, nor is one at two places.
THEOREM ReceiverConservesBuffers == Spec => []BuffersConserved
<1>1. IInv => BuffersConserved
  BY DEF IInv
<1>2. QED
  BY <1>1, ReceiverInvariant, PTL

\* What the parser finds in RingBufferPtr0 are whole packets, in their order.
THEOREM ReceiverForwardsWholePackets == Spec => []ForwardsWholePackets
<1>1. IInv => ForwardsWholePackets
  BY DEF IInv
<1>2. QED
  BY <1>1, ReceiverInvariant, PTL

\* The refill neither empties the pool nor overfills the receive ring.
THEOREM ReceiverRefillsWithinBounds == Spec => []RefillWithinBounds
<1>1. IInv => RefillWithinBounds
  BY DEF IInv
<1>2. QED
  BY <1>1, ReceiverInvariant, PTL

-----------------------------------------------------------------------------
(* The channel.                                                             *)

\* An event that announces a last fragment stands for one packet, that of its
\* number.
LEMMA WholeFacts ==
  ASSUME IInv, NEW i \in Rx(Pending), Completes(Pending[i])
  PROVE  /\ Whole(Pending[i]) \in WholePackets
         /\ Channel!Arrival(Whole(Pending[i])) = Number(Pending[i])
         /\ Number(Pending[i]) \in Nat
<1> DEFINE e == Pending[i]
           n == Number(e)
           m == Fragment(e)
<1>1. PICK kind \in Kinds :
        /\ n \in 1 .. arrivals /\ m \in 1 .. Len(kind.upto)
        /\ e.cont = (m # Len(kind.upto)) /\ e.bytes = kind.upto[m]
        /\ e.type = "rx" /\ ~e.cont => ~kind.bad
  BY DEF IInv, EventsFaithful
<1>2. m = Len(kind.upto) /\ ~kind.bad
  BY <1>1 DEF Completes
<1>3. Whole(e) = Payload(kind, n)
  BY <1>1, <1>2 DEF Whole, Payload
<1>4. n \in 1 .. MaxArrivals
  <2>1. arrivals \in 0 .. MaxArrivals /\ MaxArrivals \in Nat
    BY PoolAssumption DEF IInv, TypeOK
  <2>2. QED
    BY <1>1, <2>1
<1>5. Whole(e).data[1].number = n
  <2>1. 1 \in 1 .. m
    BY <1>1, <1>2, PoolAssumption
  <2>2. QED
    BY <2>1 DEF Whole
<1>6. QED
  BY <1>2, <1>3, <1>4, <1>5 DEF WholePackets, Channel!Arrival

\* Packets that wait are told apart by their numbers, and the events of the older
\* ones come first.
LEMMA OldestFirst ==
  ASSUME IInv, NEW i \in Rx(Pending), NEW j \in Rx(Pending), i < j,
         Completes(Pending[i]), Completes(Pending[j])
  PROVE  Channel!Arrival(Whole(Pending[i])) < Channel!Arrival(Whole(Pending[j]))
<1>1. Number(Pending[i]) < Number(Pending[j])
  BY DEF IInv, NumbersOrdered, Completes
<1>2. QED
  BY <1>1, WholeFacts

\* What concerns neither events nor the card nor what is stored is hidden.
LEMMA HiddenStep ==
  ASSUME Pending' = Pending, Ring0!StoredFrames' = Ring0!StoredFrames,
         UNCHANGED <<content, arriving, arrivals, error>>
  PROVE  UNCHANGED Channel!vars
<1>1. WaitingPackets' = WaitingPackets
  BY DEF WaitingPackets, Running, Rx, Completes, Whole, Number, Fragment
<1>2. Running' = Running /\ (arriving # NoPacket)' = (arriving # NoPacket)
  BY DEF Running, NoPacket
<1>3. QED
  BY <1>1, <1>2 DEF Channel!vars

\* With the event at hand goes the packet that it completes, if it does.
LEMMA HandledPackets ==
  ASSUME IInv, Dropped(1), Running, Running'
  PROVE  WaitingPackets' =
           { Whole(Pending[i]) :
               i \in { i \in Rx(Pending) : Completes(Pending[i]) /\ i > 1 } }
<1> DEFINE Rest == { i \in Rx(Pending) : Completes(Pending[i]) /\ i > 1 }
           Left == { i \in Rx(Pending)' : Completes(Pending'[i]) }
<1>1. /\ Pending \in Seq(EventType) /\ Len(Pending) \in Nat
      /\ \A i \in Rx(Pending) : i \in 1 .. Len(Pending) /\ Pending[i].type # "other"
  BY PendingFacts DEF IInv, TypeOK
<1>2. /\ Pending' \in Seq(EventType) /\ Len(Pending') = Len(Pending) - 1
      /\ \A i \in 1 .. Len(Pending') : Pending'[i] = Pending[i + 1]
      /\ content' = content
  BY DEF Dropped
<1>3. \A i \in Left :
        i \in Nat /\ i + 1 \in Rest /\ Pending'[i] = Pending[i + 1]
  <2> SUFFICES ASSUME NEW i \in Left
               PROVE  i \in Nat /\ i + 1 \in Rest /\ Pending'[i] = Pending[i + 1]
    OBVIOUS
  <2>1. i + 1 \in Rx(Pending) /\ Pending'[i] = Pending[i + 1] /\ Completes(Pending'[i])
    BY DropKeeps
  <2>2. i \in 1 .. Len(Pending')
    BY <1>2 DEF Rx
  <2>3. i \in Nat /\ i + 1 > 1
    BY <1>1, <1>2, <2>2
  <2>4. QED
    BY <2>1, <2>3
<1>4. \A j \in Rest : j - 1 \in Left /\ Pending'[j - 1] = Pending[j]
  <2> SUFFICES ASSUME NEW j \in Rest
               PROVE  j - 1 \in Left /\ Pending'[j - 1] = Pending[j]
    OBVIOUS
  <2>1. j \in 1 .. Len(Pending) /\ j > 1 /\ Pending[j].type # "other"
        /\ Completes(Pending[j])
    BY <1>1
  <2>2. j - 1 \in 1 .. Len(Pending') /\ (j - 1) + 1 = j
    BY <1>1, <1>2, <2>1
  <2>3. Pending'[j - 1] = Pending[j]
    BY <1>2, <2>2
  <2>4. j - 1 \in Rx(Pending)'
    BY <1>2, <2>1, <2>2, <2>3 DEF Rx
  <2>5. QED
    BY <2>1, <2>3, <2>4
<1>5. WaitingPackets' = { Whole(Pending[i])' : i \in Left }
  BY DEF WaitingPackets, Completes
<1>6. \A i \in Left : Whole(Pending[i])' = Whole(Pending[i + 1])
  BY <1>2, <1>3 DEF Whole, Number, Fragment
<1>7. \A j \in Rest : (j - 1) + 1 = j
  BY <1>1
<1> HIDE DEF Rest, Left
<1>8. { Whole(Pending[i])' : i \in Left } = { Whole(Pending[j]) : j \in Rest }
  BY <1>3, <1>4, <1>6, <1>7
<1>9. QED
  BY <1>5, <1>8 DEF Rest

\* The event at hand completes no packet: all that wait go on waiting.
LEMMA NoneCompleted ==
  ASSUME IInv, Dropped(1), Running, Running', ~Completes(Pending[1])
  PROVE  WaitingPackets' = WaitingPackets
<1>1. \A i \in Rx(Pending) : i \in 1 .. Len(Pending) /\ Len(Pending) \in Nat
  BY PendingFacts DEF IInv, TypeOK
<1>2. \A i \in Rx(Pending) : Completes(Pending[i]) => i > 1
  BY <1>1
<1>3. QED
  BY <1>2, HandledPackets DEF WaitingPackets

\* The last fragment is stored with all those before it: the packet that waited
\* longest joins what is stored.
LEMMA AcceptLastStores ==
  ASSUME IInv, AcceptLast
  PROVE  Channel!Store(Received) /\ Received \in WholePackets
<1> DEFINE p == Received
           C == { i \in Rx(Pending) : Completes(Pending[i]) }
<1>1. /\ Handling("rx") /\ ~event.cont /\ pc = "events" /\ event.type = "rx"
      /\ Ring0!Write(p) /\ EfEventState' = Tail(EfEventState)
      /\ UNCHANGED card /\ UNCHANGED error
  BY DEF AcceptLast, Handling, NextEvent
<1>2. /\ Running /\ Running' /\ event = Pending[1] /\ 1 \in Rx(Pending)
  BY <1>1, HeadEvent DEF Running
<1>3. Dropped(1)
  BY <1>1, HandledIsDropped
<1>4. p = Whole(Pending[1])
  <2>1. Gathered = [k \in 1 .. Fragment(event) |->
                      [number |-> Number(event), fragment |-> k]]
    BY <1>1, Gathering
  <2>2. QED
    BY <1>2, <2>1 DEF Received, Whole
<1>5. 1 \in C
  BY <1>1, <1>2 DEF Completes
<1>6. \A i \in C : i # 1 => i > 1
  <2>1. \A i \in Rx(Pending) : i \in 1 .. Len(Pending) /\ Len(Pending) \in Nat
    BY PendingFacts DEF IInv, TypeOK
  <2>2. QED
    BY <2>1
<1>7. \A i \in C : i > 1 => Channel!Arrival(p) < Channel!Arrival(Whole(Pending[i]))
  BY <1>4, <1>5, OldestFirst
<1>8. \A i \in C : Channel!Arrival(Whole(Pending[i])) \in Nat
  BY WholeFacts
<1>9. WaitingPackets = { Whole(Pending[i]) : i \in C }
  BY <1>2 DEF WaitingPackets
<1>10. WaitingPackets' = { Whole(Pending[i]) : i \in { i \in C : i > 1 } }
  BY <1>2, <1>3, HandledPackets
<1>11. Channel!Arrival(p) \in Nat
  BY <1>4, <1>5, <1>8
<1>12. p \in WaitingPackets /\ \A q \in WaitingPackets : Channel!Arrival(p) <= Channel!Arrival(q)
  <2>1. p \in WaitingPackets
    BY <1>4, <1>5, <1>9
  <2>2. ASSUME NEW i \in C
        PROVE  Channel!Arrival(p) <= Channel!Arrival(Whole(Pending[i]))
    <3>1. CASE i = 1
      BY <1>4, <1>11, <3>1
    <3>2. CASE i > 1
      BY <1>7, <1>8, <1>11, <3>2
    <3>3. QED
      BY <1>6, <3>1, <3>2
  <2>3. QED
    BY <1>9, <2>1, <2>2
<1>13. WaitingPackets' = WaitingPackets \ {p}
  <2>1. \A i \in C : i > 1 => Whole(Pending[i]) # p
    BY <1>7, <1>11
  <2>2. \A i \in C : Whole(Pending[i]) # p => i > 1
    BY <1>4, <1>6
  <2> HIDE DEF p, C
  <2>3. QED
    BY <1>9, <1>10, <2>1, <2>2
<1>14. p \in WholePackets
  BY <1>1, ReceivedIsWhole
<1>15. Ring0!StoredFrames' = Append(Ring0!StoredFrames, p)
  BY <1>1, <1>14, RingWrite DEF IInv
<1>16. UNCHANGED <<arriving, arrivals>>
  BY <1>1 DEF card
<1>17. QED
  BY <1>2, <1>12, <1>13, <1>14, <1>15, <1>16 DEF Channel!Store, NoPacket

\* A fragment that is not the last, or the end of a rejected packet, completes none.
LEMMA HandledHidden ==
  ASSUME IInv, AcceptFragment \/ HandleRxEventDiscard
  PROVE  UNCHANGED Channel!vars
<1>1. /\ pc = "events" /\ EfEventState' = Tail(EfEventState)
      /\ UNCHANGED card /\ UNCHANGED error /\ UNCHANGED layout
      /\ ~Completes(event)
  BY DEF AcceptFragment, HandleRxEventDiscard, Handling, NextEvent, Completes, ring
<1>2. Running /\ Running' /\ event = Pending[1]
  BY <1>1, HeadEvent DEF Running
<1>3. Dropped(1)
  BY <1>1, HandledIsDropped
<1>4. WaitingPackets' = WaitingPackets
  BY <1>1, <1>2, <1>3, NoneCompleted
<1>5. Ring0!StoredFrames' = Ring0!StoredFrames
  BY <1>1 DEF Ring0!StoredFrames
<1>6. QED
  BY <1>1, <1>2, <1>4, <1>5 DEF Channel!vars, card, NoPacket

\* An error is the end of all that waits, and of nothing that is stored.
LEMMA LeaveGivesUp ==
  ASSUME AcceptBadState \/ UnexpectedEvent
  PROVE  Channel!GiveUp
<1>1. /\ error' \in {"bad state", "unexpected event"}
      /\ UNCHANGED card /\ UNCHANGED layout
  BY DEF AcceptBadState, UnexpectedEvent, Leave, ring
<1>2. Running' = FALSE /\ WaitingPackets' = {}
  BY <1>1 DEF Running, WaitingPackets
<1>3. Ring0!StoredFrames' = Ring0!StoredFrames
  BY <1>1 DEF Ring0!StoredFrames
<1>4. arrivals' = arrivals /\ (arriving # NoPacket)' = (arriving # NoPacket)
  BY <1>1 DEF card, NoPacket
<1>5. QED
  BY <1>2, <1>3, <1>4 DEF Channel!GiveUp

\* The parser takes the oldest packet that is stored.
LEMMA ParserTakes ==
  ASSUME IInv, ParserReads
  PROVE  [Channel!Next]_(Channel!vars)
<1>1. /\ Ring0!Read \/ Ring0!ReadNothing
      /\ UNCHANGED <<EfEventState, error, content, event_queue, arriving, arrivals>>
  BY DEF ParserReads, pass, card
<1>2. /\ Running' = Running /\ (arriving # NoPacket)' = (arriving # NoPacket)
      /\ WaitingPackets' = WaitingPackets
  BY <1>1 DEF Running, NoPacket, WaitingPackets, Pending, Rx, Completes, Whole, Number,
     Fragment
<1>3. CASE Ring0!Read
  <2>1. /\ Ring0!StoredFrames # <<>>
        /\ Ring0!StoredFrames' = Tail(Ring0!StoredFrames)
    BY <1>3, RingRead DEF IInv
  <2>2. Channel!Take
    BY <1>1, <1>2, <2>1 DEF Channel!Take
  <2>3. QED
    BY <2>2 DEF Channel!Next
<1>4. CASE Ring0!ReadNothing
  <2>1. Ring0!StoredFrames' = Ring0!StoredFrames
    BY <1>4 DEF Ring0!ReadNothing, Ring0!StoredFrames
  <2>2. UNCHANGED Channel!vars
    BY <1>1, <1>2, <2>1 DEF Channel!vars
  <2>3. QED
    BY <2>2
<1>5. QED
  BY <1>1, <1>3, <1>4

\* The beginning of a packet is that of its arrival.
LEMMA PacketBegins ==
  ASSUME IInv, NEW kind \in Kinds, PacketArrives(kind)
  PROVE  Channel!Begin
<1>1. /\ arriving = NoPacket /\ arrivals' = arrivals + 1
      /\ arriving' = [number |-> arrivals + 1, kind |-> kind, fragment |-> 1]
      /\ UNCHANGED <<layout, EfEventState, error, content, event_queue>>
  BY DEF PacketArrives, pass, ring
<1>2. arriving' # NoPacket
  <2>1. arrivals \in 0 .. MaxArrivals
    BY DEF IInv, TypeOK
  <2>2. arriving'.number # 0
    BY <1>1, <2>1
  <2>3. QED
    BY <2>2 DEF NoPacket
<1>3. /\ Running' = Running /\ WaitingPackets' = WaitingPackets
      /\ Ring0!StoredFrames' = Ring0!StoredFrames
  BY <1>1 DEF Running, WaitingPackets, Pending, Rx, Completes, Whole, Number, Fragment,
     Ring0!StoredFrames
<1>4. QED
  BY <1>1, <1>2, <1>3 DEF Channel!Begin, NoPacket

\* An event that the program does not know is no packet.
LEMMA OtherSkips ==
  ASSUME IInv, OtherEvent
  PROVE  Channel!Skip
<1> DEFINE e == [type |-> "other"]
<1>1. /\ arriving = NoPacket /\ arriving' = NoPacket /\ arrivals' = arrivals + 1
      /\ event_queue' = Append(event_queue, e) /\ e \in EventType
      /\ UNCHANGED <<layout, EfEventState, error, content>>
  BY DEF OtherEvent, pass, ring, NoPacket, EventType
<1>2. /\ Rx(Pending)' = Rx(Pending)
      /\ \A i \in Rx(Pending) : Pending'[i] = Pending[i]
  BY <1>1, EventAppended DEF IInv
<1>3. { i \in Rx(Pending) : Completes(Pending[i]) }'
        = { i \in Rx(Pending) : Completes(Pending[i]) }
  BY <1>2 DEF Completes
<1>4. \A i \in Rx(Pending) : Whole(Pending[i])' = Whole(Pending[i])
  BY <1>1, <1>2 DEF Whole, Number, Fragment
<1>5. Running' = Running /\ WaitingPackets' = WaitingPackets
  BY <1>1, <1>3, <1>4 DEF Running, WaitingPackets
<1>6. QED
  BY <1>1, <1>5 DEF Channel!Skip, Ring0!StoredFrames

\* With its last fragment a packet is complete, unless the card rejects it.
LEMMA FragmentCompletes ==
  ASSUME IInv, FragmentArrives
  PROVE  [Channel!Next]_(Channel!vars)
<1> DEFINE k == arriving.fragment
           n == arriving.number
           kind == arriving.kind
           last == k = Len(kind.upto)
           p == Payload(kind, n)
           C == { i \in Rx(Pending) : Completes(Pending[i]) }
<1>0. PICK L : L = Len(Pending)
  OBVIOUS
<1>1. /\ arriving # NoPacket /\ n = arrivals /\ n \in 1 .. MaxArrivals
      /\ kind \in Kinds /\ kind.bad \in BOOLEAN /\ k \in Nat \ {0}
      /\ (arriving' = NoPacket) <=> last
      /\ UNCHANGED <<layout, error, arrivals>>
  BY <1>0, FragmentFacts
<1>2. /\ Pending'[L + 1].type = (IF last /\ kind.bad THEN "discard" ELSE "rx")
      /\ Pending'[L + 1].cont = ~last /\ Pending'[L + 1].bytes = kind.upto[k]
      /\ Number(Pending[L + 1])' = n /\ Fragment(Pending[L + 1])' = k
      /\ Rx(Pending)' = Rx(Pending) \cup {L + 1}
      /\ \A i \in Rx(Pending) :
           /\ Number(Pending[i])' = Number(Pending[i])
           /\ Fragment(Pending[i])' = Fragment(Pending[i])
           /\ Pending'[i] = Pending[i]
  BY <1>0, FragmentFacts
<1>3. Completes(Pending'[L + 1]) <=> last /\ ~kind.bad
  BY <1>1, <1>2 DEF Completes
<1>4. last => Whole(Pending[L + 1])' = p
  BY <1>2 DEF Whole, Payload
<1>5. \A i \in Rx(Pending) :
        /\ Whole(Pending[i])' = Whole(Pending[i])
        /\ Completes(Pending'[i]) <=> Completes(Pending[i])
  BY <1>2 DEF Whole
<1>6. C' = IF last /\ ~kind.bad THEN C \cup {L + 1} ELSE C
  <2>1. C' = { i \in Rx(Pending)' : Completes(Pending'[i]) }
    BY DEF Completes
  <2>2. QED
    BY <1>2, <1>3, <1>5, <2>1
<1>7. WaitingPackets' = IF Running /\ last /\ ~kind.bad THEN WaitingPackets \cup {p}
                          ELSE WaitingPackets
  <2>1. /\ WaitingPackets = IF Running THEN { Whole(Pending[i]) : i \in C } ELSE {}
        /\ WaitingPackets' = IF Running THEN { Whole(Pending[i])' : i \in C' } ELSE {}
    BY <1>1 DEF WaitingPackets, Running
  <2>2. \A i \in C : Whole(Pending[i])' = Whole(Pending[i])
    BY <1>5
  <2> HIDE DEF p, C, last, kind
  <2>3. CASE last /\ ~kind.bad
    BY <1>4, <1>6, <2>1, <2>2, <2>3
  <2>4. CASE ~(last /\ ~kind.bad)
    BY <1>6, <2>1, <2>2, <2>4
  <2>5. QED
    BY <2>3, <2>4
<1>8. Running' = Running /\ Ring0!StoredFrames' = Ring0!StoredFrames
  BY <1>1 DEF Running, Ring0!StoredFrames
<1>9. CASE last /\ ~kind.bad
  <2>1. p \in WholePackets
    BY <1>1, <1>9 DEF WholePackets
  <2>2. Channel!Arrival(p) = arrivals
    <3>1. 1 \in 1 .. Len(kind.upto)
      BY <1>1, <1>9
    <3>2. QED
      BY <1>1, <3>1 DEF Payload, Channel!Arrival
  <2>3. Channel!Complete(p)
    BY <1>1, <1>7, <1>8, <1>9, <2>2 DEF Channel!Complete
  <2>4. QED
    BY <2>1, <2>3 DEF Channel!Next
<1>10. CASE last /\ kind.bad
  <2>1. Channel!Reject
    BY <1>1, <1>7, <1>8, <1>10 DEF Channel!Reject
  <2>2. QED
    BY <2>1 DEF Channel!Next
<1>11. CASE ~last
  <2>1. UNCHANGED Channel!vars
    BY <1>1, <1>7, <1>8, <1>11 DEF Channel!vars
  <2>2. QED
    BY <2>1
<1>12. QED
  BY <1>1, <1>9, <1>10, <1>11

\* Each step of the receiver, of the card and of the parser is one of the channel, or
\* none that it knows of.
LEMMA StepImplements == IInv /\ [Next]_vars => [Channel!Next]_(Channel!vars)
<1> SUFFICES ASSUME IInv, [Next]_vars
             PROVE  [Channel!Next]_(Channel!vars)
  OBVIOUS
<1>1. CASE IterateHeldBack \/ WriteAgain \/ UNCHANGED vars
  <2>1. UNCHANGED <<layout, EfEventState, error, content, event_queue, arriving, arrivals>>
    BY <1>1 DEF IterateHeldBack, WriteAgain, Ring0!GetCapacity, Ring0!WriteRefused,
       vars, ring, pass, card
  <2>2. QED
    BY <2>1, HiddenStep DEF Pending, Ring0!StoredFrames
<1>2. CASE Poll
  <2>1. /\ Pending' = Pending
        /\ UNCHANGED <<layout, content, arriving, arrivals, error>>
    BY <1>2, PollMoves
  <2>2. QED
    BY <2>1, HiddenStep DEF Ring0!StoredFrames
<1>3. CASE RefillRxRing
  <2>1. error' # "pool empty"
    BY NextStep DEF IInv, RefillWithinBounds
  <2>2. UNCHANGED <<layout, EfEventState, error, content, event_queue, arriving, arrivals>>
    BY <1>3, <2>1 DEF RefillRxRing, ring
  <2>3. QED
    BY <2>2, HiddenStep DEF Pending, Ring0!StoredFrames
<1>4. CASE AcceptFragment \/ HandleRxEventDiscard
  BY <1>4, HandledHidden
<1>5. CASE AcceptLast
  BY <1>5, AcceptLastStores DEF Channel!Next
<1>6. CASE AcceptBadState \/ UnexpectedEvent
  BY <1>6, LeaveGivesUp DEF Channel!Next
<1>7. CASE ParserReads
  BY <1>7, ParserTakes
<1>8. ASSUME NEW kind \in Kinds, PacketArrives(kind)
      PROVE  Channel!Next
  BY <1>8, PacketBegins DEF Channel!Next
<1>9. CASE FragmentArrives
  BY <1>9, FragmentCompletes
<1>10. CASE OtherEvent
  BY <1>10, OtherSkips DEF Channel!Next
<1>11. QED
  BY <1>1, <1>2, <1>3, <1>4, <1>5, <1>6, <1>7, <1>8, <1>9, <1>10
     DEF Next, InPass, Card

\* In the beginning nothing waits and nothing is stored.
LEMMA InitImplements == Init => Channel!Init
<1> SUFFICES ASSUME Init
             PROVE  Channel!Init
  OBVIOUS
<1>1. /\ layout = <<>> /\ EfEventState = <<>> /\ event_queue = <<>>
      /\ error = "none" /\ arriving = NoPacket /\ arrivals = 0
  BY DEF Init, Ring0!Init
<1>2. Rx(Pending) = {}
  <2>1. Pending = <<>>
    BY <1>1 DEF Pending
  <2>2. QED
    BY <2>1 DEF Rx
<1>3. Running /\ WaitingPackets = {} /\ Ring0!StoredFrames = <<>>
  BY <1>1, <1>2 DEF Running, WaitingPackets, Ring0!StoredFrames
<1>4. QED
  BY <1>1, <1>3 DEF Channel!Init

\* Every packet that the card does not reject reaches the parser once, whole and in
\* its order, for as long as the receiver runs.
THEOREM ReceiverImplementsChannel == Spec => ImplementsChannel
<1>1. Init => Channel!Init
  BY InitImplements
<1>2. IInv /\ [Next]_vars => [Channel!Next]_(Channel!vars)
  BY StepImplements
<1>3. QED
  BY <1>1, <1>2, ReceiverInvariant, PTL DEF Spec, ImplementsChannel, Channel!Spec

=============================================================================
