------------------ MODULE NetworkReceiverImplementationEFVI ------------------
(***************************************************************************)
(* NetworkReceiverImplementationEFVI.cpp, from the end of Initialize on:   *)
(* packet buffers circulate between a pool, the receive ring of the        *)
(* network card and the events that tell of received fragments; fragments  *)
(* are put together to packets, and a whole packet is stored in            *)
(* RingBufferPtr0, from which the parser reads.                            *)
(*                                                                         *)
(* The card runs concurrently with the program.  It and the library are    *)
(* not part of the repository; what is assumed of them: a packet takes the *)
(* posted buffers in order, one per fragment, or is dropped at once if too *)
(* few are posted; each fragment makes one event; the size in an event     *)
(* counts from the start of the packet; a packet that the card rejects is  *)
(* known as such at its end, so only the event of its last fragment is a   *)
(* discard; the fill level counts buffers until their event is polled.     *)
(*                                                                         *)
(* Left out: the timestamp, which makes a stored packet 8 bytes longer,    *)
(* and the members buf_ids and frag_data_len, which nothing reads.         *)
(***************************************************************************)
EXTENDS Integers, Sequences, SequencesExt, FiniteSetsExt

CONSTANTS
  BufferLines, LowWater, CounterModulus,   \* of RingBufferPtr0
  PKT_POOL_SIZE,
  RxCapacity,          \* max_fill_level, what ef_vi_receive_capacity answers
  REFILL_BATCH_SIZE,
  MaxEvents,           \* length of EfEventState
  Kinds,               \* packets: [upto, bad]; upto[k] is the payload in bytes
                       \* up to fragment k, bad says that the card rejects it
  MaxArrivals          \* bound: number of packets that arrive

Buffers == 0 .. PKT_POOL_SIZE - 1

\* Whole packets as they are stored; number, in the order of arrival, is
\* auxiliary.
Payload(kind, number) ==
  [ len  |-> kind.upto[Len(kind.upto)],
    data |-> [k \in 1 .. Len(kind.upto) |-> [number |-> number, fragment |-> k]] ]

WholePackets ==
  { Payload(kind, number) :
      kind \in { kind \in Kinds : ~kind.bad }, number \in 1 .. MaxArrivals }

VARIABLES
  buffer_size, write_index, read_index, NumberOfStoredBytes, FramesStored, marks,
  SlipCounter, ptr, ringbufsnap, out, layout,      \* RingBufferPtr0
  free_pool,             \* buffers, the one to be taken next first
  in_pkt, payload_bytes, data,                     \* jumbo
  EfEventState,          \* events polled and not handled yet
  pc,                    \* "idle", "events" or, between two of these, "refill"
  error,                 \* why the program was told to stop, or "none"
  rx_ring,               \* card: posted buffers, the one to be filled first
  content,               \* card: the fragment that it wrote to each buffer
  event_queue,           \* card: events not polled yet
  arriving,              \* card: the packet that arrives, its next fragment
  arrivals               \* number of packets so far

Ring0 == INSTANCE RingFIFOBuffer WITH Frames <- WholePackets

ASSUME PoolAssumption ==
  /\ Ring0!BufferAssumption /\ Ring0!FramesAssumption
  /\ MaxEvents \in Nat \ {0} /\ MaxArrivals \in Nat
  /\ REFILL_BATCH_SIZE \in Nat \ {0}
  /\ RxCapacity \in Nat /\ REFILL_BATCH_SIZE <= RxCapacity
  /\ PKT_POOL_SIZE \in Nat /\ RxCapacity <= PKT_POOL_SIZE
  /\ \A kind \in Kinds : kind.upto \in Seq(Nat) \ {<<>>} /\ kind.bad \in BOOLEAN

ring == <<buffer_size, write_index, read_index, NumberOfStoredBytes, FramesStored,
          marks, SlipCounter, ptr, ringbufsnap, out, layout>>
jumbo == <<in_pkt, payload_bytes, data>>
pass  == <<EfEventState, pc, error>>
card  == <<rx_ring, content, event_queue, arriving, arrivals>>
vars  == <<ring, free_pool, jumbo, pass, card>>

Nothing == [number |-> 0, fragment |-> 0]
NoPacket == [number |-> 0]

-----------------------------------------------------------------------------
(* RefillRxRing: batches until the ring is filled but for one.             *)

\* The events that hand a buffer back to the program.
Rx(events) == { i \in DOMAIN events : events[i].type # "other" }

FillOf(posted, events) == Len(posted) + Cardinality(Rx(events))
FillLevel == FillOf(rx_ring, event_queue)

MutantRefillLevel == RxCapacity
RefillLevel       == RxCapacity - REFILL_BATCH_SIZE

\* do { ... } while (fill level < refill level) ends after this many batches.
StopsAfter(n, fill) ==
  /\ fill + n * REFILL_BATCH_SIZE >= RefillLevel
  /\ n = 1 \/ fill + (n - 1) * REFILL_BATCH_SIZE < RefillLevel

Init ==
  /\ Ring0!Init
  \* ConfigBuffer pushed the buffers in order; RefillRxRing took the first.
  /\ \E n \in 1 .. RxCapacity :
       LET taken == n * REFILL_BATCH_SIZE IN
       /\ StopsAfter(n, 0)
       /\ free_pool = [i \in 1 .. PKT_POOL_SIZE - taken |-> PKT_POOL_SIZE - taken - i]
       /\ rx_ring = [i \in 1 .. taken |-> PKT_POOL_SIZE - i]
  /\ in_pkt = FALSE /\ payload_bytes = 0 /\ data = <<>>
  /\ EfEventState = <<>> /\ pc = "idle" /\ error = "none"
  /\ content = [b \in Buffers |-> Nothing]
  /\ event_queue = <<>>
  /\ arriving = NoPacket /\ arrivals = 0

RefillRxRing ==
  /\ pc = "refill"
  /\ IF RxCapacity - FillLevel < REFILL_BATCH_SIZE
       THEN UNCHANGED <<free_pool, rx_ring, error>>
       ELSE \E n \in 1 .. RxCapacity :
              LET taken == n * REFILL_BATCH_SIZE IN
              /\ StopsAfter(n, FillLevel)
              /\ IF taken <= Len(free_pool)
                   THEN /\ rx_ring' = rx_ring \o SubSeq(free_pool, 1, taken)
                        /\ free_pool' = SubSeq(free_pool, taken + 1, Len(free_pool))
                        /\ UNCHANGED error
                   ELSE error' = "pool empty" /\ UNCHANGED <<free_pool, rx_ring>>
  /\ pc' = "idle"
  /\ UNCHANGED <<ring, jumbo, EfEventState, content, event_queue, arriving, arrivals>>

-----------------------------------------------------------------------------
(* Iterate and IterateInternalEFVI.                                        *)

GateOpen == Ring0!capacity >= LowWater

Running == error = "none"

IterateHeldBack ==
  /\ pc = "idle" /\ Running /\ ~GateOpen
  /\ Ring0!GetCapacity
  /\ UNCHANGED <<free_pool, jumbo, pass, card>>

\* sizeof(EfEventState) / sizeof(EfEventState[0])
MutantSizeInBytes == 2 * MaxEvents
Polled            == MaxEvents

Poll ==
  LET n == Min({Polled, Len(event_queue)}) IN
  /\ pc = "idle" /\ Running /\ GateOpen
  /\ EfEventState' = SubSeq(event_queue, 1, n)
  /\ event_queue' = SubSeq(event_queue, n + 1, Len(event_queue))
  /\ pc' = IF n = 0 THEN "refill" ELSE "events"
  /\ UNCHANGED <<ring, free_pool, jumbo, error, rx_ring, content, arriving, arrivals>>

event == Head(EfEventState)

\* The for loop: the next event, the refill, or with an error neither.
NextEvent ==
  /\ EfEventState' = Tail(EfEventState)
  /\ pc' = IF Len(EfEventState) = 1 THEN "refill" ELSE "events"
  /\ UNCHANGED error

\* The events left over are forgotten.
Leave(reason) ==
  /\ error' = reason
  /\ EfEventState' = <<>>
  /\ pc' = "idle"

-----------------------------------------------------------------------------
(* HandleRxEventAccept and HandleRxEventDiscard.                           *)

Handling(type) == pc = "events" /\ event.type = type

BadState == event.start = in_pkt

\* The fragments in jumbo.data after the event.
Gathered == IF event.start THEN <<content[event.buffer]>>
              ELSE Append(data, content[event.buffer])

MutantFreeLast == IF event.cont THEN free_pool ELSE <<event.buffer>> \o free_pool
PktBufFree     == <<event.buffer>> \o free_pool

AcceptBadState ==
  /\ Handling("rx") /\ BadState
  /\ Leave("bad state")
  /\ UNCHANGED <<ring, free_pool, jumbo, card>>

AcceptFragment ==
  /\ Handling("rx") /\ ~BadState /\ event.cont
  /\ in_pkt' = TRUE
  /\ payload_bytes' = event.bytes
  /\ data' = Gathered
  /\ free_pool' = PktBufFree
  /\ NextEvent
  /\ UNCHANGED <<ring, card>>

Received == [len |-> event.bytes, data |-> Gathered]

AcceptLast ==
  /\ Handling("rx") /\ ~BadState /\ ~event.cont
  /\ Ring0!Write(Received)
  /\ in_pkt' = FALSE
  /\ payload_bytes' = event.bytes
  /\ data' = Gathered
  /\ free_pool' = PktBufFree
  /\ NextEvent
  /\ UNCHANGED card

MutantWriteOnce ==
  /\ Handling("rx") /\ ~BadState /\ ~event.cont
  /\ Ring0!WriteRefused(Received)
  /\ in_pkt' = FALSE /\ payload_bytes' = event.bytes /\ data' = Gathered
  /\ free_pool' = PktBufFree
  /\ NextEvent
  /\ UNCHANGED card

\* do { ... } while (NumberOfPayloadBytes == 0); jumbo is already as it will be
\* then, but nothing reads it before.
WriteAgain ==
  /\ Handling("rx") /\ ~BadState /\ ~event.cont
  /\ Ring0!WriteRefused(Received)
  /\ UNCHANGED <<free_pool, jumbo, pass, card>>

HandleRxEventDiscard ==
  /\ Handling("discard")
  /\ free_pool' = PktBufFree
  /\ NextEvent
  /\ UNCHANGED <<ring, jumbo, card>>

UnexpectedEvent ==
  /\ Handling("other")
  /\ Leave("unexpected event")
  /\ UNCHANGED <<ring, free_pool, jumbo, card>>

InPass ==
  \/ AcceptBadState \/ AcceptFragment \/ AcceptLast \/ WriteAgain
  \/ HandleRxEventDiscard \/ UnexpectedEvent
  \/ RefillRxRing

ParserReads ==
  /\ pc = "idle" /\ Running
  /\ Ring0!Read \/ Ring0!ReadNothing
  /\ UNCHANGED <<free_pool, jumbo, pass, card>>

-----------------------------------------------------------------------------
(* The card.                                                               *)

PacketArrives(kind) ==
  /\ arriving = NoPacket /\ arrivals < MaxArrivals
  /\ Len(kind.upto) <= Len(rx_ring)
  /\ arrivals' = arrivals + 1
  /\ arriving' = [number |-> arrivals + 1, kind |-> kind, fragment |-> 1]
  /\ UNCHANGED <<ring, free_pool, jumbo, pass, rx_ring, content, event_queue>>

FragmentArrives ==
  LET k    == arriving.fragment
      kind == arriving.kind
      last == k = Len(kind.upto)
      b    == Head(rx_ring)
  IN
  /\ arriving # NoPacket
  /\ rx_ring' = Tail(rx_ring)
  /\ content' = [content EXCEPT ![b] = [number |-> arriving.number, fragment |-> k]]
  /\ event_queue' =
       Append(event_queue,
         [ type |-> IF last /\ kind.bad THEN "discard" ELSE "rx", buffer |-> b,
           start |-> k = 1, cont |-> ~last, bytes |-> kind.upto[k] ])
  /\ arriving' = IF last THEN NoPacket ELSE [arriving EXCEPT !.fragment = k + 1]
  /\ UNCHANGED <<ring, free_pool, jumbo, pass, arrivals>>

\* An event that the program does not know takes no buffer.
OtherEvent ==
  /\ arriving = NoPacket /\ arrivals < MaxArrivals
  /\ arrivals' = arrivals + 1
  /\ event_queue' = Append(event_queue, [type |-> "other"])
  /\ UNCHANGED <<ring, free_pool, jumbo, pass, rx_ring, content, arriving>>

Card == (\E kind \in Kinds : PacketArrives(kind)) \/ FragmentArrives \/ OtherEvent

Next == IterateHeldBack \/ Poll \/ InPass \/ ParserReads \/ Card

Spec == Init /\ [][Next]_vars

-----------------------------------------------------------------------------
EventType ==
  [ type : {"rx", "discard"}, buffer : Buffers, start : BOOLEAN, cont : BOOLEAN,
    bytes : Nat ] \cup [ type : {"other"} ]
FragmentType == [ number : 0 .. MaxArrivals, fragment : Nat ]

\* Every field has the type of its declaration; EfEventState holds no more
\* events than it has room for.
TypeOK ==
  /\ Ring0!TypeOK
  /\ free_pool \in Seq(Buffers) /\ rx_ring \in Seq(Buffers)
  /\ in_pkt \in BOOLEAN /\ payload_bytes \in Nat
  /\ data \in Seq(FragmentType)
  /\ EfEventState \in Seq(EventType) /\ Len(EfEventState) <= MaxEvents
  /\ pc \in {"idle", "events", "refill"} /\ (pc = "events" <=> EfEventState # <<>>)
  /\ error \in {"none", "bad state", "unexpected event", "pool empty"}
  /\ content \in [Buffers -> FragmentType]
  /\ event_queue \in Seq(EventType)
  /\ arrivals \in 0 .. MaxArrivals
  /\ arriving = NoPacket \/ arriving \in [ number : 1 .. MaxArrivals, kind : Kinds,
                                           fragment : Nat \ {0} ]

\* Events not handled yet, whether the program has polled them or not.
Pending == EfEventState \o event_queue

Free   == ToSet(free_pool)
Posted == ToSet(rx_ring)
InUse  == { Pending[i].buffer : i \in Rx(Pending) }

\* Every packet buffer is at exactly one place -- in the pool, with the card or
\* in an event not handled yet -- whichever events come in which order; only
\* an error that ends the program may lose some, and never is one twice there.
BuffersConserved ==
  /\ IsInjective(free_pool) /\ IsInjective(rx_ring)
  /\ \A i, j \in Rx(Pending) : i # j => Pending[i].buffer # Pending[j].buffer
  /\ Free \cap Posted = {} /\ Free \cap InUse = {} /\ Posted \cap InUse = {}
  /\ Running => Free \cup Posted \cup InUse = Buffers

\* What is stored for the parser are whole packets that the card did not
\* reject, each once and in the order of arrival, though the card goes on
\* writing to buffers while fragments are put together.
ForwardsWholePackets ==
  /\ \A i \in DOMAIN layout : layout[i].frame \in WholePackets
  /\ \A i, j \in DOMAIN layout :
       i < j => layout[i].frame.data[1].number < layout[j].frame.data[1].number

\* The refill neither runs into the end of the pool, where the code would
\* follow a NULL pointer, nor posts more than the receive ring holds.
RefillWithinBounds ==
  /\ error # "pool empty"
  /\ FillLevel <= RxCapacity

-----------------------------------------------------------------------------
(* What makes them inductive.                                               *)

Number(e)   == content[e.buffer].number
Fragment(e) == content[e.buffer].fragment

\* The buffer of a pending event still holds the fragment that it announces.
EventsFaithful ==
  \A i \in Rx(Pending) :
    LET e == Pending[i] IN
    \E kind \in Kinds :
      /\ Number(e) \in 1 .. arrivals
      /\ Fragment(e) \in 1 .. Len(kind.upto)
      /\ e.start = (Fragment(e) = 1)
      /\ e.cont = (Fragment(e) # Len(kind.upto))
      /\ e.bytes = kind.upto[Fragment(e)]
      /\ e.type = "rx" /\ ~e.cont => ~kind.bad
      /\ e.type = "discard" => ~e.cont

\* The packet that arrives is the newest one; the card has room for the rest.
ArrivalOK ==
  arriving # NoPacket =>
    /\ arriving.kind \in Kinds /\ arriving.number = arrivals
    /\ arriving.fragment \in 1 .. Len(arriving.kind.upto)
    /\ Len(arriving.kind.upto) - arriving.fragment < Len(rx_ring)

\* Behind a fragment that is continued comes the next one of its packet, behind
\* any other event the start of a packet.
Continued(e)  == e.type # "other" /\ e.cont
Continues(e)  == e.type # "other" /\ ~e.start
Follows(e, f) ==
  IF Continued(e)
    THEN Continues(f) /\ Number(f) = Number(e) /\ Fragment(f) = Fragment(e) + 1
    ELSE ~Continues(f)

InMiddle == arriving # NoPacket /\ arriving.fragment > 1

EventsContiguous ==
  /\ \A i \in 1 .. Len(Pending) - 1 : Follows(Pending[i], Pending[i + 1])
  /\ Pending # <<>> =>
       LET e == Pending[Len(Pending)] IN
       IF Continued(e)
         THEN InMiddle /\ arriving.number = Number(e)
                       /\ arriving.fragment = Fragment(e) + 1
         ELSE ~InMiddle

\* jumbo holds what came before the fragment that is handled next.
Gathers(number, n) ==
  data = [k \in 1 .. n |-> [number |-> number, fragment |-> k]]

GatheredSoFar ==
  Running =>
    /\ Pending # <<>> /\ Continues(Pending[1]) =>
         Gathers(Number(Pending[1]), Fragment(Pending[1]) - 1)
    /\ Pending = <<>> /\ InMiddle => Gathers(arriving.number, arriving.fragment - 1)

\* Packets come in the order of their numbers, the stored ones before all others.
NumberOf(i) == layout[i].frame.data[1].number

NumbersOrdered ==
  /\ \A i, j \in Rx(Pending) :
       i < j => IF Pending[i].cont THEN Number(Pending[i]) <= Number(Pending[j])
                  ELSE Number(Pending[i]) < Number(Pending[j])
  /\ arriving # NoPacket =>
       \A i \in Rx(Pending) : ~Pending[i].cont => Number(Pending[i]) < arriving.number

StoredFirst ==
  \A i \in DOMAIN layout :
    /\ NumberOf(i) \in 1 .. arrivals
    /\ \A j \in Rx(Pending) : NumberOf(i) < Number(Pending[j])
    /\ arriving # NoPacket => NumberOf(i) < arriving.number

\* An error ends the pass in which it occurs.
ErrorEndsPass == pc # "idle" => Running

IInv ==
  /\ TypeOK
  /\ Ring0!IInv
  /\ BuffersConserved
  /\ ForwardsWholePackets
  /\ RefillWithinBounds
  /\ EventsFaithful
  /\ ArrivalOK
  /\ EventsContiguous
  /\ GatheredSoFar
  /\ NumbersOrdered
  /\ StoredFirst
  /\ ErrorEndsPass

-----------------------------------------------------------------------------
(* The channel that the receiver implements.                                *)

\* The packet whose last fragment an event announces.
Completes(e) == e.type = "rx" /\ ~e.cont
Whole(e) ==
  [ len  |-> e.bytes,
    data |-> [k \in 1 .. Fragment(e) |-> [number |-> Number(e), fragment |-> k]] ]

WaitingPackets ==
  IF Running
    THEN { Whole(Pending[i]) : i \in { i \in Rx(Pending) : Completes(Pending[i]) } }
    ELSE {}

\* Between the card and the parser no packet gets lost, comes twice or overtakes
\* another, however its fragments are spread over buffers, polls and passes of
\* the loop, until the receiver gives up.
Channel == INSTANCE PacketChannel WITH
             Packets <- WholePackets, coming <- arriving # NoPacket,
             arrived <- arrivals, waiting <- WaitingPackets,
             stored <- Ring0!StoredFrames, open <- Running

ImplementsChannel == Channel!Spec

-----------------------------------------------------------------------------
\* What the comment at NetworkReceiverImplementationEFVI.cpp:228 calls an
\* inconsistent state does not come about.
ReassemblyConsistent == error # "bad state"

=============================================================================
