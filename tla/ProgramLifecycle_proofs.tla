----------------------- MODULE ProgramLifecycle_proofs -----------------------
(***************************************************************************)
(* The safety of the program's life around its loop.  The chain: which     *)
(* objects and resources there are says how far Initialize came, a         *)
(* ReturnValue of 0 says that every part is up, and Uninitialize deletes   *)
(* the objects in an order in which whatever one of them uses is still     *)
(* there.                                                                  *)
(***************************************************************************)
EXTENDS ProgramLifecycle, TLAPS

-----------------------------------------------------------------------------
LEMMA DeletionsFacts ==
  /\ Len(Deletions) = 12
  /\ DOMAIN Deletions = 1 .. 12
  /\ Deletions[1] = "inserter" /\ Deletions[2] = "parser" /\ Deletions[3] = "receiver"
  /\ Deletions[4] = "ring0" /\ Deletions[5] = "ring1" /\ Deletions[6] = "common"
  /\ Deletions[7] = "keyboard" /\ Deletions[8] = "percentile" /\ Deletions[9] = "tsc"
  /\ Deletions[10] = "processor" /\ Deletions[11] = "arguments" /\ Deletions[12] = "logger"
  BY DEF Deletions

LEMMA AllObjectsAre ==
  AllObjects = {"inserter", "parser", "receiver", "ring0", "ring1", "common",
                "keyboard", "percentile", "tsc", "processor", "arguments", "logger"}
<1>1. AllObjects = { Deletions[i] : i \in 1 .. 12 }
  BY DeletionsFacts DEF AllObjects
<1>2. 1 .. 12 = {1, 2, 3, 4, 5, 6, 7, 8, 9, 10, 11, 12}
  BY SMT
<1>. QED  BY <1>1, <1>2, DeletionsFacts

\* No object is deleted twice in one call.
LEMMA DeletedOnce ==
  ASSUME NEW d \in 1 .. 12, NEW i \in d + 1 .. 12
  PROVE  Deletions[i] # Deletions[d]
BY DeletionsFacts

\* Uninitialize starts with all of them.
LEMMA AllAtFirst == { Deletions[i] : i \in 1 .. Len(Deletions) } = AllObjects
BY DeletionsFacts DEF AllObjects

LEMMA InitEstablishes == Init => IInv
<1>. SUFFICES ASSUME Init  PROVE IInv
  OBVIOUS
<1>. USE DEF Init
<1>1. TypeOK
  <2>1. deletion \in 1 .. Len(Deletions) + 1 /\ calls \in 0 .. 2 /\ ReturnValue \in {0, -1}
    BY DeletionsFacts
  <2>2. WriterFlags \in FlagsInLoop \cup { {"Shutdown"} }
    BY DEF FlagsInLoop
  <2>. QED  BY <2>1, <2>2 DEF TypeOK
<1>2. ObjectsOK
  BY DEF ObjectsOK, AtReceiver, AtInserter, AtEnd
<1>3. AcquiredOK
  BY DEF AcquiredOK, AtReceiver
<1>4. MappingOK
  BY DEF MappingOK, AtReceiver, AtInserter, AtEnd
<1>5. ReadyOK /\ RanOK
  BY DEF ReadyOK, RanOK, AtInserter, AtEnd
<1>6. NoFaultAtEnd
  BY DEF NoFaultAtEnd
<1>. QED  BY <1>1, <1>2, <1>3, <1>4, <1>5, <1>6 DEF IInv

-----------------------------------------------------------------------------
(* Initialize, call by call.                                                *)

LEMMA StartStep ==
  ASSUME IInv,
         NEW ok \in BOOLEAN, Start(ok)
  PROVE  IInv'
<1>. USE DEF IInv, Start, inserter, leaving, history
<1>1. TypeOK'
  BY AllObjectsAre DEF TypeOK, Resources, ReceiverResources, OrResult, Result
<1>2. ObjectsOK'
  BY AllObjectsAre DEF ObjectsOK, AtReceiver, AtInserter, AtEnd
<1>3. AcquiredOK'
  BY DEF AcquiredOK, AtReceiver, ReceiverResources, Resources, ReceiverResources, OrResult, Result
<1>4. MappingOK'
  BY DEF MappingOK, AtReceiver, AtInserter, AtEnd
<1>5. ReadyOK'
  BY DEF ReadyOK, AtInserter, Resources, ReceiverResources, OrResult, Result
<1>6. RanOK'
  BY DEF RanOK, AtEnd
<1>7. NoFaultAtEnd'
  BY DEF NoFaultAtEnd
<1>. QED  BY <1>1, <1>2, <1>3, <1>4, <1>5, <1>6, <1>7

LEMMA NewCommonDataStep ==
  ASSUME IInv, NewCommonData
  PROVE  IInv'
<1>. USE DEF IInv, NewCommonData, inserter, leaving, history
<1>1. TypeOK'
  BY AllObjectsAre DEF TypeOK, Resources, ReceiverResources, OrResult, Result
<1>2. ObjectsOK'
  BY AllObjectsAre DEF ObjectsOK, AtReceiver, AtInserter, AtEnd
<1>3. AcquiredOK'
  BY DEF AcquiredOK, AtReceiver, ReceiverResources, Resources, ReceiverResources, OrResult, Result
<1>4. MappingOK'
  BY DEF MappingOK, AtReceiver, AtInserter, AtEnd
<1>5. ReadyOK'
  BY DEF ReadyOK, AtInserter, Resources, ReceiverResources, OrResult, Result
<1>6. RanOK'
  BY DEF RanOK, AtEnd
<1>7. NoFaultAtEnd'
  BY DEF NoFaultAtEnd
<1>. QED  BY <1>1, <1>2, <1>3, <1>4, <1>5, <1>6, <1>7

LEMMA BadArgumentsStep ==
  ASSUME IInv, BadArguments
  PROVE  IInv'
<1>. USE DEF IInv, BadArguments, ReceiverFails, ReceiverReturns, acquiring, inserter, leaving, history
<1>1. TypeOK'
  BY AllObjectsAre DEF TypeOK, Resources, ReceiverResources, OrResult, Result
<1>2. ObjectsOK'
  BY AllObjectsAre DEF ObjectsOK, AtReceiver, AtInserter, AtEnd
<1>3. AcquiredOK'
  BY DEF AcquiredOK, AtReceiver, ReceiverResources, Resources, ReceiverResources, OrResult, Result
<1>4. MappingOK'
  BY DEF MappingOK, AtReceiver, AtInserter, AtEnd
<1>5. ReadyOK'
  BY DEF ReadyOK, AtInserter, Resources, ReceiverResources, OrResult, Result
<1>6. RanOK'
  BY DEF RanOK, AtEnd
<1>7. NoFaultAtEnd'
  BY DEF NoFaultAtEnd
<1>. QED  BY <1>1, <1>2, <1>3, <1>4, <1>5, <1>6, <1>7

LEMMA OpenDriverStep ==
  ASSUME IInv,
         NEW ok \in BOOLEAN, OpenDriver(ok)
  PROVE  IInv'
<1>. USE DEF IInv, OpenDriver, Flagged, inserter, leaving, history
<1>1. TypeOK'
  BY AllObjectsAre DEF TypeOK, Resources, ReceiverResources, OrResult, Result
<1>2. ObjectsOK'
  BY AllObjectsAre DEF ObjectsOK, AtReceiver, AtInserter, AtEnd
<1>3. AcquiredOK'
  BY DEF AcquiredOK, AtReceiver, ReceiverResources, Resources, ReceiverResources, OrResult, Result
<1>4. MappingOK'
  BY DEF MappingOK, AtReceiver, AtInserter, AtEnd
<1>5. ReadyOK'
  BY DEF ReadyOK, AtInserter, Resources, ReceiverResources, OrResult, Result
<1>6. RanOK'
  BY DEF RanOK, AtEnd
<1>7. NoFaultAtEnd'
  BY DEF NoFaultAtEnd
<1>. QED  BY <1>1, <1>2, <1>3, <1>4, <1>5, <1>6, <1>7

LEMMA AllocatePdStep ==
  ASSUME IInv,
         NEW ok \in BOOLEAN, Allocate("pd", "vi", ok)
  PROVE  IInv'
<1>. USE DEF IInv, Allocate, Flagged, ReceiverFails, ReceiverReturns, inserter, leaving, history
<1>1. TypeOK'
  BY AllObjectsAre DEF TypeOK, Resources, ReceiverResources, OrResult, Result
<1>2. ObjectsOK'
  BY AllObjectsAre DEF ObjectsOK, AtReceiver, AtInserter, AtEnd
<1>3. AcquiredOK'
  BY DEF AcquiredOK, AtReceiver, ReceiverResources, Resources, ReceiverResources, OrResult, Result
<1>4. MappingOK'
  BY DEF MappingOK, AtReceiver, AtInserter, AtEnd
<1>5. ReadyOK'
  BY DEF ReadyOK, AtInserter, Resources, ReceiverResources, OrResult, Result
<1>6. RanOK'
  BY DEF RanOK, AtEnd
<1>7. NoFaultAtEnd'
  BY DEF NoFaultAtEnd
<1>. QED  BY <1>1, <1>2, <1>3, <1>4, <1>5, <1>6, <1>7

LEMMA AllocateViStep ==
  ASSUME IInv,
         NEW ok \in BOOLEAN, Allocate("vi", "memory", ok)
  PROVE  IInv'
<1>. USE DEF IInv, Allocate, Flagged, ReceiverFails, ReceiverReturns, inserter, leaving, history
<1>1. TypeOK'
  BY AllObjectsAre DEF TypeOK, Resources, ReceiverResources, OrResult, Result
<1>2. ObjectsOK'
  BY AllObjectsAre DEF ObjectsOK, AtReceiver, AtInserter, AtEnd
<1>3. AcquiredOK'
  BY DEF AcquiredOK, AtReceiver, ReceiverResources, Resources, ReceiverResources, OrResult, Result
<1>4. MappingOK'
  BY DEF MappingOK, AtReceiver, AtInserter, AtEnd
<1>5. ReadyOK'
  BY DEF ReadyOK, AtInserter, Resources, ReceiverResources, OrResult, Result
<1>6. RanOK'
  BY DEF RanOK, AtEnd
<1>7. NoFaultAtEnd'
  BY DEF NoFaultAtEnd
<1>. QED  BY <1>1, <1>2, <1>3, <1>4, <1>5, <1>6, <1>7

LEMMA InitPktsMemoryStep ==
  ASSUME IInv,
         NEW aligned \in BOOLEAN, NEW registered \in BOOLEAN, InitPktsMemory(aligned, registered)
  PROVE  IInv'
<1>. USE DEF IInv, InitPktsMemory, Flagged, ReceiverFails, ReceiverReturns, inserter, leaving, history
<1>1. TypeOK'
  BY AllObjectsAre DEF TypeOK, Resources, ReceiverResources, OrResult, Result
<1>2. ObjectsOK'
  BY AllObjectsAre DEF ObjectsOK, AtReceiver, AtInserter, AtEnd
<1>3. AcquiredOK'
  BY DEF AcquiredOK, AtReceiver, ReceiverResources, Resources, ReceiverResources, OrResult, Result
<1>4. MappingOK'
  BY DEF MappingOK, AtReceiver, AtInserter, AtEnd
<1>5. ReadyOK'
  BY DEF ReadyOK, AtInserter, Resources, ReceiverResources, OrResult, Result
<1>6. RanOK'
  BY DEF RanOK, AtEnd
<1>7. NoFaultAtEnd'
  BY DEF NoFaultAtEnd
<1>. QED  BY <1>1, <1>2, <1>3, <1>4, <1>5, <1>6, <1>7

LEMMA AddFilterStep ==
  ASSUME IInv,
         NEW ok \in BOOLEAN, AddFilter(ok)
  PROVE  IInv'
<1>. USE DEF IInv, AddFilter, ReceiverFails, ReceiverReturns, acquiring, inserter, leaving, history
<1>1. TypeOK'
  BY AllObjectsAre DEF TypeOK, Resources, ReceiverResources, OrResult, Result
<1>2. ObjectsOK'
  BY AllObjectsAre DEF ObjectsOK, AtReceiver, AtInserter, AtEnd
<1>3. AcquiredOK'
  BY DEF AcquiredOK, AtReceiver, ReceiverResources, Resources, ReceiverResources, OrResult, Result
<1>4. MappingOK'
  BY DEF MappingOK, AtReceiver, AtInserter, AtEnd
<1>5. ReadyOK'
  BY DEF ReadyOK, AtInserter, Resources, ReceiverResources, OrResult, Result
<1>6. RanOK'
  BY DEF RanOK, AtEnd
<1>7. NoFaultAtEnd'
  BY DEF NoFaultAtEnd
<1>. QED  BY <1>1, <1>2, <1>3, <1>4, <1>5, <1>6, <1>7

LEMMA OpenSocketStep ==
  ASSUME IInv,
         NEW ok \in BOOLEAN, OpenSocket(ok)
  PROVE  IInv'
<1>. USE DEF IInv, OpenSocket, ReceiverFails, ReceiverReturns, inserter, leaving, history
<1>1. TypeOK'
  BY AllObjectsAre DEF TypeOK, Resources, ReceiverResources, OrResult, Result
<1>2. ObjectsOK'
  BY AllObjectsAre DEF ObjectsOK, AtReceiver, AtInserter, AtEnd
<1>3. AcquiredOK'
  BY DEF AcquiredOK, AtReceiver, ReceiverResources, Resources, ReceiverResources, OrResult, Result
<1>4. MappingOK'
  BY DEF MappingOK, AtReceiver, AtInserter, AtEnd
<1>5. ReadyOK'
  BY DEF ReadyOK, AtInserter, Resources, ReceiverResources, OrResult, Result
<1>6. RanOK'
  BY DEF RanOK, AtEnd
<1>7. NoFaultAtEnd'
  BY DEF NoFaultAtEnd
<1>. QED  BY <1>1, <1>2, <1>3, <1>4, <1>5, <1>6, <1>7

LEMMA NewParserStep ==
  ASSUME IInv, NewParser
  PROVE  IInv'
<1>. USE DEF IInv, NewParser, inserter, leaving, history
<1>1. TypeOK'
  BY AllObjectsAre DEF TypeOK, Resources, ReceiverResources, OrResult, Result
<1>2. ObjectsOK'
  BY AllObjectsAre DEF ObjectsOK, AtReceiver, AtInserter, AtEnd
<1>3. AcquiredOK'
  BY DEF AcquiredOK, AtReceiver, ReceiverResources, Resources, ReceiverResources, OrResult, Result
<1>4. MappingOK'
  BY DEF MappingOK, AtReceiver, AtInserter, AtEnd
<1>5. ReadyOK'
  BY DEF ReadyOK, AtInserter, Resources, ReceiverResources, OrResult, Result
<1>6. RanOK'
  BY DEF RanOK, AtEnd
<1>7. NoFaultAtEnd'
  BY DEF NoFaultAtEnd
<1>. QED  BY <1>1, <1>2, <1>3, <1>4, <1>5, <1>6, <1>7

LEMMA OpenFileStep ==
  ASSUME IInv,
         NEW ok \in BOOLEAN, OpenFile(ok)
  PROVE  IInv'
<1>. USE DEF IInv, OpenFile, InserterFails, inserter, leaving, history
<1>1. TypeOK'
  BY AllObjectsAre DEF TypeOK, Resources, ReceiverResources, OrResult, Result
<1>2. ObjectsOK'
  BY AllObjectsAre DEF ObjectsOK, AtReceiver, AtInserter, AtEnd
<1>3. AcquiredOK'
  BY DEF AcquiredOK, AtReceiver, ReceiverResources, Resources, ReceiverResources, OrResult, Result
<1>4. MappingOK'
  BY DEF MappingOK, AtReceiver, AtInserter, AtEnd
<1>5. ReadyOK'
  BY DEF ReadyOK, AtInserter, Resources, ReceiverResources, OrResult, Result
<1>6. RanOK'
  BY DEF RanOK, AtEnd
<1>7. NoFaultAtEnd'
  BY DEF NoFaultAtEnd
<1>. QED  BY <1>1, <1>2, <1>3, <1>4, <1>5, <1>6, <1>7

LEMMA ChangeOwnerStep ==
  ASSUME IInv, ChangeOwner
  PROVE  IInv'
<1>. USE DEF IInv, ChangeOwner, acquiring, inserter, leaving, history
<1>1. TypeOK'
  BY AllObjectsAre DEF TypeOK, Resources, ReceiverResources, OrResult, Result
<1>2. ObjectsOK'
  BY AllObjectsAre DEF ObjectsOK, AtReceiver, AtInserter, AtEnd
<1>3. AcquiredOK'
  BY DEF AcquiredOK, AtReceiver, ReceiverResources, Resources, ReceiverResources, OrResult, Result
<1>4. MappingOK'
  BY DEF MappingOK, AtReceiver, AtInserter, AtEnd
<1>5. ReadyOK'
  BY DEF ReadyOK, AtInserter, Resources, ReceiverResources, OrResult, Result
<1>6. RanOK'
  BY DEF RanOK, AtEnd
<1>7. NoFaultAtEnd'
  BY DEF NoFaultAtEnd
<1>. QED  BY <1>1, <1>2, <1>3, <1>4, <1>5, <1>6, <1>7

LEMMA OwnerNotChangedStep ==
  ASSUME IInv, OwnerNotChanged
  PROVE  IInv'
<1>. USE DEF IInv, OwnerNotChanged, InserterFails, inserter, leaving, history
<1>1. TypeOK'
  BY AllObjectsAre DEF TypeOK, Resources, ReceiverResources, OrResult, Result
<1>2. ObjectsOK'
  BY AllObjectsAre DEF ObjectsOK, AtReceiver, AtInserter, AtEnd
<1>3. AcquiredOK'
  <2>1. \A r \in ReceiverResources \cup {"socket"} : r \in held' <=> r \in held
    BY DEF ReceiverResources
  <2>2. held' \cap ReceiverResources = held \cap ReceiverResources
    BY <2>1
  <2>3. acquired' = acquired /\ acquired \subseteq ReceiverResources
    BY DEF TypeOK
  <2>4. acquired' \ held' = acquired \ held
    BY <2>1, <2>3
  <2>5. pc' = "keyboard" \/ pc' = "publish" \/ pc' = "owner"
    OBVIOUS
  <2>. QED  BY <2>1, <2>2, <2>3, <2>4, <2>5 DEF AcquiredOK, AtReceiver, ReceiverResources
<1>4. MappingOK'
  BY DEF MappingOK, AtReceiver, AtInserter, AtEnd
<1>5. ReadyOK'
  BY DEF ReadyOK, AtInserter, Resources, ReceiverResources, OrResult, Result
<1>6. RanOK'
  BY DEF RanOK, AtEnd
<1>7. NoFaultAtEnd'
  BY DEF NoFaultAtEnd
<1>. QED  BY <1>1, <1>2, <1>3, <1>4, <1>5, <1>6, <1>7

LEMMA NoSuchGroupStep ==
  ASSUME IInv, NoSuchGroup
  PROVE  IInv'
<1>. USE DEF IInv, NoSuchGroup, acquiring, inserter, leaving, history
<1>1. TypeOK'
  BY AllObjectsAre DEF TypeOK, Resources, ReceiverResources, OrResult, Result
<1>2. ObjectsOK'
  BY AllObjectsAre DEF ObjectsOK, AtReceiver, AtInserter, AtEnd
<1>3. AcquiredOK'
  BY DEF AcquiredOK, AtReceiver, ReceiverResources, Resources, ReceiverResources, OrResult, Result
<1>4. MappingOK'
  BY DEF MappingOK, AtReceiver, AtInserter, AtEnd
<1>5. ReadyOK'
  BY DEF ReadyOK, AtInserter, Resources, ReceiverResources, OrResult, Result
<1>6. RanOK'
  BY DEF RanOK, AtEnd
<1>7. NoFaultAtEnd'
  BY DEF NoFaultAtEnd
<1>. QED  BY <1>1, <1>2, <1>3, <1>4, <1>5, <1>6, <1>7

LEMMA MapFileStep ==
  ASSUME IInv,
         NEW ok \in BOOLEAN, MapFile(ok)
  PROVE  IInv'
<1>. USE DEF IInv, MapFile, InserterFails, inserter, leaving, history
<1>1. TypeOK'
  BY AllObjectsAre DEF TypeOK, Resources, ReceiverResources, OrResult, Result
<1>2. ObjectsOK'
  BY AllObjectsAre DEF ObjectsOK, AtReceiver, AtInserter, AtEnd
<1>3. AcquiredOK'
  <2>1. \A r \in ReceiverResources \cup {"socket"} : r \in held' <=> r \in held
    BY DEF ReceiverResources
  <2>2. held' \cap ReceiverResources = held \cap ReceiverResources
    BY <2>1
  <2>3. acquired' = acquired /\ acquired \subseteq ReceiverResources
    BY DEF TypeOK
  <2>4. acquired' \ held' = acquired \ held
    BY <2>1, <2>3
  <2>5. pc' = "keyboard" \/ pc' = "publish" \/ pc' = "owner"
    OBVIOUS
  <2>. QED  BY <2>1, <2>2, <2>3, <2>4, <2>5 DEF AcquiredOK, AtReceiver, ReceiverResources
<1>4. MappingOK'
  BY DEF MappingOK, AtReceiver, AtInserter, AtEnd
<1>5. ReadyOK'
  BY DEF ReadyOK, AtInserter, Resources, ReceiverResources, OrResult, Result
<1>6. RanOK'
  BY DEF RanOK, AtEnd
<1>7. NoFaultAtEnd'
  BY DEF NoFaultAtEnd
<1>. QED  BY <1>1, <1>2, <1>3, <1>4, <1>5, <1>6, <1>7

LEMMA InserterStartsStep ==
  ASSUME IInv, InserterStarts
  PROVE  IInv'
<1>. USE DEF IInv, InserterStarts, acquiring, leaving, history
<1>1. TypeOK'
  <2>1. WriterFlags' \in FlagsInLoop \cup { {"Shutdown"} }
    BY DEF FlagsInLoop
  <2>. QED  BY <2>1 DEF TypeOK, OrResult
<1>2. ObjectsOK'
  BY AllObjectsAre DEF ObjectsOK, AtReceiver, AtInserter, AtEnd
<1>3. AcquiredOK'
  BY DEF AcquiredOK, AtReceiver, ReceiverResources, Resources, ReceiverResources, OrResult, Result
<1>4. MappingOK'
  BY DEF MappingOK, AtReceiver, AtInserter, AtEnd
<1>5. ReadyOK'
  BY DEF ReadyOK, AtInserter, Resources, ReceiverResources, OrResult, Result
<1>6. RanOK'
  BY DEF RanOK, AtEnd
<1>7. NoFaultAtEnd'
  BY DEF NoFaultAtEnd
<1>. QED  BY <1>1, <1>2, <1>3, <1>4, <1>5, <1>6, <1>7

LEMMA NewKeyboardStep ==
  ASSUME IInv, NewKeyboard
  PROVE  IInv'
<1>. USE DEF IInv, NewKeyboard, RunFlagAtStart, inserter, leaving, history
<1>1. TypeOK'
  BY AllObjectsAre DEF TypeOK, Resources, ReceiverResources, OrResult, Result
<1>2. ObjectsOK'
  <2>1. objects' = AllObjects
    BY AllObjectsAre DEF ObjectsOK
  <2>2. deletion' = 1 /\ calls' = 0 /\ pc' \in {"loop", "uninitialize"}
    BY DEF ObjectsOK, AtEnd
  <2>. QED  BY <2>1, <2>2, AllAtFirst DEF ObjectsOK, AtReceiver, AtInserter, AtEnd
<1>3. AcquiredOK'
  BY DEF AcquiredOK, AtReceiver, ReceiverResources, Resources, ReceiverResources, OrResult, Result
<1>4. MappingOK'
  <2>1. objects' = AllObjects
    BY AllObjectsAre DEF ObjectsOK
  <2>2. "inserter" \in objects' /\ pc' \in {"loop", "uninitialize"}
    BY <2>1, AllObjectsAre
  <2>. QED  BY <2>2 DEF MappingOK, AtReceiver, AtInserter, AtEnd
<1>5. ReadyOK'
  BY DEF ReadyOK, AtInserter, Resources, ReceiverResources, OrResult, Result
<1>6. RanOK'
  <2>1. objects' = AllObjects
    BY AllObjectsAre DEF ObjectsOK
  <2>2. "receiver" \in objects' /\ pc' \in {"loop", "uninitialize"}
    BY <2>1, AllObjectsAre
  <2>3. ran' => Initialized /\ ReceivedData /\ "mapping" \in held /\ "file" \notin held
    BY DEF ReadyOK, MappingOK
  <2>. QED  BY <2>2, <2>3 DEF RanOK, AtEnd
<1>7. NoFaultAtEnd'
  BY DEF NoFaultAtEnd
<1>. QED  BY <1>1, <1>2, <1>3, <1>4, <1>5, <1>6, <1>7

-----------------------------------------------------------------------------
(* The loop, the signal and the end.                                        *)

LEMMA PassStep ==
  ASSUME IInv,
         NEW flags \in FlagsInLoop, NEW ok \in BOOLEAN, Pass(flags, ok)
  PROVE  IInv'
<1>. USE DEF IInv, Pass, acquiring, leaving, history
<1>1. TypeOK'
  BY AllObjectsAre DEF TypeOK, Resources, ReceiverResources, OrResult, Result
<1>2. ObjectsOK'
  <2>1. objects' = AllObjects
    BY DEF ObjectsOK
  <2>2. deletion' = 1 /\ calls' = 0 /\ pc' \in {"loop", "uninitialize"}
    BY DEF ObjectsOK, AtEnd
  <2>. QED  BY <2>1, <2>2, AllAtFirst DEF ObjectsOK, AtReceiver, AtInserter, AtEnd
<1>3. AcquiredOK'
  BY DEF AcquiredOK, AtReceiver, ReceiverResources, Resources, ReceiverResources, OrResult, Result
<1>4. MappingOK'
  <2>1. "inserter" \in objects' /\ pc' \in {"loop", "uninitialize"}
    BY AllObjectsAre DEF ObjectsOK
  <2>2. ReceivedData
    BY DEF RanOK
  <2>. QED  BY <2>1, <2>2 DEF MappingOK, AtReceiver, AtInserter, AtEnd
<1>5. ReadyOK'
  BY DEF ReadyOK, AtInserter, Resources, ReceiverResources, OrResult, Result
<1>6. RanOK'
  BY DEF RanOK, AtEnd
<1>7. NoFaultAtEnd'
  BY DEF NoFaultAtEnd
<1>. QED  BY <1>1, <1>2, <1>3, <1>4, <1>5, <1>6, <1>7

LEMMA InterruptStep ==
  ASSUME IInv, Interrupt
  PROVE  IInv'
<1>. USE DEF IInv, Interrupt, acquiring, inserter, leaving
<1>1. TypeOK'
  BY AllObjectsAre DEF TypeOK, Resources, ReceiverResources, OrResult, Result
<1>2. ObjectsOK'
  BY AllObjectsAre DEF ObjectsOK, AtReceiver, AtInserter, AtEnd
<1>3. AcquiredOK'
  BY DEF AcquiredOK, AtReceiver, ReceiverResources, Resources, ReceiverResources, OrResult, Result
<1>4. MappingOK'
  BY DEF MappingOK, AtReceiver, AtInserter, AtEnd
<1>5. ReadyOK'
  BY DEF ReadyOK, AtInserter, Resources, ReceiverResources, OrResult, Result
<1>6. RanOK'
  BY DEF RanOK, AtEnd
<1>7. NoFaultAtEnd'
  <2>1. faults' = faults \/ faults' = faults \cup { <<"handler", "common">> }
    OBVIOUS
  <2>. QED  BY <2>1 DEF NoFaultAtEnd, KnownFaults
<1>. QED  BY <1>1, <1>2, <1>3, <1>4, <1>5, <1>6, <1>7

LEMMA UninitializeEndsStep ==
  ASSUME IInv, UninitializeEnds
  PROVE  IInv'
<1>. USE DEF IInv, UninitializeEnds, Order, acquiring, inserter, history
<1>1. TypeOK'
  <2>1. calls' \in 0 .. 2 /\ deletion' \in 1 .. Len(Deletions) + 1 /\ ReturnValue' \in {0, -1}
    BY DeletionsFacts DEF TypeOK, ObjectsOK
  <2>. QED  BY <2>1 DEF TypeOK
<1>2. ObjectsOK'
  <2>1. calls \in {0, 1}
    BY DEF TypeOK, ObjectsOK
  <2>2. calls = 0 => objects = { Deletions[i] : i \in deletion .. Len(Deletions) }
    BY DEF ObjectsOK, AtEnd
  <2>3. calls # 0 => objects = {}
    BY DEF ObjectsOK, AtEnd
  <2>4. deletion .. Len(Deletions) = {}
    BY DeletionsFacts DEF TypeOK
  <2>5. objects' = {}
    BY <2>2, <2>3, <2>4
  <2>6. calls' \in {1, 2} /\ (pc' = "done" <=> calls' = 2) /\ pc' \in AtEnd
    BY <2>1 DEF AtEnd
  <2>. QED  BY <2>5, <2>6 DEF ObjectsOK, AtReceiver, AtInserter, AtEnd
<1>3. AcquiredOK'
  BY DEF AcquiredOK, AtReceiver, ReceiverResources, Resources, ReceiverResources, OrResult, Result
<1>4. MappingOK'
  BY DEF MappingOK, AtReceiver, AtInserter, AtEnd
<1>5. ReadyOK'
  BY DEF ReadyOK, AtInserter, Resources, ReceiverResources, OrResult, Result
<1>6. RanOK'
  BY DEF RanOK, AtEnd
<1>7. NoFaultAtEnd'
  BY DEF NoFaultAtEnd
<1>. QED  BY <1>1, <1>2, <1>3, <1>4, <1>5, <1>6, <1>7

\* What is still there when the first call of Uninitialize is at object d.
LEMMA Remains ==
  ASSUME TypeOK, ObjectsOK, pc = "uninitialize", deletion <= Len(Deletions)
  PROVE  /\ deletion \in 1 .. 12
         /\ calls = 0 => \A i \in deletion .. 12 : Deletions[i] \in objects
         /\ calls = 0 => Deletions[deletion] \in objects
         /\ calls = 0 => objects = { Deletions[i] : i \in deletion .. 12 }
         /\ calls # 0 => objects = {} /\ calls = 1
<1>1. deletion \in 1 .. 12
  BY DeletionsFacts DEF TypeOK
<1>2. calls = 0 => objects = { Deletions[i] : i \in deletion .. 12 }
  BY DeletionsFacts DEF ObjectsOK, AtEnd
<1>3. calls # 0 => objects = {} /\ calls = 1
  BY DEF ObjectsOK, AtEnd, TypeOK
<1>. QED  BY <1>1, <1>2, <1>3

\* The second call finds null pointers only.
LEMMA DeleteNothing ==
  ASSUME IInv, Delete, calls # 0
  PROVE  IInv'
<1>. USE DEF IInv
<1>1. pc = "uninitialize" /\ deletion <= Len(Deletions)
  BY DEF Delete, Order
<1>2. objects = {} /\ calls = 1 /\ deletion \in 1 .. 12
  BY <1>1, Remains
<1>3. UNCHANGED <<pc, objects, held, acquired, Initialized, ReceivedData, ReturnValue,
                  ApplicationRunFlag, handler, WriterFlags, calls, interrupted, ran, faults>>
  BY <1>2 DEF Delete, acquiring, inserter, history
<1>4. deletion' = deletion + 1
  BY DEF Delete
<1>5. deletion' \in 1 .. Len(Deletions) + 1
  BY <1>2, <1>4, DeletionsFacts
<1>6. TypeOK'
  BY <1>3, <1>5 DEF TypeOK
<1>7. ObjectsOK'
  BY <1>1, <1>2, <1>3 DEF ObjectsOK, AtReceiver, AtInserter, AtEnd
<1>8. AcquiredOK' /\ MappingOK' /\ ReadyOK' /\ RanOK' /\ NoFaultAtEnd'
  BY <1>3 DEF AcquiredOK, MappingOK, ReadyOK, RanOK, NoFaultAtEnd
<1>. QED  BY <1>6, <1>7, <1>8

\* Whatever an object uses stands behind it in the order.
LEMMA UsesAreThere ==
  ASSUME TypeOK, ObjectsOK, pc = "uninitialize", deletion <= Len(Deletions), calls = 0
  PROVE  Uses(Deletions[deletion]) \subseteq objects
<1>1. deletion \in 1 .. 12 /\ \A i \in deletion .. 12 : Deletions[i] \in objects
  BY Remains
<1>2. "logger" \in objects
  BY <1>1, DeletionsFacts
<1>3. CASE Deletions[deletion] = "receiver"
  <2>1. deletion = 3
    BY <1>1, <1>3, DeletionsFacts
  <2>2. "common" \in objects
    BY <2>1, <1>1, DeletionsFacts
  <2>. QED  BY <1>2, <1>3, <2>2 DEF Uses
<1>4. CASE Deletions[deletion] # "receiver"
  BY <1>2, <1>4 DEF Uses
<1>. QED  BY <1>3, <1>4

\* What the release of the receiver does to its resources.
LEMMA ReceiverReleased ==
  ASSUME IInv, UninitializeReceiver
  PROVE  /\ Initialized' = FALSE
         /\ ReturnValue' \in {0, -1}
         /\ \A r : r \in held' <=> r \in held /\ (Initialized => r \notin ReceiverResources \cup {"socket"})
         /\ acquired' = IF Initialized THEN {} ELSE acquired
<1>. USE DEF IInv
<1>1. Initialized \in BOOLEAN /\ ReturnValue \in {0, -1}
  BY DEF TypeOK
<1>2. Initialized => acquired = ReceiverResources
  BY DEF AcquiredOK
<1>3. CASE Initialized
  BY <1>1, <1>2, <1>3 DEF UninitializeReceiver, OrResult
<1>4. CASE ~Initialized
  BY <1>1, <1>4 DEF UninitializeReceiver
<1>. QED  BY <1>3, <1>4

LEMMA InserterReleased ==
  ASSUME IInv, UninitializeInserter
  PROVE  /\ ReceivedData' = FALSE
         /\ ReturnValue' \in {0, -1}
         /\ WriterFlags' = IF ReceivedData THEN {"Shutdown"} ELSE WriterFlags
<1>1. ReceivedData \in BOOLEAN
  BY DEF IInv, TypeOK
<1>. QED  BY <1>1 DEF UninitializeInserter, InserterIsUp, FlagsAtEnd, inserter

\* One object goes in the first call.
LEMMA Shrinks ==
  ASSUME IInv, Delete, calls = 0
  PROVE  LET o == Deletions[deletion] IN
         /\ pc = "uninitialize" /\ o \in objects /\ objects' = objects \ {o}
         /\ TypeOK' <=> /\ held' \subseteq Resources /\ acquired' \subseteq ReceiverResources
                        /\ Initialized' \in BOOLEAN /\ ReceivedData' \in BOOLEAN
                        /\ ReturnValue' \in {0, -1}
                        /\ WriterFlags' \in FlagsInLoop \cup { {"Shutdown"} }
         /\ ObjectsOK'
         /\ faults' = faults \cup FaultsOf(o)
<1>. USE DEF IInv
<1>. DEFINE o == Deletions[deletion]
<1>1. pc = "uninitialize" /\ deletion <= Len(Deletions)
  BY DEF Delete, Order
<1>2. /\ deletion \in 1 .. 12 /\ o \in objects
      /\ objects = { Deletions[i] : i \in deletion .. 12 }
  BY <1>1, Remains
<1>3. objects' = objects \ {o} /\ faults' = faults \cup FaultsOf(o)
  BY <1>2 DEF Delete, Remaining, Order
<1>4. /\ deletion' = deletion + 1
      /\ UNCHANGED <<pc, ApplicationRunFlag, handler, calls, interrupted, ran>>
  BY DEF Delete, history
<1>5. deletion' \in 1 .. Len(Deletions) + 1
  BY <1>2, <1>4, DeletionsFacts
<1>6. objects' = { Deletions[i] : i \in deletion + 1 .. 12 }
  <2>1. \A i \in deletion + 1 .. 12 : Deletions[i] # o
    BY <1>2, DeletedOnce
  <2>2. \A i \in deletion .. 12 : i = deletion \/ i \in deletion + 1 .. 12
    BY <1>2
  <2>3. \A i \in deletion + 1 .. 12 : i \in deletion .. 12
    BY <1>2
  <2>. HIDE DEF o
  <2>. QED  BY <1>2, <1>3, <2>1, <2>2, <2>3 DEF o
<1>7. ObjectsOK'
  BY <1>1, <1>4, <1>6, DeletionsFacts DEF ObjectsOK, AtReceiver, AtInserter, AtEnd
<1>8. objects' \subseteq AllObjects
  BY <1>3 DEF TypeOK
<1>. QED  BY <1>1, <1>2, <1>3, <1>4, <1>5, <1>7, <1>8 DEF TypeOK

LEMMA DeleteInserter ==
  ASSUME IInv, Delete, calls = 0, Deletions[deletion] = "inserter"
  PROVE  IInv'
<1>. USE DEF IInv
<1>1. /\ pc = "uninitialize" /\ pc' = pc /\ "inserter" \in objects
      /\ objects' = objects \ {"inserter"} /\ ran' = ran
  BY Shrinks DEF Delete, history
<1>2. UninitializeInserter /\ UNCHANGED <<held, acquired, Initialized>>
  BY <1>1, DeletionsFacts DEF Delete, Order
<1>3. TypeOK'
  BY <1>2, InserterReleased, Shrinks DEF TypeOK
<1>4. ObjectsOK'
  BY Shrinks
<1>5. AcquiredOK'
  BY <1>1, <1>2 DEF AcquiredOK
<1>6. MappingOK'
  BY <1>1, <1>2, InserterReleased DEF MappingOK, AtReceiver, AtInserter, AtEnd
<1>7. ReadyOK' /\ RanOK'
  BY <1>1, <1>2 DEF ReadyOK, RanOK, AtInserter, AtEnd
<1>8. NoFaultAtEnd'
  <2>1. FaultsOf("inserter") = {}
    BY <1>1, UsesAreThere DEF FaultsOf, Delete, Order
  <2>. QED  BY <2>1, Shrinks DEF NoFaultAtEnd
<1>. QED  BY <1>3, <1>4, <1>5, <1>6, <1>7, <1>8

LEMMA DeleteReceiver ==
  ASSUME IInv, Delete, calls = 0, Deletions[deletion] = "receiver"
  PROVE  IInv'
<1>. USE DEF IInv
<1>1. /\ pc = "uninitialize" /\ pc' = pc /\ "receiver" \in objects
      /\ objects' = objects \ {"receiver"} /\ ran' = ran
  BY Shrinks DEF Delete, history
<1>2. UninitializeReceiver /\ UNCHANGED <<ReceivedData, WriterFlags>>
  BY <1>1, DeletionsFacts DEF Delete, Order, inserter
<1>3. TypeOK'
  <2>1. held' \subseteq Resources /\ acquired' \subseteq ReceiverResources
    BY <1>2, ReceiverReleased DEF TypeOK
  <2>. QED  BY <1>2, <2>1, ReceiverReleased, Shrinks DEF TypeOK
<1>4. ObjectsOK'
  BY Shrinks
<1>5. AcquiredOK'
  <2>1. Initialized => "socket" \notin held' /\ held' \cap ReceiverResources = {} /\ acquired' = {}
    BY <1>2, ReceiverReleased
  <2>2. ~Initialized => held' \cap ReceiverResources = held \cap ReceiverResources
                        /\ acquired' \ held' = acquired \ held /\ "socket" \notin held'
    BY <1>2, ReceiverReleased DEF AcquiredOK
  <2>3. ~Initialized'
    BY <1>2, ReceiverReleased
  <2>. QED  BY <1>1, <1>2, <2>1, <2>2, <2>3, ReceiverReleased DEF AcquiredOK, AtReceiver
<1>6. MappingOK'
  <2>1. ("mapping" \in held' <=> "mapping" \in held) /\ ("file" \in held' <=> "file" \in held)
    BY <1>2, ReceiverReleased DEF ReceiverResources
  <2>. QED  BY <1>1, <1>2, <2>1 DEF MappingOK, AtReceiver, AtInserter, AtEnd
<1>7. ReadyOK'
  BY <1>1 DEF ReadyOK, AtInserter
<1>8. RanOK'
  <2>1. "receiver" \notin objects'
    BY <1>1
  <2>2. ran => held' = {"mapping"} /\ acquired' = {}
    <3>. SUFFICES ASSUME ran  PROVE held' = {"mapping"} /\ acquired' = {}
      OBVIOUS
    <3>1. Initialized /\ "mapping" \in held /\ "file" \notin held
      BY <1>1 DEF RanOK
    <3>2. "mapping" \in held'
      BY <1>2, <3>1, ReceiverReleased DEF ReceiverResources
    <3>3. \A r \in held' : r = "mapping"
      BY <1>2, <3>1, ReceiverReleased DEF TypeOK, Resources
    <3>. QED  BY <1>2, <3>1, <3>2, <3>3, ReceiverReleased
  <2>. QED  BY <1>1, <2>1, <2>2 DEF RanOK, AtEnd
<1>9. NoFaultAtEnd'
  <2>1. \A r \in acquired \ held : Initialized => r = "memory"
    BY DEF AcquiredOK
  <2>2. FaultsOf("receiver") \subseteq { <<"receiver", "memory">> }
    BY <1>1, <2>1, UsesAreThere DEF FaultsOf, Delete, Order
  <2>. QED  BY <2>2, Shrinks DEF NoFaultAtEnd, KnownFaults
<1>. QED  BY <1>3, <1>4, <1>5, <1>6, <1>7, <1>8, <1>9

LEMMA DeleteOther ==
  ASSUME IInv, Delete, calls = 0, Deletions[deletion] \notin {"inserter", "receiver"}
  PROVE  IInv'
<1>. USE DEF IInv
<1>. DEFINE o == Deletions[deletion]
<1>1. pc = "uninitialize" /\ o \in objects /\ objects' = objects \ {o}
  BY Shrinks
<1>2. /\ UNCHANGED <<pc, held, acquired, Initialized, ReceivedData, WriterFlags, ReturnValue,
                     ran>>
  BY <1>1 DEF Delete, Order, inserter, history
<1>3. ("inserter" \in objects' <=> "inserter" \in objects)
      /\ ("receiver" \in objects' <=> "receiver" \in objects)
  BY <1>1
<1>. HIDE DEF o
<1>4. TypeOK' /\ ObjectsOK'
  BY <1>2, Shrinks DEF TypeOK
<1>5. AcquiredOK' /\ ReadyOK'
  BY <1>2 DEF AcquiredOK, ReadyOK
<1>6. MappingOK' /\ RanOK'
  BY <1>2, <1>3 DEF MappingOK, RanOK
<1>7. NoFaultAtEnd'
  <2>1. FaultsOf(o) = {}
    BY <1>1, UsesAreThere DEF FaultsOf, Delete, Order, o
  <2>. QED  BY <2>1, Shrinks DEF NoFaultAtEnd, o
<1>. QED  BY <1>4, <1>5, <1>6, <1>7

LEMMA DeleteStep ==
  ASSUME IInv, Delete
  PROVE  IInv'
BY DeleteNothing, DeleteInserter, DeleteReceiver, DeleteOther

-----------------------------------------------------------------------------
LEMMA NextStep == IInv /\ [Next]_vars => IInv'
<1>. SUFFICES ASSUME IInv, [Next]_vars  PROVE IInv'
  OBVIOUS
<1>1. ASSUME NEW ok \in BOOLEAN, Start(ok)  PROVE IInv'
  BY <1>1, StartStep
<1>2. CASE NewCommonData
  BY <1>2, NewCommonDataStep
<1>3. CASE InitializeReceiver
  BY <1>3, BadArgumentsStep, OpenDriverStep, AllocatePdStep, AllocateViStep, AddFilterStep,
     OpenSocketStep, InitPktsMemoryStep DEF InitializeReceiver
<1>4. CASE NewParser
  BY <1>4, NewParserStep
<1>5. CASE InitializeInserter
  BY <1>5, ChangeOwnerStep, OwnerNotChangedStep, NoSuchGroupStep, InserterStartsStep,
     OpenFileStep, MapFileStep DEF InitializeInserter
<1>6. CASE NewKeyboard
  BY <1>6, NewKeyboardStep
<1>7. ASSUME NEW flags \in FlagsInLoop, NEW ok \in BOOLEAN, Pass(flags, ok)  PROVE IInv'
  BY <1>7, PassStep
<1>8. CASE Delete
  BY <1>8, DeleteStep
<1>9. CASE UninitializeEnds
  BY <1>9, UninitializeEndsStep
<1>10. CASE Interrupt
  BY <1>10, InterruptStep
<1>11. CASE UNCHANGED vars
  BY <1>11 DEF vars, acquiring, inserter, leaving, history, IInv, TypeOK, ObjectsOK, AcquiredOK,
     MappingOK, ReadyOK, RanOK, NoFaultAtEnd
<1>. QED
  BY <1>1, <1>2, <1>3, <1>4, <1>5, <1>6, <1>7, <1>8, <1>9, <1>10, <1>11 DEF Next, Main, Ended

\* The inductive invariant of the program's life: whichever calls fail, and
\* whenever SIGINT comes.
THEOREM LifecycleInvariant == Spec => []IInv
<1>1. Init => IInv
  BY InitEstablishes
<1>2. IInv /\ [Next]_vars => IInv'
  BY NextStep
<1>. QED  BY <1>1, <1>2, PTL DEF Spec

\* Every field keeps its type.
THEOREM LifecycleTypes == Spec => []TypeOK
<1>1. IInv => TypeOK
  BY DEF IInv
<1>. QED  BY <1>1, LifecycleInvariant, PTL

\* The loop runs only when every call that the code looks at has succeeded
\* (UDPJubmoFrameReceiverImplementation.cpp:77).
THEOREM ProgramRunsOnlyWhenReady == Spec => []LoopOnlyWhenReady
<1>1. IInv => LoopOnlyWhenReady
  BY AllObjectsAre DEF IInv, LoopOnlyWhenReady, RanOK, ObjectsOK, AcquiredOK, AtEnd
<1>. QED  BY <1>1, LifecycleInvariant, PTL

\* Nothing is freed that is not held, deleted twice or used after its deletion,
\* but for the two known faults (UDPJubmoFrameReceiverImplementation.cpp:133).
THEOREM ProgramEndsCleanly == Spec => []NoFaultAtEnd
<1>1. IInv => NoFaultAtEnd
  BY DEF IInv
<1>. QED  BY <1>1, LifecycleInvariant, PTL

\* A program that ran has given back all but the mapping.
THEOREM ProgramHoldsNothing == Spec => []NothingHeldAfterRun
<1>1. IInv => NothingHeldAfterRun
  BY DEF IInv, NothingHeldAfterRun, RanOK, ObjectsOK, AtEnd
<1>. QED  BY <1>1, LifecycleInvariant, PTL

\* Whoever has the shared memory mapped learns of the shutdown, however the
\* program ends (InserterImplementation.cpp:439).
THEOREM ProgramPublishesShutdown == Spec => []ShutdownPublished
<1>1. IInv => ShutdownPublished
  BY DEF IInv, ShutdownPublished, MappingOK, ObjectsOK, AtEnd
<1>. QED  BY <1>1, LifecycleInvariant, PTL

=============================================================================
