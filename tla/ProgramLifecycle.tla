-------------------------- MODULE ProgramLifecycle --------------------------
(***************************************************************************)
(* The life of the program around its loop: main, the Initialize functions *)
(* of the application, the receiver and the inserter, the two calls of     *)
(* UDPJubmoFrameReceiverImplementation::Uninitialize (from main, and again *)
(* from the destructor), and SIGINT.                                       *)
(*                                                                         *)
(* Every call to the system or the ef_vi library may fail, except new,     *)
(* which throws.  A failed call is told from its result only where the     *)
(* code looks at it.  ReturnValue is kept as zero or not.                  *)
(*                                                                         *)
(* The loop itself is UDPJubmoFrameReceiverImplementation; here it is a    *)
(* step that may change the writer's flags and clear the run flag.         *)
(***************************************************************************)
EXTENDS Integers, Sequences

VARIABLES
  pc,
  objects,             \* the objects that the pointers of the application own
  held,                \* what the program holds of the system's resources
  acquired,            \* EfViDriverIsOpen, EfPdIsAllocated, EfViIsAllocated,
                       \* EfMemIsAllocated: what the receiver believes to hold
  Initialized,         \* of the receiver
  ReceivedData,        \* ReceivedDataPtr of the inserter is set
  ReturnValue,         \* of the application
  ApplicationRunFlag,
  handler,             \* signal_handler is installed
  WriterFlags,         \* in the shared memory file, once it is mapped
  deletion,            \* where Uninitialize is in Deletions
  calls,               \* of Uninitialize, ended
  interrupted,         \* auxiliary: where the program was at the last SIGINT
  ran,                 \* auxiliary: the loop was entered
  faults               \* auxiliary: what was released or touched without being there

acquiring == <<objects, held, acquired, Initialized>>
inserter  == <<ReceivedData, WriterFlags>>
leaving   == <<deletion, calls>>
history   == <<interrupted, ran>>
vars == <<pc, acquiring, inserter, ReturnValue, ApplicationRunFlag, handler, leaving,
          history, faults>>

\* In the order in which Uninitialize deletes them.
Deletions == <<"inserter", "parser", "receiver", "ring0", "ring1", "common",
               "keyboard", "percentile", "tsc", "processor", "arguments", "logger">>
AllObjects == { Deletions[i] : i \in DOMAIN Deletions }

\* What the receiver has a flag for.  "memory" is the registration of the packet
\* memory with the card; the memory itself is never freed.
ReceiverResources == {"memory", "vi", "pd", "driver"}

Resources == ReceiverResources \cup {"socket", "file", "mapping"}

\* What Uninitialize of an object, or its destructor, uses of the others.
Uses(o) ==
  CASE o = "receiver" -> {"common", "logger"}
    [] o \in {"inserter", "ring0", "ring1"} -> {"logger"}
    [] OTHER -> {}

-----------------------------------------------------------------------------
Init ==
  /\ pc = "start"
  /\ objects = {} /\ held = {} /\ acquired = {} /\ Initialized = FALSE
  /\ ReceivedData = FALSE /\ ReturnValue = 0
  /\ ApplicationRunFlag = FALSE /\ handler = FALSE
  /\ WriterFlags = {}
  /\ deletion = 1 /\ calls = 0
  /\ interrupted = "never" /\ ran = FALSE /\ faults = {}

-----------------------------------------------------------------------------
(* UDPJubmoFrameReceiverImplementation::Initialize                         *)

Result(ok) == IF ok THEN 0 ELSE -1

\* ReturnValue |= r
MutantLastResult(r) == r
OrResult(r)         == IF ReturnValue = 0 THEN r ELSE ReturnValue

\* Up to /////6/////; the thread may refuse to be stuck to its core.
Start(ok) ==
  /\ pc = "start" /\ pc' = "common"
  /\ objects' = {"arguments", "logger", "processor", "tsc", "percentile", "ring0", "ring1"}
  /\ ReturnValue' = OrResult(Result(ok))
  /\ UNCHANGED <<held, acquired, Initialized, inserter, ApplicationRunFlag, handler,
                 leaving, history, faults>>

NewCommonData ==
  /\ pc = "common" /\ pc' = "driver"
  /\ objects' = objects \cup {"common", "receiver"}
  /\ ApplicationRunFlag' = FALSE
  /\ handler' = TRUE
  /\ UNCHANGED <<held, acquired, Initialized, inserter, ReturnValue, leaving, history,
                 faults>>

-----------------------------------------------------------------------------
(* NetworkReceiverImplementationEFVI::Initialize                           *)

ReceiverReturns(r) ==
  /\ pc' = "parser"
  /\ ReturnValue' = OrResult(r)

ReceiverFails == ReceiverReturns(-1)

\* The name of the interface or the address is missing or too long.
BadArguments ==
  /\ pc = "driver"
  /\ ReceiverFails
  /\ UNCHANGED <<acquiring, inserter, ApplicationRunFlag, handler, leaving, history,
                 faults>>

MutantFlagNotSet(resource) == acquired \cup ({resource} \ {"pd"})
Flagged(resource)          == acquired \cup {resource}

\* The result of ef_driver_open is lost: the flag is set, and the next call
\* decides.
OpenDriver(ok) ==
  /\ pc = "driver" /\ pc' = "pd"
  /\ held' = IF ok THEN held \cup {"driver"} ELSE held
  /\ acquired' = Flagged("driver")
  /\ UNCHANGED <<objects, Initialized, inserter, ReturnValue, ApplicationRunFlag, handler,
                 leaving, history, faults>>

\* ef_pd_alloc_by_name and ef_vi_alloc_from_pd.
Allocate(resource, next, ok) ==
  /\ pc = resource
  /\ ok => "driver" \in held
  /\ IF ok
       THEN /\ held' = held \cup {resource}
            /\ acquired' = Flagged(resource)
            /\ pc' = next /\ UNCHANGED ReturnValue
       ELSE ReceiverFails /\ UNCHANGED <<held, acquired>>
  /\ UNCHANGED <<objects, Initialized, inserter, ApplicationRunFlag, handler, leaving,
                 history, faults>>

\* Here, too, the result of the registration is lost.
InitPktsMemory(aligned, registered) ==
  /\ pc = "memory"
  /\ IF aligned
       THEN /\ held' = IF registered THEN held \cup {"memory"} ELSE held
            /\ acquired' = Flagged("memory")
            /\ pc' = "filter" /\ UNCHANGED ReturnValue
       ELSE ReceiverFails /\ UNCHANGED <<held, acquired>>
  /\ UNCHANGED <<objects, Initialized, inserter, ApplicationRunFlag, handler, leaving,
                 history, faults>>

AddFilter(ok) ==
  /\ pc = "filter"
  /\ IF ok THEN pc' = "socket" /\ UNCHANGED ReturnValue ELSE ReceiverFails
  /\ UNCHANGED <<acquiring, inserter, ApplicationRunFlag, handler, leaving, history,
                 faults>>

\* SocketInitializeIPv4Receiver closes the socket itself where it fails.
OpenSocket(ok) ==
  /\ pc = "socket"
  /\ IF ok
       THEN /\ held' = held \cup {"socket"}
            /\ Initialized' = TRUE
            /\ ReceiverReturns(0)
       ELSE ReceiverFails /\ UNCHANGED <<held, Initialized>>
  /\ UNCHANGED <<objects, acquired, inserter, ApplicationRunFlag, handler, leaving,
                 history, faults>>

InitializeReceiver ==
  \/ BadArguments
  \/ \E ok \in BOOLEAN :
       \/ OpenDriver(ok) \/ Allocate("pd", "vi", ok) \/ Allocate("vi", "memory", ok)
       \/ AddFilter(ok) \/ OpenSocket(ok)
       \/ \E registered \in BOOLEAN : InitPktsMemory(ok, registered)

-----------------------------------------------------------------------------
(* InserterImplementation::Initialize                                      *)

NewParser ==
  /\ pc = "parser" /\ pc' = "file"
  /\ objects' = objects \cup {"parser", "inserter"}
  /\ UNCHANGED <<held, acquired, Initialized, inserter, ReturnValue, ApplicationRunFlag,
                 handler, leaving, history, faults>>

InserterFails ==
  /\ ApplicationRunFlag' = FALSE
  /\ ReturnValue' = OrResult(-1)
  /\ pc' = "keyboard"

\* open with O_TRUNC: what readers of an earlier run have mapped is gone.
OpenFile(ok) ==
  /\ pc = "file"
  /\ IF ok THEN /\ held' = held \cup {"file"} /\ pc' = "owner"
                /\ UNCHANGED <<ApplicationRunFlag, ReturnValue>>
           ELSE InserterFails /\ UNCHANGED held
  /\ UNCHANGED <<objects, acquired, Initialized, inserter, handler, leaving, history,
                 faults>>

ChangeOwner ==
  /\ pc = "owner" /\ pc' = "map"
  /\ UNCHANGED <<acquiring, inserter, ReturnValue, ApplicationRunFlag, handler, leaving,
                 history, faults>>

OwnerNotChanged ==
  /\ pc = "owner"
  /\ held' = held \ {"file"}
  /\ InserterFails
  /\ UNCHANGED <<objects, acquired, Initialized, inserter, handler, leaving, history,
                 faults>>

\* DoChangeFileOwner goes on with the null pointer that getgrnam returned.
NoSuchGroup ==
  /\ pc = "owner" /\ pc' = "crashed"
  /\ UNCHANGED <<acquiring, inserter, ReturnValue, ApplicationRunFlag, handler, leaving,
                 history, faults>>

\* ftruncate and mmap.  The file stays open where one of them fails.
MapFile(ok) ==
  /\ pc = "map"
  /\ IF ok THEN /\ held' = (held \ {"file"}) \cup {"mapping"} /\ pc' = "publish"
                /\ UNCHANGED <<ApplicationRunFlag, ReturnValue>>
           ELSE InserterFails /\ UNCHANGED held
  /\ UNCHANGED <<objects, acquired, Initialized, inserter, handler, leaving, history,
                 faults>>

\* The control block is written, and the run flag set whatever it was.
InserterStarts ==
  /\ pc = "publish" /\ pc' = "keyboard"
  /\ WriterFlags' = {}
  /\ ApplicationRunFlag' = TRUE
  /\ ReceivedData' = TRUE
  /\ ReturnValue' = OrResult(0)
  /\ UNCHANGED <<acquiring, handler, leaving, history, faults>>

InitializeInserter ==
  \/ ChangeOwner \/ OwnerNotChanged \/ NoSuchGroup \/ InserterStarts
  \/ \E ok \in BOOLEAN : OpenFile(ok) \/ MapFile(ok)

MutantStartsAgain == ReturnValue = 0
RunFlagAtStart    == ApplicationRunFlag /\ ReturnValue = 0

\* The end of the application's Initialize, and main up to its loop.
NewKeyboard ==
  /\ pc = "keyboard"
  /\ objects' = objects \cup {"keyboard"}
  /\ ApplicationRunFlag' = RunFlagAtStart
  /\ pc' = IF ReturnValue = 0 THEN "loop" ELSE "uninitialize"
  /\ ran' = (ReturnValue = 0)
  /\ ReturnValue' = 0
  /\ UNCHANGED <<held, acquired, Initialized, inserter, handler, leaving, interrupted,
                 faults>>

-----------------------------------------------------------------------------
(* while (StreamReaderPtr->Iterate());                                     *)

Pass(flags, receiverOK) ==
  /\ pc = "loop"
  /\ IF ApplicationRunFlag
       THEN WriterFlags' = flags /\ ApplicationRunFlag' = receiverOK /\ UNCHANGED pc
       ELSE pc' = "uninitialize" /\ UNCHANGED <<WriterFlags, ApplicationRunFlag>>
  /\ UNCHANGED <<acquiring, ReceivedData, ReturnValue, handler, leaving, history, faults>>

FlagsInLoop == { {}, {"Connected", "InSession"}, {"Connected", "Shutdown"} }

-----------------------------------------------------------------------------
(* Uninitialize                                                            *)

MutantFlagAdded == WriterFlags \cup {"Shutdown"}
FlagsAtEnd      == {"Shutdown"}

MutantOnlyIfConnected == ReceivedData /\ Initialized
InserterIsUp          == ReceivedData

\* Uninitialize of the inserter, which its destructor repeats.
UninitializeInserter ==
  IF InserterIsUp
    THEN /\ WriterFlags' = FlagsAtEnd /\ ReceivedData' = FALSE
         /\ ReturnValue' = 0
    ELSE ReturnValue' = -1 /\ UNCHANGED inserter

\* Each resource whose flag is set is freed, whatever the calls return.
UninitializeReceiver ==
  /\ IF Initialized
       THEN /\ held' = held \ (acquired \cup {"socket"})
            /\ acquired' = {}
            /\ Initialized' = FALSE
       ELSE UNCHANGED <<held, acquired, Initialized>>
  /\ \E r \in {0, -1} : ReturnValue' = IF Initialized THEN OrResult(r) ELSE ReturnValue

\* What goes wrong when o is deleted now: something freed that is not held, or
\* an object used that is no more.
FaultsOf(o) ==
  { <<o, u>> : u \in Uses(o) \ objects }
    \cup IF o = "receiver" /\ Initialized THEN { <<o, r>> : r \in acquired \ held } ELSE {}

MutantDangling(o) == objects
Remaining(o)      == objects \ {o}

MutantLoggerFirst == <<"logger">> \o SubSeq(Deletions, 1, 11)
Order             == Deletions

\* One object after the other, if its pointer is not null.
Delete ==
  /\ pc = "uninitialize" /\ deletion <= Len(Order)
  /\ LET o == Order[deletion] IN
       IF o \in objects
         THEN /\ objects' = Remaining(o)
              /\ faults' = faults \cup FaultsOf(o)
                             \cup IF calls > 0 THEN { <<o, "again">> } ELSE {}
              /\ IF o = "inserter" THEN UninitializeInserter
                   ELSE UNCHANGED inserter
              /\ IF o = "receiver" THEN UninitializeReceiver
                   ELSE UNCHANGED <<held, acquired, Initialized>>
              /\ o \notin {"inserter", "receiver"} => UNCHANGED ReturnValue
         ELSE UNCHANGED <<acquiring, inserter, ReturnValue, faults>>
  /\ deletion' = deletion + 1
  /\ UNCHANGED <<pc, ApplicationRunFlag, handler, calls, history>>

\* main calls Uninitialize, and the destructor does once more.
UninitializeEnds ==
  /\ pc = "uninitialize" /\ deletion > Len(Order)
  /\ calls' = calls + 1
  /\ IF calls = 0 THEN deletion' = 1 /\ ReturnValue' = 0 /\ UNCHANGED pc
       ELSE pc' = "done" /\ UNCHANGED <<deletion, ReturnValue>>
  /\ UNCHANGED <<acquiring, inserter, ApplicationRunFlag, handler, history, faults>>

-----------------------------------------------------------------------------
\* signal_handler, which goes through RunFlagSignal to CommonData, there or not.
Interrupt ==
  /\ handler /\ pc \notin {"done", "crashed"}
  /\ interrupted' = pc
  /\ ApplicationRunFlag' = IF "common" \in objects THEN FALSE ELSE ApplicationRunFlag
  /\ faults' = faults \cup IF "common" \in objects THEN {} ELSE { <<"handler", "common">> }
  /\ UNCHANGED <<pc, acquiring, inserter, ReturnValue, handler, leaving, ran>>

Main ==
  \/ \E ok \in BOOLEAN : Start(ok)
  \/ NewCommonData \/ InitializeReceiver \/ NewParser \/ InitializeInserter \/ NewKeyboard
  \/ \E flags \in FlagsInLoop, ok \in BOOLEAN : Pass(flags, ok)
  \/ Delete \/ UninitializeEnds

Ended == pc \in {"done", "crashed"} /\ UNCHANGED vars

Next == Main \/ Interrupt \/ Ended

\* main runs on; the signal need not come.
Spec == Init /\ [][Next]_vars /\ WF_vars(Main)

-----------------------------------------------------------------------------
\* Every field has the type of its declaration.
TypeOK ==
  /\ pc \in {"start", "common", "driver", "pd", "vi", "memory", "filter", "socket",
             "parser", "file", "owner", "map", "publish", "keyboard", "loop",
             "uninitialize", "done", "crashed"}
  /\ objects \subseteq AllObjects
  /\ held \subseteq Resources
  /\ acquired \subseteq ReceiverResources
  /\ Initialized \in BOOLEAN /\ ReceivedData \in BOOLEAN /\ ApplicationRunFlag \in BOOLEAN
  /\ handler \in BOOLEAN /\ ran \in BOOLEAN
  /\ ReturnValue \in {0, -1}
  /\ WriterFlags \in FlagsInLoop \cup { {"Shutdown"} }
  /\ deletion \in 1 .. Len(Deletions) + 1 /\ calls \in 0 .. 2

\* The loop is entered only when every call that the code looks at succeeded,
\* up to the mapping of the file, although each Initialize goes on behind a
\* failure of another (UDPJubmoFrameReceiverImplementation.cpp:77).  Only the
\* registration of the packet memory, whose result is not looked at, may be
\* missing.
LoopOnlyWhenReady ==
  pc = "loop" =>
    /\ Initialized /\ ReceivedData
    /\ {"driver", "pd", "vi", "socket", "mapping"} \subseteq held
    /\ "file" \notin held

KnownFaults == { <<"receiver", "memory">>, <<"handler", "common">> }

\* Whatever failed before: nothing is freed that is not held, nothing is
\* deleted by both calls of Uninitialize, and no object is used after it was
\* deleted -- except that ef_memreg_free may be called for memory that was not
\* registered, and that the signal handler outlives CommonData
\* (UDPJubmoFrameReceiverImplementation.cpp:133-199).
NoFaultAtEnd == faults \subseteq KnownFaults

\* A program that ran gives back what it took from the system, except the
\* mapping.  One that failed to start may not: the receiver then does nothing
\* (NetworkReceiverImplementationEFVI.cpp:487).
NothingHeldAfterRun == pc = "done" /\ ran => held = {"mapping"} /\ acquired = {}

\* However the program ends, also if only the receiver failed to start: who
\* has the shared memory mapped learns that the writer shut down
\* (InserterImplementation.cpp:439).
ShutdownPublished ==
  pc = "done" /\ "mapping" \in held => WriterFlags = {"Shutdown"}

-----------------------------------------------------------------------------
(* What makes the properties of the end inductive.                          *)

AtReceiver  == {"driver", "pd", "vi", "memory", "filter", "socket"}
AtInserter  == {"file", "owner", "map", "publish"}
AtEnd       == {"uninitialize", "done"}

\* Which objects are there says where the program is: Uninitialize finds all of
\* them when it is called first, and none when it is called again.
ObjectsOK ==
  /\ pc = "start"  => objects = {}
  /\ pc = "common" =>
       objects = AllObjects \ {"common", "receiver", "parser", "inserter", "keyboard"}
  /\ pc \in AtReceiver \cup {"parser"} =>
       objects = AllObjects \ {"parser", "inserter", "keyboard"}
  /\ pc \in AtInserter \cup {"keyboard", "crashed"} => objects = AllObjects \ {"keyboard"}
  /\ pc = "loop" => objects = AllObjects
  /\ pc \in AtEnd =>
       objects = IF calls = 0 THEN { Deletions[i] : i \in deletion .. Len(Deletions) } ELSE {}
  /\ pc \notin AtEnd => deletion = 1 /\ calls = 0
  /\ pc = "uninitialize" => calls < 2
  /\ pc = "done" => calls = 2

\* The flags of the receiver name all that it holds; what they name and it does
\* not hold is the driver, as long as nothing was allocated from it, or the
\* registration of the memory.
AcquiredOK ==
  /\ held \cap ReceiverResources \subseteq acquired
  /\ acquired \ held \subseteq {"driver", "memory"}
  /\ pc \in {"start", "common", "driver"} => acquired = {}
  /\ pc = "pd"     => acquired = {"driver"}
  /\ pc = "vi"     => acquired = {"driver", "pd"} /\ acquired \subseteq held
  /\ pc = "memory" => acquired = {"driver", "pd", "vi"} /\ acquired \subseteq held
  /\ pc \in {"filter", "socket"} =>
       acquired = ReceiverResources /\ {"driver", "pd", "vi"} \subseteq held
  /\ pc \in {"start", "common"} \cup AtReceiver => ~Initialized
  /\ Initialized =>
       acquired = ReceiverResources /\ {"driver", "pd", "vi", "socket"} \subseteq held
  /\ "socket" \in held => Initialized

\* From the mapping on, either Uninitialize of the inserter is still to come or
\* the shutdown is published.
MappingOK ==
  /\ pc \in {"start", "common", "parser", "file"} \cup AtReceiver =>
       held \cap {"file", "mapping"} = {}
  /\ pc \in {"owner", "map"} => "mapping" \notin held
  /\ pc = "publish" => "mapping" \in held /\ "file" \notin held
  /\ pc \in {"start", "common", "parser"} \cup AtReceiver \cup AtInserter => ~ReceivedData
  /\ ReceivedData => "mapping" \in held /\ "file" \notin held
  /\ "mapping" \in held /\ pc # "publish" => ReceivedData \/ WriterFlags = {"Shutdown"}
  /\ pc \in AtEnd /\ "inserter" \notin objects => ~ReceivedData

\* ReturnValue is 0 only if every part that was initialized so far is up.
ReadyOK ==
  ReturnValue = 0 =>
    /\ pc \in {"parser", "keyboard"} \cup AtInserter => Initialized
    /\ pc = "keyboard" => ReceivedData

\* A program that ran holds what the loop needs, until the receiver is deleted.
RanOK ==
  /\ pc = "loop" => ran /\ ReceivedData
  /\ ran =>
       /\ pc \in {"loop"} \cup AtEnd
       /\ "mapping" \in held /\ "file" \notin held
       /\ IF "receiver" \in objects THEN Initialized
            ELSE held = {"mapping"} /\ acquired = {}

IInv ==
  /\ TypeOK
  /\ ObjectsOK
  /\ AcquiredOK
  /\ MappingOK
  /\ ReadyOK
  /\ RanOK
  /\ NoFaultAtEnd

-----------------------------------------------------------------------------
\* A SIGINT that comes once the inserter is initialized, before the loop or in
\* it, ends the program.  One that comes earlier is lost when the inserter
\* sets the run flag (InserterImplementation.cpp:364).
InterruptEndsProgram == interrupted \in {"keyboard", "loop"} ~> pc = "done"

=============================================================================
