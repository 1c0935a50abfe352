-------------------------- MODULE KeyboardReadInput --------------------------
(***************************************************************************)
(* KeyboardReadInput.cpp, and the measurement of latencies that its keys   *)
(* control while messages wait: the receiver stamps a frame if T is on     *)
(* then, the parser leaves the stamp behind the last message of the frame, *)
(* and the inserter takes it off if T is on when it reads the message.     *)
(*                                                                         *)
(* KeyboardHit asks the terminal how many bytes wait; getchar takes a      *)
(* whole line from it and keeps what it does not return.                   *)
(*                                                                         *)
(* Left out: the keys for verbosity, thresholds, sleep and log level,      *)
(* which change nothing but output, m and ?, which only print; and what    *)
(* the parser makes of a frame for which T was toggled between receiver    *)
(* and parser, which is ParserImplementation's subject.                    *)
(***************************************************************************)
EXTENDS Percentile

CONSTANTS
  Keys,         \* keys that are typed
  MaxTyped,     \* bound: lines typed in all
  MaxWaiting    \* bound: messages in RingBufferPtr1

VARIABLES
  terminal,              \* lines typed and not taken by getchar yet
  stdin,                 \* what getchar took and has not returned yet
  typed,                 \* how many lines were typed
  ConfigurationFlags,
  waiting,               \* messages in RingBufferPtr1
  published              \* the message inserted last

keyboard == <<terminal, stdin, typed>>
messages == <<waiting, published>>
vars     == <<percentiles, keyboard, ConfigurationFlags, messages>>

ASSUME KeyboardAssumption == MaxTyped \in Nat /\ MaxWaiting \in Nat

StampBytes == 8
NoMessage  == [surplus |-> 0, toggled |-> FALSE]

FlagOf == [ t |-> "SHOW_TIMING", T |-> "GET_TIMING", P |-> "DONT_FILTER_SOUCE_ID" ]

Init ==
  /\ PercentileInit
  /\ terminal = <<>> /\ stdin = <<>> /\ typed = 0
  /\ ConfigurationFlags = {}
  /\ waiting = <<>> /\ published = NoMessage

-----------------------------------------------------------------------------
\* "use a <key><enter> sequence" (KeyboardReadInput.cpp:148)
TypeLine(key) ==
  /\ typed < MaxTyped
  /\ terminal' = Append(terminal, <<key, "enter">>)
  /\ typed' = typed + 1
  /\ UNCHANGED <<percentiles, stdin, ConfigurationFlags, messages>>

MutantOneLine == Len(terminal) = 1
KeyboardHit   == terminal # <<>>

\* What getchar returns from: its buffer, or the line it reads now.
Buffer == IF stdin = <<>> THEN terminal[1] ELSE stdin

\* The lines that getchar leaves in the terminal.
LinesLeft == IF stdin = <<>> THEN Tail(terminal) ELSE terminal

Flipped(flag) ==
  IF flag \in ConfigurationFlags THEN ConfigurationFlags \ {flag}
    ELSE ConfigurationFlags \cup {flag}

SwitchFlag(c) ==
  /\ c \in DOMAIN FlagOf
  /\ ConfigurationFlags' = Flipped(FlagOf[c])
  /\ waiting' = [i \in DOMAIN waiting |->
                   [waiting[i] EXCEPT !.toggled = @ \/ c = "T"]]
  /\ UNCHANGED percentiles

PrintTable(c) ==
  /\ c = "%" /\ PrintPercentileTableValues
  /\ UNCHANGED <<ConfigurationFlags, waiting>>

ResetTable(c) ==
  /\ c = "#" /\ ResetPercentileTableArray
  /\ UNCHANGED <<ConfigurationFlags, waiting>>

Ignore(c) ==
  /\ c \notin DOMAIN FlagOf \cup {"%", "#"}
  /\ UNCHANGED <<percentiles, ConfigurationFlags, waiting>>

ReadKeyboardInput ==
  /\ KeyboardHit
  /\ stdin' = Tail(Buffer)
  /\ terminal' = LinesLeft
  /\ LET c == Head(Buffer) IN SwitchFlag(c) \/ PrintTable(c) \/ ResetTable(c) \/ Ignore(c)
  /\ UNCHANGED <<typed, published>>

-----------------------------------------------------------------------------
GetTiming == "GET_TIMING" \in ConfigurationFlags

\* A message of a frame that receiver and parser let through, with the stamp
\* behind it if it is the last of its frame.
StoreMessage(last) ==
  /\ Len(waiting) < MaxWaiting
  /\ waiting' = Append(waiting, [stamped |-> GetTiming /\ last, toggled |-> FALSE])
  /\ UNCHANGED <<percentiles, keyboard, ConfigurationFlags, published>>

\* Its length is that of the message and of a time stamp.
MutantNeverStamped(m) == FALSE
HasStamp(m)           == m.stamped

TakesStampOff(m) == GetTiming /\ HasStamp(m)

Surplus(m) == IF m.stamped /\ ~TakesStampOff(m) THEN StampBytes ELSE 0

\* TimingStatisticsCollection.  A message without a stamp is measured as well,
\* from whatever time stamp was set last.
Collect(latency) ==
  IF GetTiming /\ "SHOW_TIMING" \notin ConfigurationFlags
    THEN AddNanosecondTimeStampMeasurement(latency)
    ELSE UNCHANGED percentiles

Insert(latency) ==
  /\ waiting # <<>>
  /\ waiting' = Tail(waiting)
  /\ published' = [surplus |-> Surplus(Head(waiting)), toggled |-> Head(waiting).toggled]
  /\ Collect(latency)
  /\ UNCHANGED <<keyboard, ConfigurationFlags>>

Next ==
  \/ \E key \in Keys : TypeLine(key)
  \/ ReadKeyboardInput
  \/ \E last \in BOOLEAN : StoreMessage(last)
  \/ \E latency \in Measurements : Insert(latency)

\* Every pass of the main loop gives the keyboard its turn.
Spec == Init /\ [][Next]_vars /\ WF_vars(ReadKeyboardInput)

-----------------------------------------------------------------------------
Lines == { <<key, "enter">> : key \in Keys }

\* Every field has the type of its declaration.
TypeOK ==
  /\ PercentileTypeOK
  /\ terminal \in Seq(Lines)
  /\ stdin \in Seq(Keys \cup {"enter"})
  /\ typed \in 0 .. MaxTyped
  /\ ConfigurationFlags \subseteq { FlagOf[k] : k \in DOMAIN FlagOf }
  /\ waiting \in Seq([stamped : BOOLEAN, toggled : BOOLEAN])
  /\ published \in [surplus : {0, StampBytes}, toggled : BOOLEAN]

\* Every key is read in the end, although KeyboardHit does not know what getchar
\* keeps: that is never a key as long as each is typed with <enter>
\* (KeyboardReadInput.cpp:33).
KeyWaits    == terminal # <<>> \/ \E i \in DOMAIN stdin : stdin[i] \in Keys
KeysAreRead == KeyWaits ~> ~KeyWaits

\* A message is published with the eight bytes of its time stamp only if T was
\* typed while it waited: the flag is looked at again when the message is read
\* (InserterImplementation.cpp:408).
SurplusOnlyAfterToggle == published.surplus > 0 => published.toggled

-----------------------------------------------------------------------------
(* What makes them inductive.                                               *)

\* A stamp that the inserter would not take off now was made before a toggle.
StampsExplained ==
  \A i \in DOMAIN waiting :
    waiting[i].stamped /\ ~GetTiming => waiting[i].toggled

IInv ==
  /\ TypeOK
  /\ ArrayArranged
  /\ TableOfMeasurements
  /\ StampsExplained
  /\ SurplusOnlyAfterToggle

=============================================================================
