------------------------------ MODULE SharedLog ------------------------------
(***************************************************************************)
(* What the data section of the shared memory promises a consumer: a log   *)
(* of records that only grows at its end, and a cursor that walks it.  The *)
(* consumer gets each record as it was inserted, in order and at most      *)
(* once.  The inserter never waits for it: a consumer that is overrun      *)
(* learns that it lost records, never gets a damaged one.  A filler is a   *)
(* record without bytes, which the consumer passes over.                   *)
(***************************************************************************)
EXTENDS Naturals, Sequences

CONSTANT Records   \* records [bytes, seq]: number of bytes, sequence number

VARIABLES
  log,     \* the committed records, oldest first
  next,    \* index of the record the consumer reads next
  got      \* what the consumer got last

vars == <<log, next, got>>

Filler(r) == r.bytes = 0

Init ==
  /\ log = <<>>
  /\ next = 1
  /\ got = <<"nothing">>

Insert(r) ==
  /\ log' = Append(log, r)
  /\ UNCHANGED <<next, got>>

Deliver ==
  /\ next <= Len(log)
  /\ ~Filler(log[next])
  /\ next' = next + 1
  /\ got' = <<"record", log[next]>>
  /\ log' = log

PassFiller ==
  /\ next <= Len(log)
  /\ Filler(log[next])
  /\ next' = next + 1
  /\ got' = <<"filler">>
  /\ log' = log

\* The records up to the end of the log are lost to this consumer.
Overrun ==
  /\ next <= Len(log)
  /\ next' = Len(log) + 1
  /\ got' = <<"lost">>
  /\ log' = log

Next ==
  \/ \E r \in Records : Insert(r)
  \/ Deliver \/ PassFiller \/ Overrun

Spec == Init /\ [][Next]_vars

=============================================================================
