----------------------------- MODULE FrameQueue -----------------------------
(***************************************************************************)
(* What RingFIFOBuffer promises its callers: a first-in first-out queue of *)
(* frames whose newest entries can be taken back.  No lines, no indices    *)
(* and no byte counts: only which frames are stored, and in which order.   *)
(*                                                                         *)
(* Put may be refused while the queue holds something (the ring is full)   *)
(* or is closed; an open and empty queue accepts every frame, which is     *)
(* what the spin loops of the parser and of the receiver rely on.          *)
(***************************************************************************)
EXTENDS Naturals, Sequences

CONSTANT Frames   \* the frames and messages that callers store

VARIABLES
  open,    \* between Initialize and Uninitialize
  queue,   \* the stored frames, oldest first
  saved,   \* length of the queue at the last Snap, or NoSnap
  out      \* answer of the last Write or Read

vars == <<open, queue, saved, out>>

NoSnap  == [snap |-> "none"]
NoFrame == [got |-> "nothing"]
Snapped(n) == [snap |-> "at", length |-> n]

Init ==
  /\ open = TRUE
  /\ queue = <<>>
  /\ saved = NoSnap
  /\ out = <<"none", NoFrame>>

Put(f) ==
  /\ open
  /\ queue' = Append(queue, f)
  /\ out' = <<"accepted", f>>
  /\ UNCHANGED <<open, saved>>

Refuse(f) ==
  /\ ~open \/ queue # <<>>
  /\ out' = <<"refused", f>>
  /\ UNCHANGED <<open, queue, saved>>

Get ==
  /\ queue # <<>>
  /\ out' = <<"read", Head(queue)>>
  /\ queue' = Tail(queue)
  /\ saved' = NoSnap
  /\ open' = open

GetNothing ==
  /\ queue = <<>>
  /\ out' = <<"read", NoFrame>>
  /\ saved' = NoSnap
  /\ UNCHANGED <<open, queue>>

Mark ==
  /\ saved' = Snapped(Len(queue))
  /\ UNCHANGED <<open, queue, out>>

RollBack ==
  /\ saved # NoSnap
  /\ queue' = SubSeq(queue, 1, saved.length)
  /\ UNCHANGED <<open, saved, out>>

Close ==
  /\ open' = FALSE
  /\ queue' = <<>>
  /\ saved' = NoSnap
  /\ out' = out

Open ==
  /\ open' = TRUE
  /\ queue' = <<>>
  /\ saved' = NoSnap
  /\ out' = out

Next ==
  \/ \E f \in Frames : Put(f) \/ Refuse(f)
  \/ Get \/ GetNothing
  \/ Mark \/ RollBack
  \/ Open \/ Close

Spec == Init /\ [][Next]_vars

=============================================================================
