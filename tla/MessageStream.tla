---------------------------- MODULE MessageStream ----------------------------
(***************************************************************************)
(* What the parser promises the inserter: a stream of messages in which    *)
(* every frame that the network delivered counts whole or not at all.  No  *)
(* messages one by one, no roll back and no session: only which batches    *)
(* joined the stream, in which order, and the sequence number that goes    *)
(* with the last one.                                                      *)
(***************************************************************************)
EXTENDS Naturals, Sequences

CONSTANT Batches   \* the messages of each valid frame: [seq, messages]

VARIABLES
  stream,   \* the messages not yet taken, oldest first
  number    \* sequence number of the frame accepted last

vars == <<stream, number>>

Init ==
  /\ stream = <<>>
  /\ number = 0

Accept(b) ==
  /\ stream' = stream \o b.messages
  /\ number' = b.seq

Take ==
  /\ stream # <<>>
  /\ stream' = Tail(stream)
  /\ number' = number

Next == (\E b \in Batches : Accept(b)) \/ Take

Spec == Init /\ [][Next]_vars

=============================================================================
