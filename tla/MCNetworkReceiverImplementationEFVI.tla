----------------- MODULE MCNetworkReceiverImplementationEFVI -----------------
(* Instances of NetworkReceiverImplementationEFVI for TLC.  Packets of 30 and *)
(* 60 bytes take one line of the ring.                                        *)
EXTENDS NetworkReceiverImplementationEFVI

Single(bad) == [upto |-> <<30>>, bad |-> bad]
Double(bad) == [upto |-> <<30, 60>>, bad |-> bad]

AllKinds == { Single(FALSE), Single(TRUE), Double(FALSE), Double(TRUE) }

=============================================================================
