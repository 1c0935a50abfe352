---------------------- MODULE MCInserterImplementation ----------------------
(* Instances of InserterImplementation for TLC.  With their metadata,       *)
(* messages of 52, 53 and 117 bytes take 1, 2 and 3 lines; 52 fills its     *)
(* line to the byte.                                                        *)
EXTENDS InserterImplementation

OneAndTwoLines == {52, 53}
UpToThreeLines == {52, 53, 117}

=============================================================================
