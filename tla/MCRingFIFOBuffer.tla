-------------------------- MODULE MCRingFIFOBuffer --------------------------
(* Instances of RingFIFOBuffer for TLC.  Frames of 60 and 188 bytes take 1  *)
(* and 3 lines, and fill their last line to the byte.                       *)
EXTENDS RingFIFOBuffer

\* For a ring of 6 lines: tails of one and of two lines are skipped.
MixedFrames == { [len |-> 60, val |-> 1], [len |-> 188, val |-> 1] }

=============================================================================
