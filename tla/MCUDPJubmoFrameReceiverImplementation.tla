-------------- MODULE MCUDPJubmoFrameReceiverImplementation --------------
(* An instance of the main loop for TLC: every message takes one line of     *)
(* RingBufferPtr1.                                                           *)
EXTENDS UDPJubmoFrameReceiverImplementation

Both(b) == [t \in BOOLEAN |-> b]

Wire(type, id, seq, oks) ==
  [ header |-> Both(TRUE), type |-> type, session |-> id, seq |-> seq, trailing |-> 0,
    messages |-> [k \in DOMAIN oks |-> [bytes |-> 30, ok |-> Both(oks[k])]] ]

\* A session, its shutdown, a frame of it that is malformed, and another session
\* with a frame of more lines than the gate asks for.
TwoSessions ==
  { Wire("other", 1, 1, <<TRUE>>), Wire("shutdown", 1, 2, <<TRUE>>),
    Wire("other", 1, 3, <<FALSE>>), Wire("other", 2, 4, <<TRUE, TRUE>>) }

=============================================================================
