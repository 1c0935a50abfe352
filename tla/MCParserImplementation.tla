------------------------ MODULE MCParserImplementation ------------------------
(* Instances of ParserImplementation for TLC.  A message of 30 bytes takes   *)
(* one line of the ring, one of 60 bytes takes two with a timestamp.         *)
EXTENDS ParserImplementation

Both(b)   == [t \in BOOLEAN |-> b]
Good(n)   == [bytes |-> n, ok |-> Both(TRUE)]
Faulty(n) == [bytes |-> n, ok |-> Both(FALSE)]

Wire(type, id, seq, messages, trailing) ==
  [ header |-> Both(TRUE), type |-> type, session |-> id, seq |-> seq,
    messages |-> messages, trailing |-> trailing ]

BadHeader == [ Wire("other", 1, 1, <<>>, 0) EXCEPT !.header = Both(FALSE) ]

\* A session and its shutdown, another session whose frames are stamped, and
\* frames that go wrong in their header or at their last message.  The one of
\* these that has messages need not fit through the gate, all others do.
AllFrames ==
  { Wire("other", 1, 1, <<Good(30), Good(30)>>, 0),
    Wire("shutdown", 1, 1, <<Good(30), Good(30)>>, 0),
    Wire("other", 1, 2, <<Good(30), Faulty(100)>>, 0),
    Wire("other", 2, 1, <<Good(60)>>, StampBytes),
    BadHeader }

\* A frame of more lines than the gate asks for.
LongFrames == { Wire("other", 1, 1, <<Good(30), Good(30), Good(30)>>, 0) }

=============================================================================
