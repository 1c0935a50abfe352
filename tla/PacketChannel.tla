---------------------------- MODULE PacketChannel ----------------------------
(***************************************************************************)
(* What the receiver promises the parser: of the packets that come one     *)
(* after the other, every one that the network card does not reject is     *)
(* stored whole, once, and in the order of arrival.  No buffers, no        *)
(* fragments, no events and no batches: only which packets wait, and which *)
(* are stored.  Nothing is lost but what waits when the receiver gives up. *)
(***************************************************************************)
EXTENDS Naturals, Sequences

CONSTANT Packets   \* whole packets as they are stored

VARIABLES
  coming,    \* a packet has begun to arrive
  arrived,   \* how many have
  waiting,   \* packets that are complete and not stored yet
  stored,    \* packets that the parser has not read yet, oldest first
  open       \* the receiver has not given up

vars == <<coming, arrived, waiting, stored, open>>

\* The number of a packet, in the order of arrival.
Arrival(p) == p.data[1].number

Init ==
  /\ coming = FALSE
  /\ arrived = 0
  /\ waiting = {}
  /\ stored = <<>>
  /\ open = TRUE

Begin ==
  /\ ~coming
  /\ coming' = TRUE
  /\ arrived' = arrived + 1
  /\ UNCHANGED <<waiting, stored, open>>

Complete(p) ==
  /\ coming
  /\ Arrival(p) = arrived
  /\ coming' = FALSE
  /\ waiting' = IF open THEN waiting \cup {p} ELSE waiting
  /\ UNCHANGED <<arrived, stored, open>>

Reject ==
  /\ coming
  /\ coming' = FALSE
  /\ UNCHANGED <<arrived, waiting, stored, open>>

\* Something arrives that is no packet.
Skip ==
  /\ ~coming
  /\ arrived' = arrived + 1
  /\ UNCHANGED <<coming, waiting, stored, open>>

Store(p) ==
  /\ open
  /\ p \in waiting /\ \A q \in waiting : Arrival(p) <= Arrival(q)
  /\ waiting' = waiting \ {p}
  /\ stored' = Append(stored, p)
  /\ UNCHANGED <<coming, arrived, open>>

Take ==
  /\ stored # <<>>
  /\ stored' = Tail(stored)
  /\ UNCHANGED <<coming, arrived, waiting, open>>

GiveUp ==
  /\ open' = FALSE
  /\ waiting' = {}
  /\ UNCHANGED <<coming, arrived, stored>>

Next ==
  \/ Begin \/ Reject \/ Skip
  \/ \E p \in Packets : Complete(p) \/ Store(p)
  \/ Take \/ GiveUp

Spec == Init /\ [][Next]_vars

=============================================================================
