------------------------------ MODULE MCOutbox ------------------------------
(* TLC instances of Outbox. *)
EXTENDS Outbox

CONSTANTS e1, e2, c1, c2

\* Ack and Reject mean the same to the store.
Decisions == {"Ack", "Retry"}

\* Two consumers with renewal compete for a record; one consumer without it
\* meets a store that returns more records than it was asked for.
Competing == [records |-> {e1}, consumers |-> {c1, c2}, renewal |-> TRUE]
Alone == [records |-> {e1, e2}, consumers |-> {c1}, renewal |-> FALSE]
Both == {Competing, Alone}
OnlyAlone == {Alone}
=============================================================================
