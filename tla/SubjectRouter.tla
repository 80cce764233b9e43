--------------------------- MODULE SubjectRouter ---------------------------
(***************************************************************************)
(* The routing table of src/src/bus/routing.rs as operators on a list of   *)
(* bindings.  A ConsumerId is only ever compared, and alloc_id never       *)
(* repeats one, so the consumer's own identity stands for it.              *)
(***************************************************************************)
EXTENDS SubjectMatch, FiniteSets, SequencesExt

CONSTANT NoQueue     \* the queue of a fanout binding (None)

Binding(pattern, queue, consumers) ==
  [pattern |-> pattern, queue |-> queue, consumers |-> consumers, rr |-> 0]

\* Mutant of BoundElsewhere: a queue may be bound to a second pattern.
NeverBoundElsewhere(bindings, pattern, queue) == FALSE
\* bind_queue fails when the queue serves another pattern.
BoundElsewhere(bindings, pattern, queue) ==
  \E i \in DOMAIN bindings : bindings[i].queue = queue /\ bindings[i].pattern # pattern

\* add_fanout (queue is NoQueue), or bind_queue followed by add_consumer: c
\* joins the binding of pattern and queue, which is appended if there is none.
Join(bindings, pattern, queue, c) ==
  LET Same == {i \in DOMAIN bindings : /\ bindings[i].pattern = pattern
                                       /\ bindings[i].queue = queue}
  IN IF Same = {} THEN Append(bindings, Binding(pattern, queue, <<c>>))
     ELSE [bindings EXCEPT ![CHOOSE i \in Same : TRUE].consumers = Append(@, c)]

Consumers(bindings) == UNION {ToSet(bindings[i].consumers) : i \in DOMAIN bindings}

-----------------------------------------------------------------------------
(* route *)

IsPicked(b, subject) == WildcardMatch(b.pattern, subject)

Picked(b) == IF b.queue = NoQueue THEN b.consumers
             ELSE IF b.consumers = <<>> THEN <<>>
             ELSE <<b.consumers[(b.rr % Len(b.consumers)) + 1]>>

\* The consumers a message for subject goes to, in the order of the bindings.
Route(bindings, subject) ==
  FlattenSeq([i \in DOMAIN bindings |->
                IF IsPicked(bindings[i], subject) THEN Picked(bindings[i]) ELSE <<>>])

\* The bindings after route: the round robin of each queue that was asked moves on.
Advanced(bindings, subject) ==
  [i \in DOMAIN bindings |->
     LET b == bindings[i]
     IN IF IsPicked(b, subject) /\ b.queue # NoQueue /\ b.consumers # <<>>
        THEN [b EXCEPT !.rr = @ + 1] ELSE b]

\* What is left of s without the elements of gone.  A recursive function, and
\* not SelectSeq, so that the proofs can look inside.
Left(s, gone) == LET left[i \in 0..Len(s)] ==
                       IF i = 0 THEN <<>>
                       ELSE IF s[i] \in gone THEN left[i - 1]
                       ELSE Append(left[i - 1], s[i])
                 IN left
Without(s, gone) == Left(s, gone)[Len(s)]

\* Mutant of RemoveConsumers: only the sender is dropped.
RemoveNone(bindings, dead) == bindings
\* remove_consumer for every consumer of dead: empty fanout bindings go, empty
\* queue bindings stay.
RemoveConsumers(bindings, dead) ==
  LET Pruned == [i \in DOMAIN bindings |->
                   [bindings[i] EXCEPT !.consumers = Without(@, dead)]]
      Empty == {b \in ToSet(Pruned) : b.queue = NoQueue /\ b.consumers = <<>>}
  IN Without(Pruned, Empty)
=============================================================================
