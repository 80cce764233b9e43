--------------------------- MODULE MCLocalRouter ---------------------------
(***************************************************************************)
(* TLC instances of LocalRouter: patterns that overlap, a fanout and a     *)
(* group on the same subject, and a group asked for under two patterns.    *)
(***************************************************************************)
EXTENDS LocalRouter, TLC

CONSTANT workers       \* the queue group

Orders == <<"orders", "new">>
AllSubjects == {Orders, <<"orders", "new", "eu">>}
OneSubject == {Orders}
AllSubscriptions == {[pattern |-> <<"orders", "*">>, queue |-> NoQueue],
                     [pattern |-> <<"orders", "*">>, queue |-> workers],
                     [pattern |-> <<"orders", ">">>, queue |-> workers]}
GroupSubscriptions == {[pattern |-> <<"orders", "*">>, queue |-> workers]}

SubscriberSymmetry == Permutations(Subscribers)
=============================================================================
