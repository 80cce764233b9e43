---------------------------- MODULE RequestReply ----------------------------
(***************************************************************************)
(* What a proxy promises its callers: a call returns once, with what the   *)
(* service answered to that very call, or with an error of its own.        *)
(***************************************************************************)
CONSTANTS Calls, Answers, Errors

VARIABLES answered,  \* answered[c]: what the service answered to call c so far
          outcome    \* outcome[c]: "none", an answer or an error

vars == <<answered, outcome>>

Init == /\ answered = [c \in Calls |-> {}]
        /\ outcome = [c \in Calls |-> "none"]

Answer(c, a) == /\ answered' = [answered EXCEPT ![c] = @ \union {a}]
                /\ UNCHANGED outcome

Return(c) == /\ outcome[c] = "none"
             /\ \E o \in answered[c] \union Errors : outcome' = [outcome EXCEPT ![c] = o]
             /\ UNCHANGED answered

Next == \E c \in Calls : Return(c) \/ \E a \in Answers : Answer(c, a)

Spec == Init /\ [][Next]_vars
=============================================================================
