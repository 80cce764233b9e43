---------------------------- MODULE KeyedSerial ----------------------------
(***************************************************************************)
(* What a partitioner promises (src/src/router/core.rs, "Each key has a    *)
(* bounded Tokio channel and one worker. Jobs for the same key run         *)
(* sequentially, while different keys can run concurrently"): one FIFO     *)
(* line per key, at most one job of a key running, every accepted job run  *)
(* exactly once.  Workers, generations, retirement and the registry are    *)
(* invisible at this level.                                                *)
(***************************************************************************)
EXTENDS Naturals, Sequences

CONSTANTS Keys,        \* partition keys
          Jobs,        \* jobs; job.by is the submitter, job.n its number
          NoJob        \* "no job is running"

VARIABLES line,        \* line[k]: accepted jobs of k that wait, in order
          current,     \* current[k]: the job of k that runs, or NoJob
          completed    \* jobs whose completion was reported

vars == <<line, current, completed>>

Queued == {j \in Jobs : \E i \in DOMAIN line[j.key] : line[j.key][i] = j}
Accepted == Queued \union {current[k] : k \in Keys} \union completed

Init == /\ line = [k \in Keys |-> <<>>]
        /\ current = [k \in Keys |-> NoJob]
        /\ completed = {}

\* A submitter's jobs are accepted one at a time and in its own order.
Accept(j) == /\ \A i \in Accepted \ {NoJob} : i.by = j.by => i.n < j.n
             /\ line' = [line EXCEPT ![j.key] = Append(@, j)]
             /\ UNCHANGED <<current, completed>>

Start(k) == /\ current[k] = NoJob
            /\ line[k] # <<>>
            /\ current' = [current EXCEPT ![k] = Head(line[k])]
            /\ line' = [line EXCEPT ![k] = Tail(@)]
            /\ UNCHANGED completed

Finish(k) == /\ current[k] # NoJob
             /\ completed' = completed \union {current[k]}
             /\ current' = [current EXCEPT ![k] = NoJob]
             /\ UNCHANGED line

Next == \/ \E j \in Jobs : Accept(j)
        \/ \E k \in Keys : Start(k) \/ Finish(k)

\* Every line is served: no accepted job waits or runs for ever.
Fairness == \A k \in Keys : WF_vars(Start(k)) /\ WF_vars(Finish(k))

Spec == Init /\ [][Next]_vars /\ Fairness
=============================================================================
