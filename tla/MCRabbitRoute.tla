---------------------------- MODULE MCRabbitRoute ----------------------------
(* TLC instances of RabbitRoute. *)
EXTENDS RabbitRoute

\* from(..).to(..).errors_to(..).on_failure(Retry)
Serial == [partitioned |-> FALSE, target |-> TRUE, errorTarget |-> TRUE, onFailure |-> "Retry"]
\* from(..).partition_by(..).errors_to(..).on_failure(Reject).consume()
Workers == [partitioned |-> TRUE, target |-> FALSE, errorTarget |-> TRUE, onFailure |-> "Reject"]
Both == {Serial, Workers}
=============================================================================
