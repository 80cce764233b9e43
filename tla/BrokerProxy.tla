----------------------------- MODULE BrokerProxy -----------------------------
(***************************************************************************)
(* BrokerProxy of src/src/router/broker.rs: concurrent calls on one proxy, *)
(* the lazily initialised reply runtime, its bounded command channel and   *)
(* its task, which matches replies to pending calls.                       *)
(*                                                                         *)
(* The bus and the service are external: a request may be lost, also when  *)
(* dispatch succeeds, or reach the service although dispatch fails; the    *)
(* service answers late, twice, in any order or never; the subscription    *)
(* carries replies of others and may end at any time.  A call is named by  *)
(* its correlation ID, a fresh UUID.                                       *)
(***************************************************************************)
EXTENDS Naturals, Sequences, FiniteSets

CONSTANTS Calls, NoCall,
          Capacity,    \* of the command channel (64 in the code)
          MaxAnswers   \* bound: messages sent to the reply subject

ASSUME CallAssumption == NoCall \notin Calls
ASSUME CapacityAssumption == Capacity \in Nat \ {0}

VARIABLES
  cell,         \* the OnceCell runtime: "empty" or "set"
  initializer,  \* the call running initialize, NoCall if none
  task,         \* the reply task: "none", "running", "ended", "aborted"
  call,         \* call[c]: where call_with_headers is
  outcome,      \* outcome[c]: what it returned
  commands,     \* the command channel
  registered,   \* registered[c]: the oneshot confirming registration
  reply,        \* reply[c]: the oneshot carrying the reply
  pending,      \* calls the task knows
  inbox,        \* messages of the reply subscription
  requests,     \* calls whose request reached the service
  answered,     \* answered[c]: answers the service gave to c
  uncancelled   \* history: calls whose Cancel found the channel full

runtimeVars == <<cell, initializer>>
taskVars == <<task, pending>>
oneshotVars == <<registered, reply>>
busVars == <<inbox, requests, answered>>
vars == <<runtimeVars, taskVars, oneshotVars, busVars, call, outcome, commands, uncancelled>>

Answers == {"ok", "remote"}
Errors == {"transport", "timeout", "stopped"}
Message(c, a) == [correlation |-> c, answer |-> a]
Register(c) == [type |-> "Register", call |-> c]
Cancel(c) == [type |-> "Cancel", call |-> c]

Init == /\ cell = "empty" /\ initializer = NoCall
        /\ task = "none" /\ pending = {}
        /\ call = [c \in Calls |-> "idle"]
        /\ outcome = [c \in Calls |-> "none"]
        /\ commands = <<>>
        /\ registered = [c \in Calls |-> "open"]
        /\ reply = [c \in Calls |-> "open"]
        /\ inbox = <<>> /\ requests = {}
        /\ answered = [c \in Calls \union {NoCall} |-> <<>>]
        /\ uncancelled = {}

-----------------------------------------------------------------------------
(* A caller *)

GoTo(c, pc) == /\ call' = [call EXCEPT ![c] = pc]
               /\ UNCHANGED outcome

Return(c, o) == /\ call' = [call EXCEPT ![c] = "returned"]
                /\ outcome' = [outcome EXCEPT ![c] = o]

\* get_or_try_init: one call initialises, the others wait for it.
Start(c) == /\ call[c] = "idle"
            /\ task # "aborted"
            /\ GoTo(c, "initializing")
            /\ UNCHANGED <<runtimeVars, taskVars, oneshotVars, busVars, commands, uncancelled>>

BeginInitialize(c) ==
  /\ call[c] = "initializing"
  /\ cell = "empty" /\ initializer = NoCall
  /\ initializer' = c
  /\ UNCHANGED <<cell, taskVars, oneshotVars, busVars, call, outcome, commands, uncancelled>>

\* The subscription is open before anything is sent.
Initialize(c) ==
  /\ initializer = c
  /\ cell' = "set" /\ initializer' = NoCall
  /\ task' = "running"
  /\ GoTo(c, "sending")
  /\ UNCHANGED <<pending, oneshotVars, busVars, commands, uncancelled>>

\* A failed subscription leaves the cell empty for the next call.
InitializeFails(c) ==
  /\ initializer = c
  /\ initializer' = NoCall
  /\ Return(c, "transport")
  /\ UNCHANGED <<cell, taskVars, oneshotVars, busVars, commands, uncancelled>>

RuntimeReady(c) ==
  /\ call[c] = "initializing"
  /\ cell = "set"
  /\ GoTo(c, "sending")
  /\ UNCHANGED <<runtimeVars, taskVars, oneshotVars, busVars, commands, uncancelled>>

EncodeFails(c) ==
  /\ call[c] = "sending"
  /\ Return(c, "transport")
  /\ UNCHANGED <<runtimeVars, taskVars, oneshotVars, busVars, commands, uncancelled>>

\* The channel is closed when the task has dropped its receiver.
Open == task = "running"

HasRoom == Len(commands) < Capacity

\* Mutant of AfterRegister: the request goes out without the confirmation.
AfterRegisterAtOnce(c) == GoTo(c, "dispatching")
AfterRegister(c) == GoTo(c, "confirming")

SendRegister(c) ==
  /\ call[c] = "sending"
  /\ Open /\ HasRoom
  /\ commands' = Append(commands, Register(c))
  /\ AfterRegister(c)
  /\ UNCHANGED <<runtimeVars, taskVars, oneshotVars, busVars, uncancelled>>

SendFails(c) ==
  /\ call[c] = "sending"
  /\ ~Open
  /\ Return(c, "stopped")
  /\ UNCHANGED <<runtimeVars, taskVars, oneshotVars, busVars, commands, uncancelled>>

Confirmed(c) ==
  /\ call[c] = "confirming"
  /\ \/ registered[c] = "confirmed" /\ GoTo(c, "dispatching")
     \/ registered[c] = "dropped" /\ Return(c, "stopped")
  /\ UNCHANGED <<runtimeVars, taskVars, oneshotVars, busVars, commands, uncancelled>>

\* Mutant of TryCancel: a call that gives up says nothing.
NoCancel(c) == UNCHANGED <<commands, uncancelled>>
\* try_send: no room and no receiver are the same to the caller.
TryCancel(c) ==
  /\ commands' = IF Open /\ HasRoom
                 THEN Append(commands, Cancel(c)) ELSE commands
  /\ uncancelled' = IF Open /\ ~HasRoom
                    THEN uncancelled \union {c} ELSE uncancelled

\* The request reaches the service or not, whatever the bus says.
Request(c) == /\ requests' \in {requests, requests \union {c}}
              /\ UNCHANGED <<inbox, answered>>

Dispatched(c) ==
  /\ call[c] = "dispatching"
  /\ Request(c)
  /\ GoTo(c, "waiting")
  /\ UNCHANGED <<runtimeVars, taskVars, oneshotVars, commands, uncancelled>>

DispatchFails(c) ==
  /\ call[c] = "dispatching"
  /\ Request(c)
  /\ TryCancel(c)
  /\ Return(c, "transport")
  /\ UNCHANGED <<runtimeVars, taskVars, oneshotVars>>

\* The reply is decoded, or cannot be; a failure marker makes it Remote.
ReplyReceived(c) ==
  /\ call[c] = "waiting"
  /\ reply[c] # "open"
  /\ \/ reply[c] = "dropped" /\ Return(c, "stopped")
     \/ reply[c] # "dropped" /\ Return(c, reply[c])
     \/ reply[c] # "dropped" /\ Return(c, "transport")
  /\ UNCHANGED <<runtimeVars, taskVars, oneshotVars, busVars, commands, uncancelled>>

\* timeout polls the reply before the clock.
TimesOut(c) ==
  /\ call[c] = "waiting"
  /\ reply[c] = "open"
  /\ TryCancel(c)
  /\ Return(c, "timeout")
  /\ UNCHANGED <<runtimeVars, taskVars, oneshotVars, busVars>>

InCall(c) == call[c] \notin {"idle", "returned", "abandoned"}

\* The caller drops the future: nothing is cancelled.
Abandon(c) ==
  /\ InCall(c)
  /\ GoTo(c, "abandoned")
  /\ initializer' = IF initializer = c THEN NoCall ELSE initializer
  /\ UNCHANGED <<cell, taskVars, oneshotVars, busVars, commands, uncancelled>>

-----------------------------------------------------------------------------
(* The reply task; select! takes commands and replies in any order *)

ServeCommand ==
  /\ Open
  /\ commands # <<>>
  /\ commands' = Tail(commands)
  /\ LET command == Head(commands)
     IN \/ /\ command.type = "Register"
           /\ pending' = pending \union {command.call}
           /\ registered' = [registered EXCEPT ![command.call] = "confirmed"]
        \/ /\ command.type = "Cancel"
           /\ pending' = pending \ {command.call}
           /\ UNCHANGED registered
  /\ UNCHANGED <<runtimeVars, task, reply, busVars, call, outcome, uncancelled>>

\* Mutant of Matches: the first pending call gets the reply.
MatchesAny(c, message) == TRUE
Matches(c, message) == message.correlation = c

\* A reply nobody waits for is dropped.
TakeReply ==
  /\ Open
  /\ inbox # <<>>
  /\ inbox' = Tail(inbox)
  /\ \/ \E c \in pending :
          /\ Matches(c, Head(inbox))
          /\ pending' = pending \ {c}
          /\ reply' = [reply EXCEPT ![c] = Head(inbox).answer]
     \/ /\ \A c \in pending : ~Matches(c, Head(inbox))
        /\ UNCHANGED <<pending, reply>>
  /\ UNCHANGED <<runtimeVars, task, registered, requests, answered, call, outcome, commands, uncancelled>>

\* Mutant of Unregistered: queued commands keep their senders.
UnregisteredNone(c) == FALSE
\* c is still in the command channel.
Unregistered(c) == \E i \in DOMAIN commands : commands[i] = Register(c)

\* The task returns or is aborted: pending calls and queued commands go.
Ends(how) ==
  /\ Open
  /\ task' = how
  /\ reply' = [c \in Calls |-> IF c \in pending \/ Unregistered(c) THEN "dropped" ELSE reply[c]]
  /\ registered' = [c \in Calls |-> IF Unregistered(c) THEN "dropped" ELSE registered[c]]
  /\ pending' = {}
  /\ commands' = <<>>
  /\ inbox' = <<>>
  /\ UNCHANGED <<runtimeVars, requests, answered, call, outcome, uncancelled>>

\* The runtime stays in the cell: no later call starts another one.
SubscriptionEnds == Ends("ended")

\* A proxy is dropped when nobody calls it.
Drop == /\ \A c \in Calls : ~InCall(c)
        /\ Ends("aborted")

-----------------------------------------------------------------------------
(* The service and the bus *)

AnswersGiven == UNION {{c} \X DOMAIN answered[c] : c \in DOMAIN answered}

\* NoCall: a message with another proxy's correlation ID, or with none.
ServiceAnswers(c, a) ==
  /\ c \in requests \union {NoCall}
  /\ Cardinality(AnswersGiven) < MaxAnswers
  /\ answered' = [answered EXCEPT ![c] = Append(@, a)]
  /\ inbox' \in {inbox} \union (IF Open THEN {Append(inbox, Message(c, a))} ELSE {})
  /\ UNCHANGED <<runtimeVars, taskVars, oneshotVars, requests, call, outcome, commands, uncancelled>>

-----------------------------------------------------------------------------
CallNext(c) == \/ BeginInitialize(c) \/ Initialize(c) \/ InitializeFails(c) \/ RuntimeReady(c)
               \/ EncodeFails(c) \/ SendRegister(c) \/ SendFails(c) \/ Confirmed(c)
               \/ Dispatched(c) \/ DispatchFails(c) \/ ReplyReceived(c) \/ TimesOut(c)

TaskNext == ServeCommand \/ TakeReply

Next == \/ \E c \in Calls : Start(c) \/ CallNext(c) \/ Abandon(c)
        \/ TaskNext \/ SubscriptionEnds \/ Drop
        \/ \E c \in Calls \union {NoCall}, a \in Answers : ServiceAnswers(c, a)

\* Futures are polled, bus calls return and the timeout fires; nothing is asked
\* of the service.
Fairness == /\ \A c \in Calls : WF_vars(CallNext(c))
            /\ WF_vars(ServeCommand) /\ WF_vars(TakeReply)

Spec == Init /\ [][Next]_vars /\ Fairness

-----------------------------------------------------------------------------
(* Correctness *)

TypeOK ==
  /\ cell \in {"empty", "set"} /\ initializer \in Calls \union {NoCall}
  /\ task \in {"none", "running", "ended", "aborted"} /\ (task = "none" <=> cell = "empty")
  /\ call \in [Calls -> {"idle", "initializing", "sending", "confirming", "dispatching",
                         "waiting", "returned", "abandoned"}]
  /\ outcome \in [Calls -> {"none"} \union Answers \union Errors]
  /\ \A i \in DOMAIN commands : \E c \in Calls : commands[i] \in {Register(c), Cancel(c)}
  /\ Len(commands) <= Capacity
  /\ registered \in [Calls -> {"open", "confirmed", "dropped"}]
  /\ reply \in [Calls -> {"open", "dropped"} \union Answers]
  /\ pending \subseteq Calls /\ requests \subseteq Calls /\ uncancelled \subseteq Calls

\* While a call waits for its reply the task knows it, so a reply is never
\* thrown away because it came too early.
NoReplyMissed ==
  \A c \in Calls : call[c] \in {"dispatching", "waiting"} /\ reply[c] = "open" => c \in pending

\* An entry of pending whose call is over goes with a queued Cancel, unless the
\* caller dropped the future or the channel was full when it gave up: those
\* entries stay for the life of the proxy.
PendingHasReason ==
  \A c \in pending :
    \/ InCall(c)
    \/ call[c] = "abandoned"
    \/ c \in uncancelled
    \/ \E i \in DOMAIN commands : commands[i] = Cancel(c)

\* Every call returns, even when the service is silent or the reply task dies:
\* the timeout covers the wait, dropped senders everything before it.
CallReturns == \A c \in Calls : InCall(c) ~> ~InCall(c)

\* The proxy implements the request/reply promise.  README.md, "Each call gets a
\* UUID correlation ID": a call returns once, with an answer the service gave to
\* that call, whatever is late, duplicated or addressed to somebody else.
Promise == INSTANCE RequestReply WITH
  answered <- [c \in Calls |-> {answered[c][i] : i \in DOMAIN answered[c]}]
ImplementsRequestReply == Promise!Spec
=============================================================================
