-------------------------- MODULE BrokerProxyProofs --------------------------
(***************************************************************************)
(* Proofs about BrokerProxy, for any calls, any capacity of the command    *)
(* channel and any number of answers: what the reply task knows of a call, *)
(* and that the proxy implements RequestReply.                             *)
(***************************************************************************)
EXTENDS BrokerProxy, QueueFacts

USE CallAssumption, CapacityAssumption

-----------------------------------------------------------------------------
(* The inductive invariant *)

Command == {Register(c) : c \in Calls} \union {Cancel(c) : c \in Calls}
Reply == [correlation : Calls \union {NoCall}, answer : Answers]

ProxyTypeOK ==
  /\ cell \in {"empty", "set"} /\ initializer \in Calls \union {NoCall}
  /\ task \in {"none", "running", "ended", "aborted"}
  /\ call \in [Calls -> {"idle", "initializing", "sending", "confirming", "dispatching",
                         "waiting", "returned", "abandoned"}]
  /\ outcome \in [Calls -> {"none"} \union Answers \union Errors]
  /\ commands \in Seq(Command) /\ Len(commands) <= Capacity
  /\ registered \in [Calls -> {"open", "confirmed", "dropped"}]
  /\ reply \in [Calls -> {"open", "dropped"} \union Answers]
  /\ pending \in SUBSET Calls /\ requests \in SUBSET Calls /\ uncancelled \in SUBSET Calls
  /\ inbox \in Seq(Reply)
  /\ answered \in [Calls \union {NoCall} -> Seq(Answers)]

\* Nobody sends to a task that was not started, and one call starts it.
RuntimeInv ==
  /\ task = "none" <=> cell = "empty"
  /\ initializer # NoCall => call[initializer] = "initializing" /\ cell = "empty"
  /\ \A c \in Calls : call[c] \in {"sending", "confirming", "dispatching", "waiting"}
                      => cell = "set"

\* A call registers once and cancels once: it waits for the confirmation, or is
\* given up, while its Register is queued, and has returned when its Cancel is.
QueueInv ==
  /\ IsInjective(commands)
  /\ \A c \in Calls :
       /\ Register(c) \in ToSet(commands) =>
            registered[c] = "open" /\ call[c] \in {"confirming", "abandoned"}
       /\ Cancel(c) \in ToSet(commands) => call[c] = "returned"

\* A confirmation comes after its Register, and a reply after its confirmation
\* and when the entry is gone.
OneshotInv ==
  \A c \in Calls :
    /\ registered[c] # "open" => call[c] \notin {"idle", "initializing", "sending"}
    /\ registered[c] = "open" => reply[c] = "open" /\ c \notin pending
    /\ call[c] \in {"dispatching", "waiting"} => registered[c] = "confirmed"
    /\ registered[c] = "dropped" => c \notin pending
    /\ reply[c] # "open" => c \notin pending

\* A task that has ended knows nobody.
EndedInv == task # "running" => pending = {}

\* Once confirmed, a call is pending until it is replied to or gives up.
ConfirmedInv ==
  \A c \in Calls : /\ call[c] \in {"confirming", "dispatching", "waiting"}
                   /\ registered[c] = "confirmed" /\ reply[c] = "open"
                   => c \in pending

\* Answers travel unchanged, and a call has no outcome before it returns.
AnswerInv ==
  /\ \A m \in ToSet(inbox) : m.answer \in ToSet(answered[m.correlation])
  /\ \A c \in Calls : reply[c] \in Answers => reply[c] \in ToSet(answered[c])
  /\ \A c \in Calls : call[c] # "returned" => outcome[c] = "none"

ProxyInv == /\ ProxyTypeOK /\ RuntimeInv /\ QueueInv /\ OneshotInv /\ EndedInv
            /\ ConfirmedInv /\ AnswerInv /\ PendingHasReason

LEMMA ProxyInvInit == Init => ProxyInv
<1> SUFFICES ASSUME Init PROVE ProxyInv
  OBVIOUS
<1>1. /\ commands \in Seq(Command) /\ inbox \in Seq(Reply)
      /\ ToSet(commands) = {} /\ ToSet(inbox) = {} /\ IsInjective(commands)
      /\ Len(commands) = 0
  BY EmptyQueue DEF Init
<1>2. ProxyTypeOK
  <2>1. answered \in [Calls \union {NoCall} -> Seq(Answers)]
    BY EmptyQueue DEF Init
  <2> QED
    BY <1>1, <2>1 DEF Init, ProxyTypeOK
<1>3. RuntimeInv /\ OneshotInv /\ EndedInv /\ ConfirmedInv /\ PendingHasReason
  BY DEF Init, RuntimeInv, OneshotInv, EndedInv, ConfirmedInv, PendingHasReason
<1>4. QueueInv
  BY <1>1 DEF QueueInv
<1>5. AnswerInv
  BY <1>1 DEF Init, AnswerInv, Answers
<1> QED
  BY <1>2, <1>3, <1>4, <1>5 DEF ProxyInv

LEMMA CommandKinds ==
  ASSUME NEW c \in Calls, NEW d \in Calls
  PROVE  /\ Register(c) \in Command /\ Cancel(c) \in Command
         /\ Register(c) # Cancel(d)
         /\ Register(c) = Register(d) <=> c = d
         /\ Cancel(c) = Cancel(d) <=> c = d
         /\ Register(c).type = "Register" /\ Register(c).call = c
         /\ Cancel(c).type = "Cancel" /\ Cancel(c).call = c
BY DEF Command, Register, Cancel

\* PendingHasReason in terms of what is queued.
LEMMA PendingReasons ==
  PendingHasReason <=>
    \A c \in pending : \/ InCall(c) \/ call[c] = "abandoned" \/ c \in uncancelled
                       \/ Cancel(c) \in ToSet(commands)
BY DEF PendingHasReason, ToSet

-----------------------------------------------------------------------------
(* A caller *)

\* A call that only moves on: its oneshots, the channel and the bus stay.
LEMMA CallMoves ==
  ASSUME ProxyInv, NEW c \in Calls, NEW pc, NEW o,
         UNCHANGED <<pending, oneshotVars, inbox, answered, commands, uncancelled>>,
         call' = [call EXCEPT ![c] = pc],
         outcome' = [outcome EXCEPT ![c] = o],
         ProxyTypeOK', RuntimeInv',
         task' = task \/ pending = {},
         pc # "idle" /\ call[c] # "returned",
         Register(c) \in ToSet(commands) => pc \in {"confirming", "abandoned"},
         registered[c] # "open" => pc \notin {"initializing", "sending"},
         pc \in {"dispatching", "waiting"} =>
           call[c] \in {"confirming", "dispatching"} /\ registered[c] = "confirmed",
         pc = "confirming" => call[c] = "confirming",
         pc = "returned" => c \notin pending,
         pc # "returned" => o = outcome[c]
  PROVE  ProxyInv'
<1> USE DEF oneshotVars
<1>1. call \in [Calls -> {"idle", "initializing", "sending", "confirming", "dispatching",
                         "waiting", "returned", "abandoned"}]
      /\ outcome \in [Calls -> {"none"} \union Answers \union Errors]
  BY DEF ProxyInv, ProxyTypeOK
<1>2. QueueInv'
  BY <1>1 DEF ProxyInv, QueueInv, Register, Cancel
<1>3. OneshotInv'
  BY <1>1 DEF ProxyInv, OneshotInv
<1>4. EndedInv'
  BY DEF ProxyInv, EndedInv
<1>5. ConfirmedInv'
  BY <1>1 DEF ProxyInv, ConfirmedInv
<1>6. AnswerInv'
  BY <1>1 DEF ProxyInv, AnswerInv
<1>7. PendingHasReason'
  BY <1>1 DEF ProxyInv, PendingHasReason, InCall, Cancel
<1> QED
  BY <1>2, <1>3, <1>4, <1>5, <1>6, <1>7 DEF ProxyInv

LEMMA StartKeeps ==
  ASSUME ProxyInv, NEW c \in Calls, Start(c)
  PROVE  ProxyInv'
<1>1. call[c] = "idle" /\ outcome' = [outcome EXCEPT ![c] = outcome[c]]
  BY DEF Start, GoTo, ProxyInv, ProxyTypeOK
<1>2. registered[c] = "open" /\ c \notin pending /\ Register(c) \notin ToSet(commands)
  BY <1>1 DEF ProxyInv, OneshotInv, QueueInv
<1>3. ProxyTypeOK' /\ RuntimeInv'
  BY DEF ProxyInv, ProxyTypeOK, RuntimeInv, Start, GoTo, runtimeVars, taskVars, oneshotVars, busVars
<1> QED
  BY <1>1, <1>2, <1>3, CallMoves DEF Start, GoTo, taskVars, busVars

LEMMA BeginInitializeKeeps ==
  ASSUME ProxyInv, NEW c \in Calls, BeginInitialize(c)
  PROVE  ProxyInv'
<1>1. ProxyTypeOK' /\ RuntimeInv'
  BY DEF ProxyInv, ProxyTypeOK, RuntimeInv, BeginInitialize, taskVars, oneshotVars, busVars
<1>2. QueueInv' /\ OneshotInv' /\ EndedInv' /\ ConfirmedInv' /\ AnswerInv' /\ PendingHasReason'
  BY DEF ProxyInv, QueueInv, OneshotInv, EndedInv, ConfirmedInv, AnswerInv, PendingHasReason, InCall,
         BeginInitialize, taskVars, oneshotVars, busVars, Register, Cancel
<1> QED
  BY <1>1, <1>2 DEF ProxyInv

LEMMA InitializeKeeps ==
  ASSUME ProxyInv, NEW c \in Calls, Initialize(c)
  PROVE  ProxyInv'
<1>1. call[c] = "initializing" /\ task = "none" /\ outcome' = [outcome EXCEPT ![c] = outcome[c]]
  BY DEF Initialize, GoTo, ProxyInv, ProxyTypeOK, RuntimeInv
<1>2. registered[c] = "open" /\ c \notin pending /\ Register(c) \notin ToSet(commands) /\ pending = {}
  BY <1>1 DEF ProxyInv, OneshotInv, QueueInv, EndedInv
<1>3. ProxyTypeOK' /\ RuntimeInv'
  BY DEF ProxyInv, ProxyTypeOK, RuntimeInv, Initialize, GoTo, oneshotVars, busVars
<1> QED
  BY <1>1, <1>2, <1>3, CallMoves DEF Initialize, GoTo, busVars

LEMMA InitializeFailsKeeps ==
  ASSUME ProxyInv, NEW c \in Calls, InitializeFails(c)
  PROVE  ProxyInv'
<1>1. call[c] = "initializing"
  BY DEF InitializeFails, ProxyInv, RuntimeInv
<1>2. registered[c] = "open" /\ c \notin pending /\ Register(c) \notin ToSet(commands)
  BY <1>1 DEF ProxyInv, OneshotInv, QueueInv
<1>3. ProxyTypeOK' /\ RuntimeInv'
  BY <1>1 DEF ProxyInv, ProxyTypeOK, RuntimeInv, InitializeFails, Return, Errors, taskVars, oneshotVars,
              busVars
<1> QED
  BY <1>1, <1>2, <1>3, CallMoves DEF InitializeFails, Return, taskVars, busVars

LEMMA RuntimeReadyKeeps ==
  ASSUME ProxyInv, NEW c \in Calls, RuntimeReady(c)
  PROVE  ProxyInv'
<1>1. call[c] = "initializing" /\ outcome' = [outcome EXCEPT ![c] = outcome[c]]
  BY DEF RuntimeReady, GoTo, ProxyInv, ProxyTypeOK
<1>2. registered[c] = "open" /\ c \notin pending /\ Register(c) \notin ToSet(commands)
  BY <1>1 DEF ProxyInv, OneshotInv, QueueInv
<1>3. ProxyTypeOK' /\ RuntimeInv'
  BY DEF ProxyInv, ProxyTypeOK, RuntimeInv, RuntimeReady, GoTo, runtimeVars, taskVars, oneshotVars,
         busVars
<1> QED
  BY <1>1, <1>2, <1>3, CallMoves DEF RuntimeReady, GoTo, taskVars, busVars

LEMMA SendingEndsKeeps ==
  ASSUME ProxyInv, NEW c \in Calls, EncodeFails(c) \/ SendFails(c)
  PROVE  ProxyInv'
<1>1. PICK o \in Errors : Return(c, o)
  BY DEF EncodeFails, SendFails, Errors
<1>2. call[c] = "sending"
      /\ UNCHANGED <<runtimeVars, taskVars, oneshotVars, busVars, commands, uncancelled>>
  BY DEF EncodeFails, SendFails
<1>3. registered[c] = "open" /\ c \notin pending /\ Register(c) \notin ToSet(commands)
  BY <1>2 DEF ProxyInv, OneshotInv, QueueInv
<1>4. ProxyTypeOK' /\ RuntimeInv'
  BY <1>1, <1>2 DEF ProxyInv, ProxyTypeOK, RuntimeInv, Return, runtimeVars, taskVars, oneshotVars,
                    busVars
<1> QED
  BY <1>1, <1>2, <1>3, <1>4, CallMoves DEF Return, taskVars, busVars

LEMMA ConfirmedKeeps ==
  ASSUME ProxyInv, NEW c \in Calls, Confirmed(c)
  PROVE  ProxyInv'
<1>1. call[c] = "confirming" /\ registered[c] # "open"
      /\ UNCHANGED <<runtimeVars, taskVars, oneshotVars, busVars, commands, uncancelled>>
  BY DEF Confirmed
<1>2. Register(c) \notin ToSet(commands)
  BY <1>1 DEF ProxyInv, QueueInv
<1>3. ASSUME registered[c] = "confirmed", GoTo(c, "dispatching")
      PROVE  ProxyInv'
  <2>1. outcome' = [outcome EXCEPT ![c] = outcome[c]]
    BY <1>3 DEF GoTo, ProxyInv, ProxyTypeOK
  <2>2. ProxyTypeOK' /\ RuntimeInv'
    BY <1>1, <1>3 DEF ProxyInv, ProxyTypeOK, RuntimeInv, GoTo, runtimeVars, taskVars, oneshotVars,
                      busVars
  <2> QED
    BY <1>1, <1>2, <1>3, <2>1, <2>2, CallMoves DEF GoTo, taskVars, busVars
<1>4. ASSUME registered[c] = "dropped", Return(c, "stopped")
      PROVE  ProxyInv'
  <2>1. c \notin pending
    BY <1>4 DEF ProxyInv, OneshotInv
  <2>2. ProxyTypeOK' /\ RuntimeInv'
    BY <1>1, <1>4 DEF ProxyInv, ProxyTypeOK, RuntimeInv, Return, Errors, runtimeVars, taskVars,
                      oneshotVars, busVars
  <2> QED
    BY <1>1, <1>2, <1>4, <2>1, <2>2, CallMoves DEF Return, taskVars, busVars
<1> QED
  BY <1>3, <1>4 DEF Confirmed

LEMMA SendRegisterKeeps ==
  ASSUME ProxyInv, NEW c \in Calls, SendRegister(c)
  PROVE  ProxyInv'
<1>1. /\ call[c] = "sending" /\ call' = [call EXCEPT ![c] = "confirming"]
      /\ commands' = Append(commands, Register(c)) /\ Len(commands) < Capacity
      /\ UNCHANGED <<runtimeVars, taskVars, oneshotVars, busVars, uncancelled, outcome>>
  BY DEF SendRegister, AfterRegister, GoTo, HasRoom
<1>2. registered[c] = "open" /\ Register(c) \notin ToSet(commands)
  BY <1>1 DEF ProxyInv, OneshotInv, QueueInv
<1>3. commands \in Seq(Command) /\ Register(c) \in Command /\ IsInjective(commands)
  BY CommandKinds DEF ProxyInv, ProxyTypeOK, QueueInv
<1>4. /\ commands' \in Seq(Command) /\ Len(commands') = Len(commands) + 1 /\ Len(commands) \in Nat
      /\ IsInjective(commands')
      /\ ToSet(commands') = ToSet(commands) \union {Register(c)}
  BY <1>1, <1>2, <1>3, Appended, AppendedNew, LenProperties
<1>5. ProxyTypeOK' /\ RuntimeInv'
  BY <1>1, <1>4 DEF ProxyInv, ProxyTypeOK, RuntimeInv, runtimeVars, taskVars, oneshotVars, busVars
<1>6. QueueInv'
  BY <1>1, <1>2, <1>4, CommandKinds DEF ProxyInv, ProxyTypeOK, QueueInv, oneshotVars
<1>7. OneshotInv' /\ EndedInv' /\ ConfirmedInv' /\ AnswerInv'
  BY <1>1, <1>2 DEF ProxyInv, ProxyTypeOK, OneshotInv, EndedInv, ConfirmedInv, AnswerInv, taskVars,
                    oneshotVars, busVars
<1>8. PendingHasReason'
  <2>1. \A d \in pending' : \/ InCall(d)' \/ call'[d] = "abandoned" \/ d \in uncancelled'
                            \/ Cancel(d) \in ToSet(commands')
    BY <1>1, <1>2, <1>4, PendingReasons DEF ProxyInv, ProxyTypeOK, OneshotInv, InCall, taskVars, Cancel
  <2> QED
    BY <2>1 DEF PendingHasReason, ToSet
<1> QED
  BY <1>5, <1>6, <1>7, <1>8 DEF ProxyInv

LEMMA DispatchedKeeps ==
  ASSUME ProxyInv, NEW c \in Calls, Dispatched(c)
  PROVE  ProxyInv'
<1>1. call[c] = "dispatching" /\ outcome' = [outcome EXCEPT ![c] = outcome[c]]
  BY DEF Dispatched, GoTo, ProxyInv, ProxyTypeOK
<1>2. Register(c) \notin ToSet(commands) /\ registered[c] = "confirmed"
  BY <1>1 DEF ProxyInv, QueueInv, OneshotInv
<1>3. ProxyTypeOK' /\ RuntimeInv'
  BY DEF ProxyInv, ProxyTypeOK, RuntimeInv, Dispatched, Request, GoTo, runtimeVars, taskVars,
         oneshotVars
<1> QED
  BY <1>1, <1>2, <1>3, CallMoves DEF Dispatched, Request, GoTo, taskVars

\* A call that gives up says so in the channel, or leaves a trace when the
\* channel is full; a task that is gone has forgotten it already.
LEMMA GivesUp ==
  ASSUME ProxyInv, NEW c \in Calls, NEW o \in Errors,
         call[c] \in {"dispatching", "waiting"},
         TryCancel(c), Return(c, o), requests' \in SUBSET Calls,
         UNCHANGED <<runtimeVars, taskVars, oneshotVars, inbox, answered>>
  PROVE  ProxyInv'
<1>1. Register(c) \notin ToSet(commands) /\ Cancel(c) \notin ToSet(commands)
      /\ registered[c] # "open"
  BY DEF ProxyInv, QueueInv, OneshotInv
<1>2. commands \in Seq(Command) /\ Cancel(c) \in Command /\ IsInjective(commands)
      /\ Len(commands) \in Nat
  BY CommandKinds, LenProperties DEF ProxyInv, ProxyTypeOK, QueueInv
<1>3. /\ commands' \in Seq(Command) /\ Len(commands') <= Capacity
      /\ IsInjective(commands')
      /\ ToSet(commands) \subseteq ToSet(commands')
      /\ ToSet(commands') \subseteq ToSet(commands) \union {Cancel(c)}
  <2>1. CASE commands' = commands
    BY <1>2, <2>1 DEF ProxyInv, ProxyTypeOK
  <2>2. CASE Open /\ HasRoom /\ commands' = Append(commands, Cancel(c))
    BY <1>1, <1>2, <2>2, Appended, AppendedNew DEF HasRoom
  <2> QED
    BY <2>1, <2>2 DEF TryCancel
<1>4. \/ Cancel(c) \in ToSet(commands') \/ c \in uncancelled' \/ c \notin pending
  <2>1. CASE Open /\ HasRoom
    BY <1>2, <2>1, Appended DEF TryCancel
  <2>2. CASE Open /\ ~HasRoom
    BY <2>2 DEF TryCancel
  <2>3. CASE ~Open
    BY <2>3 DEF Open, ProxyInv, EndedInv
  <2> QED
    BY <2>1, <2>2, <2>3
<1>5. uncancelled \subseteq uncancelled' /\ uncancelled' \subseteq uncancelled \union {c}
  BY DEF TryCancel
<1>6. ProxyTypeOK' /\ RuntimeInv'
  BY <1>3, <1>5 DEF ProxyInv, ProxyTypeOK, RuntimeInv, Return, runtimeVars, taskVars, oneshotVars
<1>7. QueueInv'
  BY <1>1, <1>3, CommandKinds DEF ProxyInv, ProxyTypeOK, QueueInv, Return, oneshotVars
<1>8. OneshotInv' /\ EndedInv' /\ ConfirmedInv' /\ AnswerInv'
  BY <1>1 DEF ProxyInv, ProxyTypeOK, OneshotInv, EndedInv, ConfirmedInv, AnswerInv, Return, taskVars,
              oneshotVars
<1>9. PendingHasReason'
  <2>1. \A d \in pending' : \/ InCall(d)' \/ call'[d] = "abandoned" \/ d \in uncancelled'
                            \/ Cancel(d) \in ToSet(commands')
    BY <1>3, <1>4, <1>5, PendingReasons DEF ProxyInv, ProxyTypeOK, InCall, Return, taskVars
  <2> QED
    BY <2>1 DEF PendingHasReason, ToSet
<1> QED
  BY <1>6, <1>7, <1>8, <1>9 DEF ProxyInv

LEMMA DispatchFailsKeeps ==
  ASSUME ProxyInv, NEW c \in Calls, DispatchFails(c)
  PROVE  ProxyInv'
<1>1. requests' \in SUBSET Calls
  BY DEF DispatchFails, Request, ProxyInv, ProxyTypeOK
<1>2. "transport" \in Errors
  BY DEF Errors
<1> QED
  BY <1>1, <1>2, GivesUp DEF DispatchFails, Request

LEMMA TimesOutKeeps ==
  ASSUME ProxyInv, NEW c \in Calls, TimesOut(c)
  PROVE  ProxyInv'
<1>1. requests' \in SUBSET Calls
  BY DEF TimesOut, ProxyInv, ProxyTypeOK, busVars
<1>2. "timeout" \in Errors
  BY DEF Errors
<1> QED
  BY <1>1, <1>2, GivesUp DEF TimesOut, busVars

LEMMA ReplyReceivedKeeps ==
  ASSUME ProxyInv, NEW c \in Calls, ReplyReceived(c)
  PROVE  ProxyInv'
<1>1. /\ call[c] = "waiting" /\ reply[c] # "open"
      /\ UNCHANGED <<runtimeVars, taskVars, oneshotVars, busVars, commands, uncancelled>>
  BY DEF ReplyReceived
<1>2. PICK o \in Answers \union Errors : Return(c, o)
  BY <1>1 DEF ReplyReceived, Errors, ProxyInv, ProxyTypeOK
<1>3. c \notin pending /\ Register(c) \notin ToSet(commands)
  BY <1>1 DEF ProxyInv, QueueInv, OneshotInv
<1>4. ProxyTypeOK' /\ RuntimeInv'
  BY <1>1, <1>2 DEF ProxyInv, ProxyTypeOK, RuntimeInv, Return, runtimeVars, taskVars, oneshotVars,
                    busVars
<1> QED
  BY <1>1, <1>2, <1>3, <1>4, CallMoves DEF Return, taskVars, busVars

LEMMA AbandonKeeps ==
  ASSUME ProxyInv, NEW c \in Calls, Abandon(c)
  PROVE  ProxyInv'
<1>1. /\ call[c] \notin {"idle", "returned", "abandoned"}
      /\ outcome' = [outcome EXCEPT ![c] = outcome[c]]
  BY DEF Abandon, InCall, GoTo, ProxyInv, ProxyTypeOK
<1>2. ProxyTypeOK' /\ RuntimeInv'
  BY DEF ProxyInv, ProxyTypeOK, RuntimeInv, Abandon, GoTo, taskVars, oneshotVars, busVars
<1> QED
  BY <1>1, <1>2, CallMoves DEF Abandon, GoTo, taskVars, busVars

-----------------------------------------------------------------------------
(* The reply task and the service *)

LEMMA ServeCommandKeeps ==
  ASSUME ProxyInv, ServeCommand
  PROVE  ProxyInv'
<1>1. /\ commands \in Seq(Command) /\ commands # <<>> /\ IsInjective(commands)
      /\ Len(commands) \in Nat /\ Len(commands) <= Capacity
  BY LenProperties DEF ServeCommand, ProxyInv, ProxyTypeOK, QueueInv
<1>2. /\ Head(commands) \in Command /\ Head(commands) \in ToSet(commands)
      /\ commands' \in Seq(Command) /\ Len(commands') <= Capacity
      /\ IsInjective(commands')
      /\ ToSet(commands') = ToSet(commands) \ {Head(commands)}
  BY <1>1, Taken, TakenOnce DEF ServeCommand
<1>3. /\ UNCHANGED <<runtimeVars, task, reply, busVars, call, outcome, uncancelled>>
      /\ task = "running"
  BY DEF ServeCommand, Open
<1>4. ASSUME NEW c \in Calls, Head(commands) = Register(c),
             pending' = pending \union {c},
             registered' = [registered EXCEPT ![c] = "confirmed"]
      PROVE  ProxyInv'
  <2>1. registered[c] = "open" /\ call[c] \in {"confirming", "abandoned"} /\ reply[c] = "open"
    BY <1>2, <1>4 DEF ProxyInv, QueueInv, OneshotInv
  <2>2. ProxyTypeOK' /\ RuntimeInv'
    BY <1>2, <1>3, <1>4 DEF ProxyInv, ProxyTypeOK, RuntimeInv, runtimeVars, busVars
  <2>3. QueueInv'
    BY <1>2, <1>3, <1>4, CommandKinds DEF ProxyInv, ProxyTypeOK, QueueInv
  <2>4. OneshotInv' /\ EndedInv' /\ ConfirmedInv' /\ AnswerInv'
    BY <1>3, <1>4, <2>1 DEF ProxyInv, ProxyTypeOK, OneshotInv, EndedInv, ConfirmedInv, AnswerInv,
                            busVars
  <2>5. \A d \in pending' : \/ InCall(d)' \/ call'[d] = "abandoned" \/ d \in uncancelled'
                            \/ Cancel(d) \in ToSet(commands')
    BY <1>2, <1>3, <1>4, <2>1, CommandKinds, PendingReasons DEF ProxyInv, ProxyTypeOK, InCall
  <2> QED
    BY <2>2, <2>3, <2>4, <2>5 DEF ProxyInv, PendingHasReason, ToSet
<1>5. ASSUME NEW c \in Calls, Head(commands) = Cancel(c),
             pending' = pending \ {c}, registered' = registered
      PROVE  ProxyInv'
  <2>1. call[c] = "returned"
    BY <1>2, <1>5 DEF ProxyInv, QueueInv
  <2>2. ProxyTypeOK' /\ RuntimeInv'
    BY <1>2, <1>3, <1>5 DEF ProxyInv, ProxyTypeOK, RuntimeInv, runtimeVars, busVars
  <2>3. QueueInv'
    BY <1>2, <1>3, <1>5 DEF ProxyInv, QueueInv
  <2>4. OneshotInv' /\ EndedInv' /\ ConfirmedInv' /\ AnswerInv'
    BY <1>3, <1>5, <2>1 DEF ProxyInv, ProxyTypeOK, OneshotInv, EndedInv, ConfirmedInv, AnswerInv,
                            busVars
  <2>5. \A d \in pending' : \/ InCall(d)' \/ call'[d] = "abandoned" \/ d \in uncancelled'
                            \/ Cancel(d) \in ToSet(commands')
    BY <1>2, <1>3, <1>5, CommandKinds, PendingReasons DEF ProxyInv, ProxyTypeOK, InCall
  <2> QED
    BY <2>2, <2>3, <2>4, <2>5 DEF ProxyInv, PendingHasReason, ToSet
<1> QED
  BY <1>2, <1>4, <1>5, CommandKinds DEF ServeCommand, Command

LEMMA TakeReplyKeeps ==
  ASSUME ProxyInv, TakeReply
  PROVE  ProxyInv'
<1>1. inbox \in Seq(Reply) /\ inbox # <<>> /\ inbox' = Tail(inbox)
  BY DEF TakeReply, ProxyInv, ProxyTypeOK
<1>2. /\ Head(inbox) \in Reply /\ Head(inbox) \in ToSet(inbox)
      /\ inbox' \in Seq(Reply) /\ ToSet(inbox') \subseteq ToSet(inbox)
  BY <1>1, Taken
<1>3. /\ UNCHANGED <<runtimeVars, task, registered, requests, answered, call, outcome, commands,
                    uncancelled>>
      /\ task = "running"
  BY DEF TakeReply, Open
<1>4. ASSUME NEW c \in pending, Head(inbox).correlation = c,
             pending' = pending \ {c},
             reply' = [reply EXCEPT ![c] = Head(inbox).answer]
      PROVE  ProxyInv'
  <2>1. c \in Calls /\ registered[c] = "confirmed"
    BY DEF ProxyInv, ProxyTypeOK, OneshotInv
  <2>2. /\ Head(inbox).answer \in Answers
        /\ Head(inbox).answer \in ToSet(answered[c])
    <3>1. Head(inbox).answer \in Answers
      BY <1>2 DEF Reply
    <3>2. Head(inbox).answer \in ToSet(answered[Head(inbox).correlation])
      BY <1>2 DEF ProxyInv, AnswerInv
    <3> QED
      BY <1>4, <3>1, <3>2
  <2>3. ProxyTypeOK' /\ RuntimeInv'
    BY <1>2, <1>3, <1>4, <2>2 DEF ProxyInv, ProxyTypeOK, RuntimeInv, runtimeVars
  <2>4. QueueInv' /\ EndedInv'
    BY <1>3 DEF ProxyInv, QueueInv, EndedInv
  <2>5. OneshotInv' /\ ConfirmedInv'
    BY <1>3, <1>4, <2>1, <2>2 DEF ProxyInv, ProxyTypeOK, OneshotInv, ConfirmedInv, Answers
  <2>6. AnswerInv'
    BY <1>2, <1>3, <1>4, <2>1, <2>2 DEF ProxyInv, ProxyTypeOK, AnswerInv
  <2>7. PendingHasReason'
    BY <1>3, <1>4 DEF ProxyInv, PendingHasReason, InCall, Cancel
  <2> QED
    BY <2>3, <2>4, <2>5, <2>6, <2>7 DEF ProxyInv
<1>5. ASSUME UNCHANGED <<pending, reply>>
      PROVE  ProxyInv'
  <2>1. ProxyTypeOK' /\ RuntimeInv'
    BY <1>2, <1>3, <1>5 DEF ProxyInv, ProxyTypeOK, RuntimeInv, runtimeVars
  <2>2. QueueInv' /\ EndedInv' /\ OneshotInv' /\ ConfirmedInv'
    BY <1>3, <1>5 DEF ProxyInv, QueueInv, EndedInv, OneshotInv, ConfirmedInv
  <2>3. AnswerInv'
    BY <1>2, <1>3, <1>5 DEF ProxyInv, AnswerInv
  <2>4. PendingHasReason'
    BY <1>3, <1>5 DEF ProxyInv, PendingHasReason, InCall, Cancel
  <2> QED
    BY <2>1, <2>2, <2>3, <2>4 DEF ProxyInv
<1> QED
  BY <1>4, <1>5 DEF TakeReply, Matches

LEMMA EndsKeeps ==
  ASSUME ProxyInv, NEW how \in {"ended", "aborted"}, Ends(how)
  PROVE  ProxyInv'
<1>1. /\ commands' \in Seq(Command) /\ Len(commands') = 0 /\ ToSet(commands') = {}
      /\ IsInjective(commands')
      /\ inbox' \in Seq(Reply) /\ ToSet(inbox') = {}
  BY EmptyQueue DEF Ends
<1>2. \A c \in Calls : Unregistered(c) <=> Register(c) \in ToSet(commands)
  BY DEF Unregistered, ToSet
<1>3. \A c \in Calls : Unregistered(c) => registered[c] = "open"
                                         /\ call[c] \in {"confirming", "abandoned"}
  BY <1>2 DEF ProxyInv, QueueInv
<1>4. ProxyTypeOK' /\ RuntimeInv'
  BY <1>1 DEF ProxyInv, ProxyTypeOK, RuntimeInv, Ends, Open, runtimeVars
<1>5. QueueInv' /\ EndedInv' /\ PendingHasReason'
  BY <1>1 DEF QueueInv, EndedInv, PendingHasReason, Ends
<1>6. OneshotInv' /\ ConfirmedInv'
  BY <1>3 DEF ProxyInv, ProxyTypeOK, OneshotInv, ConfirmedInv, Ends
<1>7. AnswerInv'
  BY <1>1 DEF ProxyInv, ProxyTypeOK, AnswerInv, Answers, Ends
<1> QED
  BY <1>4, <1>5, <1>6, <1>7 DEF ProxyInv

LEMMA ServiceAnswersKeeps ==
  ASSUME ProxyInv, NEW c \in Calls \union {NoCall}, NEW a \in Answers, ServiceAnswers(c, a)
  PROVE  ProxyInv'
<1>1. Message(c, a) \in Reply /\ Message(c, a).correlation = c /\ Message(c, a).answer = a
  BY DEF Reply, Message
<1>2. /\ answered[c] \in Seq(Answers) /\ inbox \in Seq(Reply)
      /\ answered' = [answered EXCEPT ![c] = Append(@, a)]
      /\ UNCHANGED <<runtimeVars, taskVars, oneshotVars, requests, call, outcome, commands,
                    uncancelled>>
  BY DEF ServiceAnswers, ProxyInv, ProxyTypeOK
<1>3. /\ answered' \in [Calls \union {NoCall} -> Seq(Answers)]
      /\ ToSet(answered'[c]) = ToSet(answered[c]) \union {a}
      /\ \A d \in Calls \union {NoCall} : d # c => answered'[d] = answered[d]
  BY <1>2, Appended DEF ProxyInv, ProxyTypeOK
<1>4. inbox' \in Seq(Reply) /\ ToSet(inbox') \subseteq ToSet(inbox) \union {Message(c, a)}
  <2>1. inbox' = inbox \/ inbox' = Append(inbox, Message(c, a))
    BY DEF ServiceAnswers
  <2>2. /\ Append(inbox, Message(c, a)) \in Seq(Reply)
        /\ ToSet(Append(inbox, Message(c, a))) = ToSet(inbox) \union {Message(c, a)}
    <3> HIDE DEF Reply
    <3> QED
      BY <1>1, <1>2, Appended
  <2> QED
    BY <1>2, <2>1, <2>2
<1>5. \A m \in ToSet(inbox) : m \in Reply
  BY <1>2 DEF ToSet
<1>6. ProxyTypeOK' /\ RuntimeInv'
  BY <1>2, <1>3, <1>4 DEF ProxyInv, ProxyTypeOK, RuntimeInv, runtimeVars, taskVars, oneshotVars
<1>7. QueueInv' /\ EndedInv' /\ OneshotInv' /\ ConfirmedInv'
  BY <1>2 DEF ProxyInv, QueueInv, EndedInv, OneshotInv, ConfirmedInv, taskVars, oneshotVars
<1>8. PendingHasReason'
  BY <1>2 DEF ProxyInv, PendingHasReason, InCall, Cancel, taskVars
<1>9. AnswerInv'
  <2>1. \A m \in ToSet(inbox') : m.answer \in ToSet(answered'[m.correlation])
    <3>1. ASSUME NEW m \in ToSet(inbox)
          PROVE  m.answer \in ToSet(answered'[m.correlation])
      <4>1. m.correlation \in Calls \union {NoCall} /\ m.answer \in ToSet(answered[m.correlation])
        BY <1>5 DEF ProxyInv, AnswerInv, Reply
      <4> QED
        BY <1>3, <4>1
    <3> QED
      BY <1>1, <1>3, <1>4, <3>1
  <2>2. \A d \in Calls : reply'[d] \in Answers => reply'[d] \in ToSet(answered'[d])
    BY <1>2, <1>3 DEF ProxyInv, AnswerInv, oneshotVars
  <2>3. \A d \in Calls : call'[d] # "returned" => outcome'[d] = "none"
    BY <1>2 DEF ProxyInv, AnswerInv
  <2> QED
    BY <2>1, <2>2, <2>3 DEF AnswerInv
<1> QED
  BY <1>6, <1>7, <1>8, <1>9 DEF ProxyInv

LEMMA ProxyInvStep == ProxyInv /\ [Next]_vars => ProxyInv'
<1> SUFFICES ASSUME ProxyInv, [Next]_vars PROVE ProxyInv'
  OBVIOUS
<1>1. ASSUME NEW c \in Calls, Start(c) \/ CallNext(c) \/ Abandon(c)
      PROVE  ProxyInv'
  BY <1>1, StartKeeps, BeginInitializeKeeps, InitializeKeeps, InitializeFailsKeeps, RuntimeReadyKeeps,
     SendingEndsKeeps, SendRegisterKeeps, ConfirmedKeeps, DispatchedKeeps, DispatchFailsKeeps,
     ReplyReceivedKeeps, TimesOutKeeps, AbandonKeeps DEF CallNext
<1>2. ASSUME TaskNext \/ SubscriptionEnds \/ Drop
      PROVE  ProxyInv'
  BY <1>2, ServeCommandKeeps, TakeReplyKeeps, EndsKeeps DEF TaskNext, SubscriptionEnds, Drop
<1>3. CASE UNCHANGED vars
  BY <1>3 DEF vars, runtimeVars, taskVars, oneshotVars, busVars, ProxyInv, ProxyTypeOK, RuntimeInv,
              QueueInv, OneshotInv, EndedInv, ConfirmedInv, AnswerInv, PendingHasReason, InCall, Cancel
<1> QED
  BY <1>1, <1>2, <1>3, ServiceAnswersKeeps DEF Next

\* The invariant of the proxy holds of every run.
THEOREM ProxyInvariance == Spec => []ProxyInv
<1> QED
  BY ProxyInvInit, ProxyInvStep, PTL DEF Spec

\* While a call waits for its reply the task knows it, however registration,
\* replies, cancellations and the end of the subscription interleave
\* (router/broker.rs, call_with_headers and the reply task).
THEOREM RepliesAreNotMissed == Spec => []NoReplyMissed
<1>1. ProxyInv => NoReplyMissed
  BY DEF ProxyInv, OneshotInv, ConfirmedInv, NoReplyMissed
<1> QED
  BY <1>1, ProxyInvariance, PTL

\* The map of pending calls grows only by calls whose future was dropped, or
\* that gave up when the command channel was full.
THEOREM PendingIsExplained == Spec => []PendingHasReason
<1>1. ProxyInv => PendingHasReason
  BY DEF ProxyInv
<1> QED
  BY <1>1, ProxyInvariance, PTL

-----------------------------------------------------------------------------
(* The proxy implements RequestReply *)

\* What the service answered to each call, as RequestReply sees it.
Given == [c \in Calls |-> {answered[c][i] : i \in DOMAIN answered[c]}]

LEMMA GivenAnswers == ASSUME NEW c \in Calls PROVE Given[c] = ToSet(answered[c])
BY DEF Given, ToSet

LEMMA PromiseInit == Init => Promise!Init
BY EmptyQueue DEF Init, Promise!Init

\* Whatever leaves answers and outcomes alone is a stutter.
LEMMA PromiseStutters ==
  ASSUME UNCHANGED <<answered, outcome>>
  PROVE  UNCHANGED Promise!vars
BY DEF Promise!vars

\* A return is one of RequestReply's: with an error, or with an answer given.
LEMMA PromiseReturns ==
  ASSUME ProxyInv, NEW c \in Calls, NEW o \in Errors \union ToSet(answered[c]),
         call[c] # "returned", Return(c, o), UNCHANGED answered
  PROVE  Promise!Return(c)
<1>1. outcome[c] = "none"
  BY DEF ProxyInv, AnswerInv
<1>2. o \in Given[c] \union Errors
  BY GivenAnswers
<1> QED
  BY <1>1, <1>2 DEF Return, Given, Promise!Return

LEMMA PromiseAnswers ==
  ASSUME ProxyInv, NEW c \in Calls, NEW a \in Answers, ServiceAnswers(c, a)
  PROVE  Promise!Answer(c, a)
<1>1. answered \in [Calls \union {NoCall} -> Seq(Answers)]
      /\ answered' = [answered EXCEPT ![c] = Append(@, a)] /\ outcome' = outcome
  BY DEF ProxyInv, ProxyTypeOK, ServiceAnswers
<1>2. ToSet(answered'[c]) = ToSet(answered[c]) \union {a}
      /\ \A d \in Calls : d # c => answered'[d] = answered[d]
  BY <1>1, Appended
<1>3. Given' = [Given EXCEPT ![c] = @ \union {a}]
  <2>1. ASSUME NEW d \in Calls
        PROVE  Given'[d] = IF d = c THEN Given[d] \union {a} ELSE Given[d]
    <3>1. Given[d] = ToSet(answered[d]) /\ Given'[d] = ToSet(answered'[d])
      BY DEF Given, ToSet
    <3> QED
      BY <1>2, <3>1
  <2> QED
    BY <2>1 DEF Given
<1> QED
  BY <1>1, <1>3 DEF Given, Promise!Answer

LEMMA PromiseStep == ProxyInv /\ [Next]_vars => [Promise!Next]_(Promise!vars)
<1> SUFFICES ASSUME ProxyInv, [Next]_vars
             PROVE  Promise!Next \/ UNCHANGED Promise!vars
  OBVIOUS
<1>1. ASSUME NEW c \in Calls, Start(c) \/ CallNext(c) \/ Abandon(c)
      PROVE  Promise!Return(c) \/ UNCHANGED <<answered, outcome>>
  <2>1. UNCHANGED answered
    BY <1>1 DEF Start, Abandon, CallNext, BeginInitialize, Initialize, InitializeFails, RuntimeReady,
                EncodeFails, SendRegister, SendFails, Confirmed, Dispatched, DispatchFails,
                ReplyReceived, TimesOut, Request, busVars
  <2>2. ASSUME NEW o \in Errors, call[c] # "returned", Return(c, o)
        PROVE  Promise!Return(c)
    BY <2>1, <2>2, PromiseReturns
  <2>3. CASE InitializeFails(c) \/ EncodeFails(c) \/ SendFails(c) \/ DispatchFails(c) \/ TimesOut(c)
    BY <2>2, <2>3 DEF InitializeFails, EncodeFails, SendFails, DispatchFails, TimesOut, Errors,
                      ProxyInv, RuntimeInv
  <2>4. CASE Confirmed(c)
    BY <2>1, <2>2, <2>4 DEF Confirmed, GoTo, Errors
  <2>5. CASE ReplyReceived(c)
    <3>1. call[c] = "waiting" /\ reply[c] \in {"dropped"} \union Answers
      BY <2>5 DEF ReplyReceived, ProxyInv, ProxyTypeOK
    <3>2. CASE Return(c, "stopped") \/ Return(c, "transport")
      BY <2>2, <3>1, <3>2 DEF Errors
    <3>3. CASE reply[c] # "dropped" /\ Return(c, reply[c])
      <4>1. reply[c] \in ToSet(answered[c])
        BY <3>1, <3>3 DEF ProxyInv, AnswerInv
      <4> QED
        BY <2>1, <3>1, <3>3, <4>1, PromiseReturns
    <3> QED
      BY <2>5, <3>2, <3>3 DEF ReplyReceived
  <2>6. CASE Start(c) \/ BeginInitialize(c) \/ Initialize(c) \/ RuntimeReady(c) \/ SendRegister(c)
             \/ Dispatched(c) \/ Abandon(c)
    BY <2>1, <2>6 DEF Start, BeginInitialize, Initialize, RuntimeReady, SendRegister, AfterRegister,
                      Dispatched, Abandon, GoTo
  <2> QED
    BY <1>1, <2>3, <2>4, <2>5, <2>6 DEF CallNext
<1>2. ASSUME TaskNext \/ SubscriptionEnds \/ Drop
      PROVE  UNCHANGED <<answered, outcome>>
  BY <1>2 DEF TaskNext, ServeCommand, TakeReply, SubscriptionEnds, Drop, Ends, busVars
<1>3. ASSUME NEW a \in Answers, ServiceAnswers(NoCall, a)
      PROVE  UNCHANGED Promise!vars
  <2>1. \A d \in Calls : answered'[d] = answered[d]
    BY <1>3 DEF ServiceAnswers, ProxyInv, ProxyTypeOK
  <2>2. outcome' = outcome
    BY <1>3 DEF ServiceAnswers
  <2> QED
    BY <2>1, <2>2 DEF Promise!vars
<1>4. ASSUME NEW c \in Calls, NEW a \in Answers, ServiceAnswers(c, a)
      PROVE  Promise!Next
  BY <1>4, PromiseAnswers DEF Promise!Next
<1>5. CASE UNCHANGED vars
  BY <1>5, PromiseStutters DEF vars, busVars
<1> QED
  BY <1>1, <1>2, <1>3, <1>4, <1>5, PromiseStutters DEF Next, Promise!Next

\* Every run of the proxy is one of RequestReply: a call returns once, with an
\* answer the service gave to that very call or with an error of the proxy.
THEOREM RequestReplyImplemented == Spec => ImplementsRequestReply
<1> QED
  BY PromiseInit, PromiseStep, ProxyInvariance, PTL DEF Spec, Promise!Spec, ImplementsRequestReply
=============================================================================
