---------------------------- MODULE Partitioner ----------------------------
(***************************************************************************)
(* The keyed execution domain of src/src/router/core.rs: submitters        *)
(* (routes, or any caller of submit_task) ask a registry task for the      *)
(* sender of a key's worker, put a job into that worker's bounded channel  *)
(* and wait for its completion.  A worker that stays idle retires: the     *)
(* registry drops its sender, parks new acquisitions, and hands them to a  *)
(* new generation once the old one has seen its last sender go away.       *)
(*                                                                         *)
(* Every tokio task is a process; one action is what a task does between   *)
(* two awaits.  A sender clone is visible as the state that holds it: an   *)
(* Active entry, or a submitter in "sending" (clones still inside an       *)
(* unread oneshot included, since they keep the channel open just as well).*)
(* Generations are numbered by the registry's next_generation counter.     *)
(***************************************************************************)
EXTENDS Integers, Sequences, FiniteSets

CONSTANTS Keys,           \* partition keys
          Submitters,     \* routes sharing the Partitioner
          MayCancel,      \* submitters whose submit_task future may be dropped
          Capacity,       \* bound of a worker's channel
          MaxJobs,        \* bound: submissions per submitter
          MaxGeneration,  \* bound: workers ever spawned
          NoJob           \* "the worker runs nothing", "never submitted"

\* with_options asserts a nonzero capacity; the other bounds are the model's.
ASSUME CapacityAssumption == Capacity \in Nat \ {0}
ASSUME BoundsAssumption == MaxJobs \in Nat /\ MaxGeneration \in Nat
ASSUME CancelAssumption == MayCancel \subseteq Submitters

Job == [by : Submitters, n : 1..MaxJobs, key : Keys]
ASSUME NoJobAssumption == NoJob \notin Job

Generations == 1..MaxGeneration

VARIABLES
  commands,        \* the registry's unbounded mailbox, FIFO
  registry,        \* "running" or "stopped"
  entries,         \* entries[k]: what the registry knows of key k
  nextGeneration,  \* the registry's next_generation
  submitter,       \* submitter[r]: where r is in submit_task; "closed" once
                   \* it dropped its Partitioner handle
  job,             \* job[r]: the last job r submitted
  sender,          \* sender[r]: generation whose sender r holds, 0 for none
  worker,          \* worker[g]: where the worker of generation g is
  workerKey,       \* workerKey[g]: the key it was spawned for
  channel,         \* channel[g]: its bounded job queue
  running,         \* running[g]: the job it executes, or NoJob
  completed        \* jobs whose completion oneshot was sent

registryVars  == <<commands, registry, entries, nextGeneration>>
submitterVars == <<submitter, job, sender>>
workerVars    == <<worker, workerKey, channel, running, completed>>
vars == <<registryVars, submitterVars, workerVars>>

-----------------------------------------------------------------------------
(* Registry entries and commands *)

NoEntry == [state |-> "none", generation |-> 0, waiters |-> {}]
ActiveEntry(g) == [state |-> "active", generation |-> g, waiters |-> {}]
\* Mutant of RetiringEntry: entries.remove without putting the key back.
ForgottenEntry(g, ws) == NoEntry
RetiringEntry(g, ws) == [state |-> "retiring", generation |-> g, waiters |-> ws]

Acquire(j) == [type |-> "Acquire", job |-> j]
BeginRetirement(k, g) == [type |-> "BeginRetirement", key |-> k, generation |-> g]
Retired(k, g) == [type |-> "Retired", key |-> k, generation |-> g]

Entry == [state : {"none", "active", "retiring"},
          generation : 0..MaxGeneration,
          waiters : SUBSET Job]
Command == [type : {"Acquire"}, job : Job]
             \union [type : {"BeginRetirement", "Retired"},
                     key : Keys, generation : Generations]

WorkerStates == {"unborn", "serving", "expired", "asking", "granted",
                 "refused", "draining", "orphaned", "exited"}

TypeOK == /\ commands \in Seq(Command)
          /\ registry \in {"running", "stopped"}
          /\ entries \in [Keys -> Entry]
          /\ nextGeneration \in 1..(MaxGeneration + 1)
          /\ submitter \in [Submitters -> {"idle", "acquiring", "sending", "closed"}]
          /\ job \in [Submitters -> Job \union {NoJob}]
          /\ sender \in [Submitters -> 0..MaxGeneration]
          /\ worker \in [Generations -> WorkerStates]
          /\ workerKey \in [Generations -> Keys]
          /\ channel \in [Generations -> Seq(Job)]
          /\ \A g \in Generations : Len(channel[g]) <= Capacity
          /\ running \in [Generations -> Job \union {NoJob}]
          /\ completed \subseteq Job

Init == /\ commands = <<>>
        /\ registry = "running"
        /\ entries = [k \in Keys |-> NoEntry]
        /\ nextGeneration = 1
        /\ submitter = [r \in Submitters |-> "idle"]
        /\ job = [r \in Submitters |-> NoJob]
        /\ sender = [r \in Submitters |-> 0]
        /\ worker = [g \in Generations |-> "unborn"]
        /\ workerKey \in {[g \in Generations |-> k] : k \in Keys}
        /\ channel = [g \in Generations |-> <<>>]
        /\ running = [g \in Generations |-> NoJob]
        /\ completed = {}

-----------------------------------------------------------------------------
(* What keeps a channel open *)

\* A strong registry sender: a Partitioner handle, or the one a retiring
\* worker upgraded and keeps until it has sent Retired.
\* Mutant of RegistryHeld: the registry task keeps a strong sender of its own.
HeldByItself == TRUE
RegistryHeld == \/ \E r \in Submitters : submitter[r] # "closed"
                \/ \E g \in Generations : worker[g] \in {"asking", "granted", "draining"}

\* Mutant of HasSender: a worker stops receiving when the entry lets go of it.
HasSenderInEntry(g) == \E k \in Keys : entries[k] = ActiveEntry(g)
\* Mutant of HasSender: a Retiring entry still owns its sender.
HasSenderKept(g) == \/ \E k \in Keys : entries[k].generation = g
                    \/ \E r \in Submitters : sender[r] = g

\* Some sender of generation g's channel is alive.
HasSender(g) == \/ \E k \in Keys : entries[k] = ActiveEntry(g)
                \/ \E r \in Submitters : sender[r] = g

\* The reply oneshot of the acquisition for job j still has a receiver.
Waiting(j) == submitter[j.by] = "acquiring" /\ job[j.by] = j

\* The submitters answered when the acquisitions of js are replied to.
Answered(js) == {r \in Submitters : job[r] \in js /\ Waiting(job[r])}

HandOut(js, g) ==
  /\ submitter' = [r \in Submitters |-> IF r \in Answered(js) THEN "sending" ELSE submitter[r]]
  /\ sender' = [r \in Submitters |-> IF r \in Answered(js) THEN g ELSE sender[r]]
  /\ UNCHANGED job

-----------------------------------------------------------------------------
(* Submitters: submit_task *)

\* A job is numbered after the submitter's previous one.
Submit(r, k) ==
  /\ submitter[r] = "idle"
  /\ LET n == IF job[r] = NoJob THEN 1 ELSE job[r].n + 1
         j == [by |-> r, n |-> n, key |-> k]
     IN /\ n <= MaxJobs
        /\ job' = [job EXCEPT ![r] = j]
        /\ commands' = Append(commands, Acquire(j))
  /\ submitter' = [submitter EXCEPT ![r] = "acquiring"]
  /\ UNCHANGED <<registry, entries, nextGeneration, sender, workerVars>>

\* Mutant of HasRoom: the bound is reached before it is looked at.
HasRoomForOneMore(g) == Len(channel[g]) <= Capacity
HasRoom(g) == Len(channel[g]) < Capacity

\* sender.send(job).await: it waits for room; a channel whose worker is gone
\* returns the job and the loop acquires again.
Send(r) ==
  /\ submitter[r] = "sending"
  /\ LET g == sender[r]
     IN IF worker[g] = "exited"
        THEN /\ commands' = Append(commands, Acquire(job[r]))
             /\ submitter' = [submitter EXCEPT ![r] = "acquiring"]
             /\ UNCHANGED channel
        ELSE /\ HasRoom(g)
             /\ channel' = [channel EXCEPT ![g] = Append(@, job[r])]
             /\ submitter' = [submitter EXCEPT ![r] = "idle"]
             /\ UNCHANGED commands
  /\ sender' = [sender EXCEPT ![r] = 0]
  /\ UNCHANGED <<registry, entries, nextGeneration, job,
                 worker, workerKey, running, completed>>

\* The submit_task future is dropped at one of its awaits.
Cancel(r) ==
  /\ r \in MayCancel
  /\ submitter[r] \in {"acquiring", "sending"}
  /\ submitter' = [submitter EXCEPT ![r] = "idle"]
  /\ sender' = [sender EXCEPT ![r] = 0]
  /\ UNCHANGED <<registryVars, job, workerVars>>

\* The route ends (or the owner goes away) and drops its Partitioner clone.
DropHandle(r) ==
  /\ submitter[r] = "idle"
  /\ submitter' = [submitter EXCEPT ![r] = "closed"]
  /\ UNCHANGED <<registryVars, job, sender, workerVars>>

-----------------------------------------------------------------------------
(* The registry task: partition_registry *)

Received(c) == registry = "running" /\ commands # <<>> /\ Head(commands) = c

\* spawn_partition_worker: generation nextGeneration now serves key k.
SpawnWorker(k) ==
  /\ nextGeneration <= MaxGeneration
  /\ nextGeneration' = nextGeneration + 1
  /\ worker' = [worker EXCEPT ![nextGeneration] = "serving"]
  /\ workerKey' = [workerKey EXCEPT ![nextGeneration] = k]
  /\ UNCHANGED <<channel, running, completed>>

AcquireActive(j) ==
  /\ Received(Acquire(j))
  /\ entries[j.key].state = "active"
  /\ commands' = Tail(commands)
  /\ HandOut({j}, entries[j.key].generation)
  /\ UNCHANGED <<registry, entries, nextGeneration, workerVars>>

\* Mutant of Park: one slot instead of a list of waiting replies.
ParkLast(waiters, j) == {j}
Park(waiters, j) == waiters \union {j}

AcquireRetiring(j) ==
  /\ Received(Acquire(j))
  /\ entries[j.key].state = "retiring"
  /\ commands' = Tail(commands)
  /\ entries' = [entries EXCEPT ![j.key] = RetiringEntry(@.generation, Park(@.waiters, j))]
  /\ UNCHANGED <<registry, nextGeneration, submitterVars, workerVars>>

\* Mutant of AcquireNew: the entry records the counter after its increment.
AcquireNewLate(j) ==
  /\ Received(Acquire(j))
  /\ entries[j.key].state = "none"
  /\ commands' = Tail(commands)
  /\ SpawnWorker(j.key)
  /\ entries' = [entries EXCEPT ![j.key] = ActiveEntry(nextGeneration + 1)]
  /\ HandOut({j}, nextGeneration)
  /\ UNCHANGED registry

AcquireNew(j) ==
  /\ Received(Acquire(j))
  /\ entries[j.key].state = "none"
  /\ commands' = Tail(commands)
  /\ SpawnWorker(j.key)
  /\ entries' = [entries EXCEPT ![j.key] = ActiveEntry(nextGeneration)]
  /\ HandOut({j}, nextGeneration)
  /\ UNCHANGED registry

ServeBeginRetirement(k, g) ==
  /\ Received(BeginRetirement(k, g))
  /\ commands' = Tail(commands)
  /\ IF entries[k] = ActiveEntry(g)
     THEN /\ entries' = [entries EXCEPT ![k] = RetiringEntry(g, {})]
          /\ worker' = [worker EXCEPT ![g] = "granted"]
     ELSE /\ worker' = [worker EXCEPT ![g] = "refused"]
          /\ UNCHANGED entries
  /\ UNCHANGED <<registry, nextGeneration, submitterVars,
                 workerKey, channel, running, completed>>

\* Closed waiters are dropped; the others get the sender of a new worker.
ServeRetired(k, g) ==
  /\ Received(Retired(k, g))
  /\ commands' = Tail(commands)
  /\ LET waiters == {j \in entries[k].waiters : Waiting(j)}
     IN IF /\ entries[k].state = "retiring"
           /\ entries[k].generation = g
        THEN IF waiters = {}
             THEN /\ entries' = [entries EXCEPT ![k] = NoEntry]
                  /\ UNCHANGED <<nextGeneration, submitterVars, workerVars>>
             ELSE /\ SpawnWorker(k)
                  /\ entries' = [entries EXCEPT ![k] = ActiveEntry(nextGeneration)]
                  /\ HandOut(waiters, nextGeneration)
        ELSE UNCHANGED <<entries, nextGeneration, submitterVars, workerVars>>
  /\ UNCHANGED registry

\* recv() returns None: no strong sender is left and the mailbox is empty.
\* Returning drops the entries, and with them the Active senders.
RegistryStops ==
  /\ registry = "running"
  /\ ~RegistryHeld
  /\ commands = <<>>
  /\ registry' = "stopped"
  /\ entries' = [k \in Keys |-> NoEntry]
  /\ UNCHANGED <<commands, nextGeneration, submitterVars, workerVars>>

-----------------------------------------------------------------------------
(* Workers: spawn_partition_worker and run_partition_job *)

\* Every loop of the worker takes the next job the same way.
StartJob(g) ==
  /\ worker[g] \in {"serving", "draining", "orphaned"}
  /\ running[g] = NoJob
  /\ channel[g] # <<>>
  /\ running' = [running EXCEPT ![g] = Head(channel[g])]
  /\ channel' = [channel EXCEPT ![g] = Tail(@)]
  /\ UNCHANGED <<registryVars, submitterVars, worker, workerKey, completed>>

\* The task returned or panicked: catch_unwind makes both alike, and the
\* completion is sent in both cases.
FinishJob(g) ==
  /\ running[g] # NoJob
  /\ completed' = completed \union {running[g]}
  /\ running' = [running EXCEPT ![g] = NoJob]
  /\ UNCHANGED <<registryVars, submitterVars, worker, workerKey, channel>>

\* Nothing to receive, though a sender is alive, for the whole idle timeout.
IdleTimeout(g) ==
  /\ worker[g] = "serving"
  /\ running[g] = NoJob
  /\ channel[g] = <<>>
  /\ HasSender(g)
  /\ worker' = [worker EXCEPT ![g] = "expired"]
  /\ UNCHANGED <<registryVars, submitterVars, workerKey, channel, running, completed>>

\* registry.upgrade() succeeds: the worker asks to retire.
RequestRetirement(g) ==
  /\ worker[g] = "expired"
  /\ RegistryHeld
  /\ commands' = Append(commands, BeginRetirement(workerKey[g], g))
  /\ worker' = [worker EXCEPT ![g] = "asking"]
  /\ UNCHANGED <<registry, entries, nextGeneration, submitterVars,
                 workerKey, channel, running, completed>>

\* registry.upgrade() fails: drain what is left.
Orphan(g) ==
  /\ worker[g] = "expired"
  /\ ~RegistryHeld
  /\ worker' = [worker EXCEPT ![g] = "orphaned"]
  /\ UNCHANGED <<registryVars, submitterVars, workerKey, channel, running, completed>>

ReadReply(g) ==
  /\ worker[g] \in {"granted", "refused"}
  /\ worker' = [worker EXCEPT ![g] = IF worker[g] = "granted" THEN "draining" ELSE "serving"]
  /\ UNCHANGED <<registryVars, submitterVars, workerKey, channel, running, completed>>

\* Mutant of ReceiverClosed: a closed channel is left with jobs inside.
ReceiverClosedFull(g) == running[g] = NoJob /\ ~HasSender(g)

\* recv() returns None: the channel is empty and its last sender is gone.
ReceiverClosed(g) == /\ running[g] = NoJob
                     /\ channel[g] = <<>>
                     /\ ~HasSender(g)

\* Mutant of Report: the worker ends without a word.
ReportNothing(g) == commands
\* A draining worker reports its retirement; the others just end.
Report(g) == IF worker[g] = "draining"
             THEN Append(commands, Retired(workerKey[g], g))
             ELSE commands

WorkerExits(g) ==
  /\ worker[g] \in {"serving", "draining", "orphaned"}
  /\ ReceiverClosed(g)
  /\ worker' = [worker EXCEPT ![g] = "exited"]
  /\ commands' = Report(g)
  /\ UNCHANGED <<registry, entries, nextGeneration, submitterVars,
                 workerKey, channel, running, completed>>

-----------------------------------------------------------------------------
SubmitterNext(r) == \/ \E k \in Keys : Submit(r, k)
                    \/ Send(r)
                    \/ Cancel(r)
                    \/ DropHandle(r)

RegistryNext == \/ \E j \in Job : AcquireActive(j) \/ AcquireRetiring(j) \/ AcquireNew(j)
                \/ \E k \in Keys, g \in Generations :
                     ServeBeginRetirement(k, g) \/ ServeRetired(k, g)
                \/ RegistryStops

WorkerNext(g) == \/ StartJob(g)
                 \/ FinishJob(g)
                 \/ IdleTimeout(g)
                 \/ RequestRetirement(g)
                 \/ Orphan(g)
                 \/ ReadReply(g)
                 \/ WorkerExits(g)

Next == \/ \E r \in Submitters : SubmitterNext(r)
        \/ RegistryNext
        \/ \E g \in Generations : WorkerNext(g)

\* Safety part, used by the proofs.
SafeSpec == Init /\ [][Next]_vars

\* The runtime polls every ready task (WF); a job ends (the run's assumption on
\* handlers); tokio's semaphore serves blocked senders in order, so a sender
\* that finds room again and again is served (SF).  Submitting, cancelling and
\* dropping a handle are the environment's choice and get no fairness.
Fairness == /\ WF_vars(RegistryNext)
            /\ \A g \in Generations : WF_vars(WorkerNext(g))
            /\ \A r \in Submitters : SF_vars(Send(r))

Spec == SafeSpec /\ Fairness
-----------------------------------------------------------------------------
(* Correctness *)

Live(g) == worker[g] \notin {"unborn", "exited"}

\* Two workers never serve one key, whatever the order of retirement, new
\* acquisitions, cancellations and handle drops: "Jobs for the same key run
\* sequentially" rests on this handshake alone (core.rs:270-276).
OneWorkerPerKey ==
  \A g, h \in Generations :
    Live(g) /\ Live(h) /\ workerKey[g] = workerKey[h] => g = h

\* A sender in a submitter's hands leads to a worker of that submitter's key
\* that still receives: a worker exits only after every clone handed out
\* before its retirement is gone, so the retry in submit_task's loop
\* (core.rs:356-359) is never taken and no job is sent to a dead channel.
SenderNeverStale ==
  \A r \in Submitters : submitter[r] = "sending" =>
    /\ sender[r] \in Generations
    /\ Live(sender[r])
    /\ workerKey[sender[r]] = job[r].key

\* The registry never answers a retirement request with false: the request of
\* a live worker always meets the Active entry of its own generation.
RetirementNeverRefused == \A g \in Generations : worker[g] # "refused"

\* A submitter that waits for a sender is known to somebody who will answer:
\* its acquisition is in the mailbox, or parked on an entry whose retirement
\* is still to be reported.
AcquisitionNotLost ==
  \A r \in Submitters : submitter[r] = "acquiring" =>
    \/ \E i \in 1..Len(commands) : commands[i] = Acquire(job[r])
    \/ LET e == entries[job[r].key]
       IN /\ e.state = "retiring"
          /\ job[r] \in e.waiters
          /\ \/ worker[e.generation] \in {"granted", "draining"}
             \/ \E i \in 1..Len(commands) :
                  commands[i] = Retired(job[r].key, e.generation)

-----------------------------------------------------------------------------
(* The inductive invariant behind the safety properties: the entry of a key, *)
(* its worker's state and the commands in flight tell one story.             *)

GenerationInv ==
  \A g \in Generations : worker[g] = "unborn" <=> g >= nextGeneration

EntryInv == \A k \in Keys :
  /\ entries[k].state = "none" => entries[k] = NoEntry
  /\ entries[k].state = "active" =>
       /\ entries[k] = ActiveEntry(entries[k].generation)
       /\ entries[k].generation \in Generations
       /\ workerKey[entries[k].generation] = k
       /\ worker[entries[k].generation] \in {"serving", "expired", "asking", "orphaned"}
  /\ entries[k].state = "retiring" =>
       /\ entries[k].generation \in Generations
       /\ workerKey[entries[k].generation] = k
       /\ worker[entries[k].generation] \in {"granted", "draining", "exited"}
       /\ \A j \in entries[k].waiters : j.key = k

WorkerInv == registry = "running" => \A g \in Generations : Live(g) =>
  LET e == entries[workerKey[g]]
  IN /\ e.generation = g
     /\ e.state = IF worker[g] \in {"granted", "draining"} THEN "retiring" ELSE "active"

CommandInv == \A i \in 1..Len(commands) :
  /\ commands[i].type = "BeginRetirement" =>
       /\ workerKey[commands[i].generation] = commands[i].key
       /\ worker[commands[i].generation] = "asking"
  /\ commands[i].type = "Retired" =>
       /\ workerKey[commands[i].generation] = commands[i].key
       /\ worker[commands[i].generation] = "exited"
       /\ entries[commands[i].key].state = "retiring"
       /\ entries[commands[i].key].generation = commands[i].generation

OneReportInv == \A i, h \in 1..Len(commands) :
  /\ i # h
  /\ commands[i].type # "Acquire"
  /\ commands[h].type # "Acquire"
  => commands[i].generation # commands[h].generation

ShutdownInv == registry = "stopped" =>
  /\ ~RegistryHeld
  /\ commands = <<>>
  /\ \A k \in Keys : entries[k] = NoEntry

JobInv == \A r \in Submitters :
  /\ job[r] # NoJob => job[r].by = r
  /\ submitter[r] \in {"acquiring", "sending"} => job[r] # NoJob
  /\ submitter[r] # "sending" => sender[r] = 0

IInv == /\ TypeOK
        /\ GenerationInv
        /\ EntryInv
        /\ WorkerInv
        /\ CommandInv
        /\ OneReportInv
        /\ ShutdownInv
        /\ JobInv
        /\ OneWorkerPerKey
        /\ SenderNeverStale
        /\ RetirementNeverRefused

-----------------------------------------------------------------------------
(* Refinement: the live worker's channel is the key's line *)

ServerOf(k) == {g \in Generations : Live(g) /\ workerKey[g] = k}
Server(k) == CHOOSE g \in ServerOf(k) : TRUE

Line == [k \in Keys |-> IF ServerOf(k) = {} THEN <<>> ELSE channel[Server(k)]]
Current == [k \in Keys |-> IF ServerOf(k) = {} THEN NoJob ELSE running[Server(k)]]

\* The handshake implements one first-in-first-out line per key, served by one
\* job at a time, with every accepted job run exactly once.
Serial == INSTANCE KeyedSerial WITH Jobs <- Job, line <- Line, current <- Current
ImplementsKeyedSerial == Serial!Spec

-----------------------------------------------------------------------------
(* Liveness *)

\* A submission whose future is not dropped is completed, even when it was
\* parked on a retiring worker or blocked on a full channel.
SubmittedJobCompletes ==
  \A j \in Job : (j.by \notin MayCancel /\ submitter[j.by] = "acquiring" /\ job[j.by] = j)
                 ~> j \in completed

\* Once the last handle is dropped the registry and all workers end: the weak
\* senders of the workers keep nothing alive.
ShutdownCompletes ==
  (\A r \in Submitters : submitter[r] = "closed")
    ~> (registry = "stopped" /\ \A g \in Generations : ~Live(g))

\* A key that gets no more jobs loses its worker and its registry entry.
IdleKeysReclaimed == <>[](\A k \in Keys : entries[k] = NoEntry)
=============================================================================
