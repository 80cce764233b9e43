-------------------------- MODULE PartitionerProofs --------------------------
(***************************************************************************)
(* Proofs about Partitioner for any sets of keys and submitters and any    *)
(* bounds.                                                                 *)
(***************************************************************************)
EXTENDS Partitioner, TLAPS

USE CapacityAssumption, BoundsAssumption, CancelAssumption, NoJobAssumption

-----------------------------------------------------------------------------
(* Type correctness *)

LEMMA CommandTypes ==
  /\ \A j \in Job : Acquire(j) \in Command
  /\ \A k \in Keys, g \in Generations :
       BeginRetirement(k, g) \in Command /\ Retired(k, g) \in Command
BY DEF Command, Acquire, BeginRetirement, Retired

LEMMA EntryTypes ==
  /\ NoEntry \in Entry
  /\ \A g \in Generations : ActiveEntry(g) \in Entry
  /\ \A g \in Generations, ws \in SUBSET Job : RetiringEntry(g, ws) \in Entry
BY DEF Entry, NoEntry, ActiveEntry, RetiringEntry, Generations

LEMMA TypeInit == Init => TypeOK
<1> SUFFICES ASSUME Init PROVE TypeOK
  OBVIOUS
<1>1. entries \in [Keys -> Entry]
  BY EntryTypes DEF Init
<1> QED
  BY <1>1 DEF Init, TypeOK, Generations, WorkerStates

LEMMA HandOutType ==
  ASSUME TypeOK, NEW js, NEW g \in Generations, HandOut(js, g)
  PROVE  /\ submitter' \in [Submitters -> {"idle", "acquiring", "sending", "closed"}]
         /\ sender' \in [Submitters -> 0..MaxGeneration]
         /\ job' \in [Submitters -> Job \union {NoJob}]
BY DEF TypeOK, HandOut, Generations

\* TypeOK alone is not inductive: that a sending submitter has a job and a
\* sender comes from JobInv and SenderNeverStale.
LEMMA Sending ==
  ASSUME IInv, NEW r \in Submitters, submitter[r] = "sending"
  PROVE  /\ job[r] \in Job
         /\ job[r].by = r
         /\ sender[r] \in Generations
         /\ worker[sender[r]] \notin {"unborn", "exited"}
         /\ workerKey[sender[r]] = job[r].key
BY DEF IInv, JobInv, SenderNeverStale, TypeOK, Live

LEMMA TypeSubmitter ==
  ASSUME IInv, NEW r \in Submitters, SubmitterNext(r)
  PROVE  TypeOK'
<1> USE DEF IInv
<1>1. ASSUME NEW k \in Keys, Submit(r, k) PROVE TypeOK'
  <2> DEFINE n == IF job[r] = NoJob THEN 1 ELSE job[r].n + 1
             j == [by |-> r, n |-> n, key |-> k]
  <2>1. j \in Job
    BY <1>1 DEF Submit, TypeOK, Job
  <2>2. commands' \in Seq(Command)
    BY <1>1, <2>1, CommandTypes DEF Submit, TypeOK
  <2>3. job' \in [Submitters -> Job \union {NoJob}]
    BY <1>1, <2>1 DEF Submit, TypeOK
  <2> QED
    BY <1>1, <2>2, <2>3 DEF Submit, TypeOK, workerVars
<1>2. CASE Send(r)
  <2> DEFINE g == sender[r]
  <2>1. /\ job[r] \in Job
        /\ g \in Generations
        /\ worker[g] # "exited"
    BY <1>2, Sending DEF Send
  <2>2. channel' = [channel EXCEPT ![g] = Append(@, job[r])]
    BY <1>2, <2>1 DEF Send
  <2>3. /\ channel' \in [Generations -> Seq(Job)]
        /\ \A h \in Generations : Len(channel'[h]) <= Capacity
    BY <1>2, <2>1, <2>2 DEF Send, HasRoom, TypeOK
  <2>4. commands' = commands /\ submitter' = [submitter EXCEPT ![r] = "idle"]
    BY <1>2, <2>1 DEF Send
  <2> QED
    BY <1>2, <2>1, <2>3, <2>4 DEF Send, TypeOK
<1>3. CASE Cancel(r)
  BY <1>3 DEF Cancel, TypeOK, registryVars, workerVars
<1>4. CASE DropHandle(r)
  BY <1>4 DEF DropHandle, TypeOK, registryVars, workerVars
<1> QED
  BY <1>1, <1>2, <1>3, <1>4 DEF SubmitterNext

LEMMA TypeSpawn ==
  ASSUME TypeOK, NEW k \in Keys, SpawnWorker(k)
  PROVE  /\ nextGeneration \in Generations
         /\ nextGeneration' \in 1..(MaxGeneration + 1)
         /\ worker' \in [Generations -> WorkerStates]
         /\ workerKey' \in [Generations -> Keys]
BY DEF TypeOK, SpawnWorker, Generations, WorkerStates

LEMMA TypeRegistry ==
  ASSUME IInv, RegistryNext
  PROVE  TypeOK'
<1> USE DEF IInv
<1>0. commands # <<>> => Tail(commands) \in Seq(Command)
  BY DEF TypeOK
<1>1. ASSUME NEW j \in Job, AcquireActive(j) PROVE TypeOK'
  <2>1. entries[j.key].generation \in Generations
    BY <1>1 DEF AcquireActive, EntryInv, Job
  <2>2. /\ submitter' \in [Submitters -> {"idle", "acquiring", "sending", "closed"}]
        /\ sender' \in [Submitters -> 0..MaxGeneration]
        /\ job' \in [Submitters -> Job \union {NoJob}]
    BY <1>1, <2>1, HandOutType DEF AcquireActive
  <2> QED
    BY <1>0, <1>1, <2>2 DEF AcquireActive, Received, TypeOK, workerVars
<1>2. ASSUME NEW j \in Job, AcquireRetiring(j) PROVE TypeOK'
  <2>1. /\ j.key \in Keys
        /\ entries[j.key].generation \in Generations
        /\ Park(entries[j.key].waiters, j) \in SUBSET Job
    BY <1>2 DEF AcquireRetiring, EntryInv, Park, TypeOK, Entry, Job
  <2>2. entries' \in [Keys -> Entry]
    BY <1>2, <2>1, EntryTypes DEF AcquireRetiring, TypeOK
  <2> QED
    BY <1>0, <1>2, <2>2 DEF AcquireRetiring, Received, TypeOK, submitterVars, workerVars
<1>3. ASSUME NEW j \in Job, AcquireNew(j) PROVE TypeOK'
  <2>1. j.key \in Keys
    BY DEF Job
  <2>2. entries' \in [Keys -> Entry]
    BY <1>3, <2>1, TypeSpawn, EntryTypes DEF AcquireNew, TypeOK
  <2>3. /\ submitter' \in [Submitters -> {"idle", "acquiring", "sending", "closed"}]
        /\ sender' \in [Submitters -> 0..MaxGeneration]
        /\ job' \in [Submitters -> Job \union {NoJob}]
    BY <1>3, <2>1, TypeSpawn, HandOutType DEF AcquireNew
  <2>4. /\ nextGeneration' \in 1..(MaxGeneration + 1)
        /\ worker' \in [Generations -> WorkerStates]
        /\ workerKey' \in [Generations -> Keys]
    BY <1>3, <2>1, TypeSpawn DEF AcquireNew
  <2> QED
    BY <1>0, <1>3, <2>2, <2>3, <2>4
    DEF AcquireNew, Received, TypeOK, SpawnWorker
<1>4. ASSUME NEW k \in Keys, NEW g \in Generations, ServeBeginRetirement(k, g) PROVE TypeOK'
  <2>0. RetiringEntry(g, {}) \in Entry
    BY EntryTypes
  <2>1. entries' \in [Keys -> Entry]
    BY <1>4, <2>0 DEF ServeBeginRetirement, TypeOK
  <2>2. worker' \in [Generations -> WorkerStates]
    BY <1>4 DEF ServeBeginRetirement, TypeOK, WorkerStates
  <2> QED
    BY <1>0, <1>4, <2>1, <2>2 DEF ServeBeginRetirement, Received, TypeOK, submitterVars
<1>5. ASSUME NEW k \in Keys, NEW g \in Generations, ServeRetired(k, g) PROVE TypeOK'
  <2> DEFINE waiters == {j \in entries[k].waiters : Waiting(j)}
  <2>1. CASE SpawnWorker(k) /\ entries' = [entries EXCEPT ![k] = ActiveEntry(nextGeneration)]
             /\ HandOut(waiters, nextGeneration)
    <3>1. entries' \in [Keys -> Entry]
      BY <2>1, TypeSpawn, EntryTypes DEF TypeOK
    <3> HIDE DEF waiters
    <3>2. /\ submitter' \in [Submitters -> {"idle", "acquiring", "sending", "closed"}]
          /\ sender' \in [Submitters -> 0..MaxGeneration]
          /\ job' \in [Submitters -> Job \union {NoJob}]
      BY <2>1, TypeSpawn, HandOutType
    <3>3. /\ nextGeneration' \in 1..(MaxGeneration + 1)
          /\ worker' \in [Generations -> WorkerStates]
          /\ workerKey' \in [Generations -> Keys]
      BY <2>1, TypeSpawn
    <3> QED
      BY <1>0, <1>5, <2>1, <3>1, <3>2, <3>3
      DEF ServeRetired, Received, TypeOK, SpawnWorker
  <2>2. CASE /\ entries' \in {entries, [entries EXCEPT ![k] = NoEntry]}
             /\ UNCHANGED <<nextGeneration, submitterVars, workerVars>>
    <3>1. entries' \in [Keys -> Entry]
      BY <2>2, EntryTypes DEF TypeOK
    <3> QED
      BY <1>0, <3>1, <1>5, <2>2, EntryTypes DEF ServeRetired, Received, TypeOK, submitterVars, workerVars
  <2> QED
    BY <1>5, <2>1, <2>2 DEF ServeRetired
<1>6. CASE RegistryStops
  BY <1>6, EntryTypes DEF RegistryStops, TypeOK, submitterVars, workerVars
<1> QED
  BY <1>1, <1>2, <1>3, <1>4, <1>5, <1>6 DEF RegistryNext

LEMMA TypeWorker ==
  ASSUME IInv, NEW g \in Generations, WorkerNext(g)
  PROVE  TypeOK'
<1> USE DEF IInv
<1>1. CASE StartJob(g)
  <2>1. /\ Head(channel[g]) \in Job
        /\ Tail(channel[g]) \in Seq(Job)
        /\ Len(Tail(channel[g])) <= Capacity
    BY <1>1 DEF StartJob, TypeOK
  <2> QED
    BY <1>1, <2>1 DEF StartJob, TypeOK, registryVars, submitterVars
<1>2. CASE FinishJob(g)
  BY <1>2 DEF FinishJob, TypeOK, registryVars, submitterVars
<1>3. CASE IdleTimeout(g) \/ Orphan(g) \/ ReadReply(g)
  BY <1>3 DEF IdleTimeout, Orphan, ReadReply, TypeOK, registryVars, submitterVars, WorkerStates
<1>4. CASE RequestRetirement(g)
  <2>1. commands' \in Seq(Command)
    BY <1>4, CommandTypes DEF RequestRetirement, TypeOK
  <2> QED
    BY <1>4, <2>1 DEF RequestRetirement, TypeOK, submitterVars, WorkerStates
<1>5. CASE WorkerExits(g)
  <2>1. commands' \in Seq(Command)
    BY <1>5, CommandTypes DEF WorkerExits, Report, TypeOK
  <2> QED
    BY <1>5, <2>1 DEF WorkerExits, TypeOK, submitterVars, WorkerStates
<1> QED
  BY <1>1, <1>2, <1>3, <1>4, <1>5 DEF WorkerNext

-----------------------------------------------------------------------------
(* The inductive invariant *)

LEMMA InvInit == Init => IInv
<1> SUFFICES ASSUME Init PROVE IInv
  OBVIOUS
<1>1. TypeOK
  BY TypeInit
<1>2. commands = <<>> /\ Len(commands) = 0
  BY DEF Init
<1> QED
  BY <1>1, <1>2 DEF Init, IInv, GenerationInv, EntryInv, WorkerInv, CommandInv, OneReportInv,
     ShutdownInv, JobInv, OneWorkerPerKey, SenderNeverStale, RetirementNeverRefused, Live,
     NoEntry, Generations

\* What receiving and sending a command does to the mailbox.
LEMMA TailOfCommands ==
  ASSUME TypeOK, commands # <<>>, commands' = Tail(commands)
  PROVE  /\ 1 \in 1..Len(commands)
         /\ Head(commands) = commands[1]
         /\ \A i \in 1..Len(commands') :
              i + 1 \in 2..Len(commands) /\ commands'[i] = commands[i + 1]
BY DEF TypeOK

LEMMA AppendToCommands ==
  ASSUME TypeOK, NEW c \in Command, commands' = Append(commands, c)
  PROVE  /\ Len(commands') = Len(commands) + 1
         /\ commands'[Len(commands')] = c
         /\ \A i \in 1..Len(commands) : commands'[i] = commands[i]
         /\ \A i \in 1..Len(commands') : i = Len(commands') \/ i \in 1..Len(commands)
BY DEF TypeOK

\* An acquisition in the mailbox is no retirement message.
LEMMA AcquireAppended ==
  ASSUME TypeOK, CommandInv, OneReportInv, NEW j \in Job,
         commands' = Append(commands, Acquire(j)),
         UNCHANGED <<entries, worker, workerKey>>
  PROVE  CommandInv' /\ OneReportInv'
<1>1. Acquire(j) \in Command /\ Acquire(j).type = "Acquire"
  BY CommandTypes DEF Acquire
<1>2. /\ Len(commands') = Len(commands) + 1
      /\ commands'[Len(commands')] = Acquire(j)
      /\ \A i \in 1..Len(commands) : commands'[i] = commands[i]
      /\ \A i \in 1..Len(commands') : i = Len(commands') \/ i \in 1..Len(commands)
  BY <1>1, AppendToCommands
<1>3. CommandInv'
  BY <1>1, <1>2 DEF CommandInv
<1>4. OneReportInv'
  BY <1>1, <1>2 DEF OneReportInv
<1> QED
  BY <1>3, <1>4

LEMMA SubmitterStep ==
  ASSUME IInv, NEW r \in Submitters, SubmitterNext(r)
  PROVE  IInv'
<1>1. TypeOK'
  BY TypeSubmitter
<1>2. UNCHANGED <<registry, entries, nextGeneration, worker, workerKey>>
  BY DEF SubmitterNext, Submit, Send, Cancel, DropHandle, registryVars, workerVars
<1>3. GenerationInv' /\ EntryInv' /\ WorkerInv' /\ OneWorkerPerKey' /\ RetirementNeverRefused'
  BY <1>2 DEF IInv, GenerationInv, EntryInv, WorkerInv, OneWorkerPerKey,
     RetirementNeverRefused, Live
<1>4. submitter[r] # "closed"
  BY DEF SubmitterNext, Submit, Send, Cancel, DropHandle
<1>5. registry = "running"
  BY <1>4 DEF IInv, ShutdownInv, RegistryHeld, TypeOK
<1>6. ShutdownInv'
  BY <1>2, <1>5 DEF ShutdownInv
<1>7. ASSUME NEW k \in Keys, Submit(r, k)
      PROVE  CommandInv' /\ OneReportInv' /\ JobInv' /\ SenderNeverStale'
  <2>1. PICK j \in Job : /\ j.by = r
                         /\ job' = [job EXCEPT ![r] = j]
                         /\ commands' = Append(commands, Acquire(j))
    <3> DEFINE n == IF job[r] = NoJob THEN 1 ELSE job[r].n + 1
               j == [by |-> r, n |-> n, key |-> k]
    <3>1. j \in Job
      BY <1>7 DEF Submit, IInv, TypeOK, Job
    <3> QED
      BY <1>7, <3>1 DEF Submit
  <2>2. CommandInv' /\ OneReportInv'
    BY <2>1, <1>2, AcquireAppended DEF IInv
  <2>3. submitter' = [submitter EXCEPT ![r] = "acquiring"] /\ sender' = sender
        /\ submitter[r] = "idle"
    BY <1>7 DEF Submit
  <2>4. JobInv'
    BY <2>1, <2>3 DEF IInv, TypeOK, JobInv
  <2>5. SenderNeverStale'
    BY <1>2, <2>1, <2>3 DEF IInv, TypeOK, SenderNeverStale, Live
  <2> QED
    BY <2>2, <2>4, <2>5
<1>8. ASSUME Send(r) PROVE CommandInv' /\ OneReportInv' /\ JobInv' /\ SenderNeverStale'
  <2>1. worker[sender[r]] # "exited"
    BY <1>8, Sending DEF Send
  <2>2. /\ UNCHANGED <<commands, job>>
        /\ submitter' = [submitter EXCEPT ![r] = "idle"]
        /\ sender' = [sender EXCEPT ![r] = 0]
    BY <1>8, <2>1 DEF Send
  <2> QED
    BY <1>2, <2>2 DEF IInv, TypeOK, CommandInv, OneReportInv, JobInv, SenderNeverStale, Live
<1>9. ASSUME Cancel(r) \/ DropHandle(r)
      PROVE  CommandInv' /\ OneReportInv' /\ JobInv' /\ SenderNeverStale'
  <2>1. UNCHANGED <<commands, job>>
    BY <1>9 DEF Cancel, DropHandle, registryVars
  <2>2. /\ submitter' \in {[submitter EXCEPT ![r] = "idle"], [submitter EXCEPT ![r] = "closed"]}
        /\ sender' = [sender EXCEPT ![r] = 0]
    BY <1>9 DEF Cancel, DropHandle, IInv, JobInv, TypeOK
  <2>3. CommandInv' /\ OneReportInv'
    BY <1>2, <2>1 DEF IInv, CommandInv, OneReportInv
  <2> QED
    BY <1>2, <2>1, <2>2, <2>3 DEF IInv, TypeOK, JobInv, SenderNeverStale, Live
<1>10. CommandInv' /\ OneReportInv' /\ JobInv' /\ SenderNeverStale'
  BY <1>7, <1>8, <1>9 DEF SubmitterNext
<1> QED
  BY <1>1, <1>3, <1>6, <1>10 DEF IInv

-----------------------------------------------------------------------------
(* Steps of the registry *)

\* Handing generation g to the waiting submitters of js, all of key k.
LEMMA HandOutStep ==
  ASSUME IInv, NEW k \in Keys, NEW g \in Generations, NEW js \in SUBSET Job,
         \A j \in js : j.key = k,
         HandOut(js, g), Live(g)', workerKey'[g] = k,
         \A h \in Generations : Live(h) => Live(h)' /\ workerKey'[h] = workerKey[h]
  PROVE  JobInv' /\ SenderNeverStale'
<1>1. \A r \in Submitters : r \in Answered(js) =>
        job[r] \in js /\ submitter[r] = "acquiring"
  BY DEF Answered, Waiting, IInv, JobInv, TypeOK
<1>2. JobInv'
  BY <1>1 DEF HandOut, IInv, JobInv, TypeOK
<1>3. SenderNeverStale'
  <2> SUFFICES ASSUME NEW r \in Submitters, submitter'[r] = "sending"
               PROVE  /\ sender'[r] \in Generations
                      /\ Live(sender[r])'
                      /\ workerKey'[sender'[r]] = job'[r].key
    BY DEF SenderNeverStale
  <2>1. CASE r \in Answered(js)
    <3>1. sender'[r] = g /\ job'[r] = job[r] /\ job[r] \in js
      BY <1>1, <2>1 DEF HandOut
    <3> QED
      BY <3>1 DEF Live
  <2>2. CASE r \notin Answered(js)
    <3>1. /\ submitter[r] = "sending"
          /\ sender'[r] = sender[r]
          /\ job'[r] = job[r]
      BY <2>2 DEF HandOut
    <3> QED
      BY <3>1 DEF IInv, SenderNeverStale, Live
  <2> QED
    BY <2>1, <2>2
<1> QED
  BY <1>2, <1>3

\* Taking the head off the mailbox keeps what is known of the rest; when the
\* head was a retirement message of g, no other message is about g.
LEMMA CommandTaken ==
  ASSUME IInv, commands # <<>>, commands' = Tail(commands)
  PROVE  /\ OneReportInv'
         /\ \A i \in 1..Len(commands') : \E h \in 2..Len(commands) :
               commands'[i] = commands[h]
         /\ Head(commands).type # "Acquire" =>
              \A i \in 1..Len(commands') : commands'[i].type # "Acquire" =>
                 commands'[i].generation # Head(commands).generation
<1>1. /\ 1 \in 1..Len(commands)
      /\ Head(commands) = commands[1]
      /\ \A i \in 1..Len(commands') : i + 1 \in 2..Len(commands) /\ commands'[i] = commands[i + 1]
  BY TailOfCommands DEF IInv
<1>2. \A i \in 1..Len(commands') : i + 1 # 1 /\ i + 1 \in 1..Len(commands)
  BY <1>1 DEF IInv, TypeOK
<1>3. \A i, h \in 1..Len(commands') : i # h => i + 1 # h + 1
  OBVIOUS
<1>4. OneReportInv'
  BY <1>1, <1>2, <1>3 DEF IInv, OneReportInv
<1>5. \A i \in 1..Len(commands') : \E h \in 2..Len(commands) : commands'[i] = commands[h]
  BY <1>1
<1>6. Head(commands).type # "Acquire" =>
        \A i \in 1..Len(commands') : commands'[i].type # "Acquire" =>
           commands'[i].generation # Head(commands).generation
  BY <1>1, <1>2 DEF IInv, OneReportInv
<1> QED
  BY <1>4, <1>5, <1>6

\* A new generation for a key that no live worker serves.
LEMMA SpawnStep ==
  ASSUME IInv, registry = "running", NEW k \in Keys, SpawnWorker(k),
         NEW n, n = nextGeneration,
         entries' = [entries EXCEPT ![k] = ActiveEntry(n)],
         \A h \in Generations : Live(h) => workerKey[h] # k
  PROVE  /\ GenerationInv'
         /\ EntryInv'
         /\ WorkerInv'
         /\ OneWorkerPerKey'
         /\ RetirementNeverRefused'
         /\ n \in Generations
         /\ Live(n)'
         /\ workerKey'[n] = k
         /\ \A h \in Generations : Live(h) => Live(h)' /\ workerKey'[h] = workerKey[h]
<1>1. /\ n \in Generations
      /\ nextGeneration' = n + 1
      /\ worker' = [worker EXCEPT ![n] = "serving"]
      /\ workerKey' = [workerKey EXCEPT ![n] = k]
      /\ worker[n] = "unborn"
  BY TypeSpawn DEF SpawnWorker, IInv, GenerationInv, TypeOK, Generations
<1>2. Live(n)' /\ workerKey'[n] = k
  BY <1>1 DEF Live, IInv, TypeOK
<1>3. \A h \in Generations : h # n => /\ worker'[h] = worker[h]
                                      /\ workerKey'[h] = workerKey[h]
  BY <1>1 DEF IInv, TypeOK
<1>4. \A h \in Generations : Live(h) => h # n /\ Live(h)' /\ workerKey'[h] = workerKey[h]
  BY <1>1, <1>3 DEF Live
<1>5. GenerationInv'
  BY <1>1, <1>3 DEF IInv, GenerationInv, TypeOK, Generations
<1>6. EntryInv'
  <2> SUFFICES ASSUME NEW l \in Keys PROVE EntryInv!(l)'
    BY DEF EntryInv
  <2>1. CASE l = k
    BY <1>1, <1>2, <2>1 DEF IInv, TypeOK, ActiveEntry
  <2>2. CASE l # k
    <3>1. entries'[l] = entries[l]
      BY <2>2 DEF IInv, TypeOK
    <3>2. EntryInv!(l)
      BY DEF IInv, EntryInv
    <3> QED
      BY <1>1, <1>3, <3>1, <3>2 DEF ActiveEntry
  <2> QED
    BY <2>1, <2>2
<1>7. WorkerInv'
  <2> SUFFICES ASSUME NEW g \in Generations, Live(g)'
               PROVE  LET e == entries'[workerKey'[g]]
                      IN /\ e.generation = g
                         /\ e.state = IF worker'[g] \in {"granted", "draining"}
                                      THEN "retiring" ELSE "active"
    BY DEF WorkerInv
  <2>1. CASE g = n
    BY <1>1, <1>2, <2>1 DEF IInv, TypeOK, ActiveEntry
  <2>2. CASE g # n
    <3>1. Live(g) /\ worker'[g] = worker[g] /\ workerKey'[g] = workerKey[g]
      BY <1>3, <2>2 DEF Live
    <3>2. workerKey[g] \in Keys /\ workerKey[g] # k
      BY <3>1 DEF IInv, TypeOK
    <3> QED
      BY <3>1, <3>2 DEF IInv, WorkerInv, TypeOK
  <2> QED
    BY <2>1, <2>2
<1>8. OneWorkerPerKey'
  <2>1. \A g \in Generations : Live(g)' => g = n \/ (Live(g) /\ workerKey'[g] # k)
    BY <1>3, <1>4 DEF Live
  <2> QED
    BY <1>2, <1>4, <2>1 DEF IInv, OneWorkerPerKey
<1>9. RetirementNeverRefused'
  <2>1. worker'[n] = "serving"
    BY <1>1 DEF IInv, TypeOK
  <2> QED
    BY <1>3, <2>1 DEF IInv, RetirementNeverRefused
<1> QED
  BY <1>1, <1>2, <1>4, <1>5, <1>6, <1>7, <1>8, <1>9

LEMMA AcquireActiveStep ==
  ASSUME IInv, NEW j \in Job, AcquireActive(j)
  PROVE  IInv'
<1> DEFINE g == entries[j.key].generation
<1>1. TypeOK'
  BY TypeRegistry DEF RegistryNext
<1>2. /\ commands # <<>>
      /\ commands' = Tail(commands)
      /\ registry = "running"
      /\ UNCHANGED <<registry, entries, nextGeneration, worker, workerKey>>
      /\ HandOut({j}, g)
      /\ j.key \in Keys
  BY DEF AcquireActive, Received, workerVars, Job
<1>3. /\ g \in Generations
      /\ Live(g)
      /\ workerKey[g] = j.key
  BY DEF AcquireActive, IInv, EntryInv, Job, Live
<1>4. GenerationInv' /\ EntryInv' /\ WorkerInv' /\ OneWorkerPerKey' /\ RetirementNeverRefused'
  BY <1>2 DEF IInv, GenerationInv, EntryInv, WorkerInv, OneWorkerPerKey,
     RetirementNeverRefused, Live
<1>5. CommandInv' /\ OneReportInv' /\ ShutdownInv'
  BY <1>2, CommandTaken DEF IInv, CommandInv, ShutdownInv
<1>6. JobInv' /\ SenderNeverStale'
  <2>1. ASSUME NEW f \in Generations, f = g PROVE JobInv' /\ SenderNeverStale'
    BY <1>2, <1>3, <2>1, HandOutStep DEF Live
  <2> QED
    BY <1>3, <2>1
<1> QED
  BY <1>1, <1>4, <1>5, <1>6 DEF IInv

LEMMA AcquireRetiringStep ==
  ASSUME IInv, NEW j \in Job, AcquireRetiring(j)
  PROVE  IInv'
<1> DEFINE k == j.key
           e == entries[k]
<1>1. TypeOK'
  BY TypeRegistry DEF RegistryNext
<1>2. /\ commands # <<>>
      /\ commands' = Tail(commands)
      /\ registry = "running"
      /\ UNCHANGED <<registry, nextGeneration, worker, workerKey, submitter, job, sender>>
      /\ e.state = "retiring"
      /\ entries' = [entries EXCEPT ![k] = RetiringEntry(e.generation, Park(e.waiters, j))]
      /\ k \in Keys
  BY DEF AcquireRetiring, Received, workerVars, submitterVars, Job
<1>3. \A l \in Keys : /\ entries'[l].state = entries[l].state
                      /\ entries'[l].generation = entries[l].generation
                      /\ l # k => entries'[l] = entries[l]
  BY <1>2 DEF RetiringEntry, IInv, TypeOK
<1>4. GenerationInv' /\ OneWorkerPerKey' /\ RetirementNeverRefused' /\ JobInv' /\ SenderNeverStale'
  BY <1>2 DEF IInv, GenerationInv, OneWorkerPerKey, RetirementNeverRefused, JobInv,
     SenderNeverStale, Live
<1>5. WorkerInv'
  BY <1>2, <1>3 DEF IInv, WorkerInv, Live, TypeOK
<1>6. EntryInv'
  <2> SUFFICES ASSUME NEW l \in Keys PROVE EntryInv!(l)'
    BY DEF EntryInv
  <2>1. EntryInv!(l)
    BY DEF IInv, EntryInv
  <2>2. CASE l # k
    BY <1>2, <1>3, <2>1, <2>2 DEF ActiveEntry
  <2>3. CASE l = k
    <3>1. entries'[k].waiters = e.waiters \union {j}
      BY <1>2 DEF RetiringEntry, Park, IInv, TypeOK
    <3> QED
      BY <1>2, <1>3, <2>1, <2>3, <3>1
  <2> QED
    BY <2>2, <2>3
<1>7. CommandInv' /\ OneReportInv' /\ ShutdownInv'
  <2>1. OneReportInv' /\ \A i \in 1..Len(commands') : \E h \in 1..Len(commands) :
               commands'[i] = commands[h]
    BY <1>2, CommandTaken
  <2>2. \A h \in 1..Len(commands) : commands[h].type = "Retired" => commands[h].key \in Keys
    BY DEF IInv, TypeOK, Command
  <2>3. CommandInv'
    BY <1>2, <1>3, <2>1, <2>2 DEF IInv, CommandInv
  <2> QED
    BY <1>2, <2>1, <2>3 DEF ShutdownInv
<1> QED
  BY <1>1, <1>4, <1>5, <1>6, <1>7 DEF IInv

LEMMA AcquireNewStep ==
  ASSUME IInv, NEW j \in Job, AcquireNew(j)
  PROVE  IInv'
<1>1. TypeOK'
  BY TypeRegistry DEF RegistryNext
<1>2. PICK n : n = nextGeneration
  OBVIOUS
<1>3. /\ commands # <<>>
      /\ commands' = Tail(commands)
      /\ registry = "running" /\ registry' = registry
      /\ SpawnWorker(j.key)
      /\ entries' = [entries EXCEPT ![j.key] = ActiveEntry(n)]
      /\ HandOut({j}, n)
      /\ j.key \in Keys
  BY <1>2 DEF AcquireNew, Received, Job
<1>4. \A h \in Generations : Live(h) => workerKey[h] # j.key
  BY <1>3 DEF AcquireNew, IInv, WorkerInv
<1>5. /\ GenerationInv' /\ EntryInv' /\ WorkerInv' /\ OneWorkerPerKey' /\ RetirementNeverRefused'
      /\ n \in Generations
      /\ Live(n)'
      /\ workerKey'[n] = j.key
      /\ \A h \in Generations : Live(h) => Live(h)' /\ workerKey'[h] = workerKey[h]
  BY <1>2, <1>3, <1>4, SpawnStep
<1>6. JobInv' /\ SenderNeverStale'
  BY <1>3, <1>5, HandOutStep
<1>7. CommandInv'
  <2> SUFFICES ASSUME NEW i \in 1..Len(commands') PROVE CommandInv!(i)'
    BY DEF CommandInv
  <2>1. PICK h \in 1..Len(commands) : commands'[i] = commands[h]
    BY <1>3, CommandTaken
  <2>2. CommandInv!(h) /\ commands[h] \in Command
    BY DEF IInv, CommandInv, TypeOK
  <2>3. commands[h].type \in {"BeginRetirement", "Retired"} =>
          /\ commands[h].generation # n
          /\ worker'[commands[h].generation] = worker[commands[h].generation]
          /\ workerKey'[commands[h].generation] = workerKey[commands[h].generation]
    BY <1>2, <1>3, <2>2 DEF Command, SpawnWorker, IInv, TypeOK, GenerationInv, Generations
  <2>4. commands[h].type = "Retired" => commands[h].key # j.key
    BY <2>2 DEF AcquireNew
  <2> QED
    BY <1>3, <2>1, <2>2, <2>3, <2>4 DEF IInv, TypeOK, Command
<1>8. OneReportInv' /\ ShutdownInv'
  BY <1>3, CommandTaken DEF ShutdownInv
<1> QED
  BY <1>1, <1>5, <1>6, <1>7, <1>8 DEF IInv

LEMMA BeginRetirementStep ==
  ASSUME IInv, NEW k \in Keys, NEW g \in Generations, ServeBeginRetirement(k, g)
  PROVE  IInv'
<1>1. TypeOK'
  BY TypeRegistry DEF RegistryNext
<1>2. /\ commands # <<>>
      /\ Head(commands) = BeginRetirement(k, g)
      /\ commands' = Tail(commands)
      /\ registry = "running"
      /\ UNCHANGED <<registry, nextGeneration, workerKey, submitter, job, sender>>
  BY DEF ServeBeginRetirement, Received, submitterVars
\* The request meets the entry of its own generation.
<1>3. workerKey[g] = k /\ worker[g] = "asking" /\ entries[k] = ActiveEntry(g)
  <2>1. 1 \in 1..Len(commands) /\ commands[1] = BeginRetirement(k, g)
    BY <1>2, TailOfCommands DEF IInv
  <2>2. workerKey[g] = k /\ worker[g] = "asking"
    BY <2>1 DEF IInv, CommandInv, BeginRetirement
  <2>3. entries[k].generation = g /\ entries[k].state = "active"
    BY <1>2, <2>2 DEF IInv, WorkerInv, Live
  <2> QED
    BY <2>2, <2>3 DEF IInv, EntryInv
<1>4. /\ entries' = [entries EXCEPT ![k] = RetiringEntry(g, {})]
      /\ worker' = [worker EXCEPT ![g] = "granted"]
  BY <1>3 DEF ServeBeginRetirement
<1>5. /\ worker'[g] = "granted"
      /\ \A h \in Generations : h # g => worker'[h] = worker[h]
      /\ entries'[k] = RetiringEntry(g, {})
      /\ \A l \in Keys : l # k => entries'[l] = entries[l]
  BY <1>4 DEF IInv, TypeOK
<1>6. \A h \in Generations : Live(h)' <=> Live(h)
  BY <1>3, <1>5 DEF Live
<1>7. \A l \in Keys : l # k => entries[l].generation # g \/ entries[l].state = "none"
  BY <1>3 DEF IInv, EntryInv, TypeOK, Entry
<1>8. GenerationInv' /\ JobInv' /\ RetirementNeverRefused'
  BY <1>2, <1>3, <1>5 DEF IInv, GenerationInv, JobInv, RetirementNeverRefused
<1>9. OneWorkerPerKey' /\ SenderNeverStale'
  BY <1>2, <1>6 DEF IInv, OneWorkerPerKey, SenderNeverStale
<1>10. EntryInv'
  <2> SUFFICES ASSUME NEW l \in Keys PROVE EntryInv!(l)'
    BY DEF EntryInv
  <2>1. EntryInv!(l)
    BY DEF IInv, EntryInv
  <2>2. CASE l = k
    BY <1>2, <1>3, <1>5, <2>2 DEF RetiringEntry
  <2>3. CASE l # k
    BY <1>2, <1>5, <1>7, <2>1, <2>3 DEF ActiveEntry
  <2> QED
    BY <2>2, <2>3
<1>11. WorkerInv'
  <2> SUFFICES ASSUME NEW h \in Generations, Live(h)'
               PROVE  LET e == entries'[workerKey[h]]
                      IN /\ e.generation = h
                         /\ e.state = IF worker'[h] \in {"granted", "draining"}
                                      THEN "retiring" ELSE "active"
    BY <1>2 DEF WorkerInv
  <2>1. CASE h = g
    BY <1>3, <1>5, <2>1 DEF RetiringEntry
  <2>2. CASE h # g
    <3>1. Live(h) /\ workerKey[h] \in Keys
      BY <1>6 DEF IInv, TypeOK
    <3>2. workerKey[h] # k
      BY <1>2, <1>3, <2>2, <3>1 DEF IInv, WorkerInv, ActiveEntry
    <3> QED
      BY <1>2, <1>5, <2>2, <3>1, <3>2 DEF IInv, WorkerInv
  <2> QED
    BY <2>1, <2>2
<1>12. CommandInv'
  <2> SUFFICES ASSUME NEW i \in 1..Len(commands') PROVE CommandInv!(i)'
    BY DEF CommandInv
  <2>1. PICK h \in 1..Len(commands) : commands'[i] = commands[h]
    BY <1>2, CommandTaken
  <2>2. CommandInv!(h) /\ commands[h] \in Command
    BY DEF IInv, CommandInv, TypeOK
  <2>3. commands'[i].type # "Acquire" => commands'[i].generation # g
    <3>1. Head(commands).type = "BeginRetirement" /\ Head(commands).generation = g
      BY <1>2 DEF BeginRetirement
    <3> QED
      BY <1>2, <3>1, CommandTaken
  <2>4. commands[h].type = "Retired" => commands[h].key # k
    BY <1>3, <2>1, <2>2, <2>3 DEF ActiveEntry
  <2> QED
    BY <1>2, <1>5, <2>1, <2>2, <2>3, <2>4 DEF Command
<1>13. OneReportInv' /\ ShutdownInv'
  BY <1>2, CommandTaken DEF ShutdownInv
<1> QED
  BY <1>1, <1>8, <1>9, <1>10, <1>11, <1>12, <1>13 DEF IInv

LEMMA RetiredStep ==
  ASSUME IInv, NEW k \in Keys, NEW g \in Generations, ServeRetired(k, g)
  PROVE  IInv'
<1> DEFINE waiters == {j \in entries[k].waiters : Waiting(j)}
<1>1. TypeOK'
  BY TypeRegistry DEF RegistryNext
<1>2. /\ commands # <<>>
      /\ Head(commands) = Retired(k, g)
      /\ commands' = Tail(commands)
      /\ registry = "running" /\ registry' = registry
  BY DEF ServeRetired, Received
<1>3. /\ workerKey[g] = k
      /\ worker[g] = "exited"
      /\ entries[k].state = "retiring"
      /\ entries[k].generation = g
  <2>1. 1 \in 1..Len(commands) /\ commands[1] = Retired(k, g)
    BY <1>2, TailOfCommands DEF IInv
  <2> QED
    BY <2>1 DEF IInv, CommandInv, Retired
<1>4. \A h \in Generations : Live(h) => workerKey[h] # k
  BY <1>2, <1>3 DEF IInv, WorkerInv, Live
\* No other retirement message is about k: its entry would have to name two
\* generations.
<1>5. \A i \in 1..Len(commands') :
        \E h \in 1..Len(commands) :
          /\ commands'[i] = commands[h]
          /\ commands[h].type = "Retired" => commands[h].key # k
  BY <1>2, <1>3, CommandTaken DEF IInv, CommandInv, Retired
<1>6. OneReportInv' /\ ShutdownInv'
  BY <1>2, CommandTaken DEF ShutdownInv
<1>7. CASE /\ waiters = {}
           /\ entries' = [entries EXCEPT ![k] = NoEntry]
           /\ UNCHANGED <<nextGeneration, submitterVars, workerVars>>
  <2>1. /\ entries'[k] = NoEntry
        /\ \A l \in Keys : l # k => entries'[l] = entries[l]
    BY <1>7 DEF IInv, TypeOK
  <2>2. GenerationInv' /\ JobInv' /\ RetirementNeverRefused' /\ OneWorkerPerKey' /\ SenderNeverStale'
    BY <1>7 DEF IInv, GenerationInv, JobInv, RetirementNeverRefused, OneWorkerPerKey,
       SenderNeverStale, Live, submitterVars, workerVars
  <2>3. EntryInv'
    <3> SUFFICES ASSUME NEW l \in Keys PROVE EntryInv!(l)'
      BY DEF EntryInv
    <3>1. EntryInv!(l)
      BY DEF IInv, EntryInv
    <3>2. CASE l = k
      BY <2>1, <3>2 DEF NoEntry
    <3>3. CASE l # k
      BY <1>7, <2>1, <3>1, <3>3 DEF workerVars, ActiveEntry
    <3> QED
      BY <3>2, <3>3
  <2>4. WorkerInv'
    BY <1>2, <1>4, <1>7, <2>1 DEF IInv, WorkerInv, Live, workerVars, TypeOK
  <2>5. CommandInv'
    BY <1>5, <1>7, <2>1 DEF IInv, CommandInv, workerVars, TypeOK, Command
  <2> QED
    BY <1>1, <1>6, <2>2, <2>3, <2>4, <2>5 DEF IInv
<1>8. CASE /\ SpawnWorker(k)
           /\ entries' = [entries EXCEPT ![k] = ActiveEntry(nextGeneration)]
           /\ HandOut(waiters, nextGeneration)
  <2>1. PICK n : n = nextGeneration
    OBVIOUS
  <2>2. /\ GenerationInv' /\ EntryInv' /\ WorkerInv' /\ OneWorkerPerKey' /\ RetirementNeverRefused'
        /\ n \in Generations
        /\ Live(n)'
        /\ workerKey'[n] = k
        /\ \A h \in Generations : Live(h) => Live(h)' /\ workerKey'[h] = workerKey[h]
    BY <1>2, <1>4, <1>8, <2>1, SpawnStep
  <2>3. waiters \in SUBSET Job /\ \A j \in waiters : j.key = k
    BY <1>3 DEF IInv, EntryInv, TypeOK, Entry
  <2>4. JobInv' /\ SenderNeverStale'
    <3> HIDE DEF waiters
    <3> QED
      BY <1>8, <2>1, <2>2, <2>3, HandOutStep
  <2>5. CommandInv'
    <3> SUFFICES ASSUME NEW i \in 1..Len(commands') PROVE CommandInv!(i)'
      BY DEF CommandInv
    <3>1. PICK h \in 1..Len(commands) : /\ commands'[i] = commands[h]
                                        /\ commands[h].type = "Retired" => commands[h].key # k
      BY <1>5
    <3>2. CommandInv!(h) /\ commands[h] \in Command
      BY DEF IInv, CommandInv, TypeOK
    <3>3. commands[h].type \in {"BeginRetirement", "Retired"} =>
            /\ worker'[commands[h].generation] = worker[commands[h].generation]
            /\ workerKey'[commands[h].generation] = workerKey[commands[h].generation]
      BY <1>8, <3>2 DEF Command, SpawnWorker, IInv, TypeOK, GenerationInv, Generations
    <3> QED
      BY <1>8, <3>1, <3>2, <3>3 DEF IInv, TypeOK, Command
  <2> QED
    BY <1>1, <1>6, <2>2, <2>4, <2>5 DEF IInv
<1> QED
  BY <1>3, <1>7, <1>8 DEF ServeRetired

LEMMA RegistryStep == ASSUME IInv, RegistryNext PROVE IInv'
<1>1. CASE RegistryStops
  <2>1. TypeOK'
    BY TypeRegistry
  <2>2. /\ registry' = "stopped"
        /\ ~RegistryHeld
        /\ commands = <<>> /\ commands' = commands
        /\ \A k \in Keys : entries'[k] = NoEntry
        /\ UNCHANGED <<nextGeneration, submitter, job, sender, worker, workerKey>>
    BY <1>1 DEF RegistryStops, submitterVars, workerVars
  <2>3. GenerationInv' /\ JobInv' /\ RetirementNeverRefused' /\ OneWorkerPerKey' /\ SenderNeverStale'
    BY <2>2 DEF IInv, GenerationInv, JobInv, RetirementNeverRefused, OneWorkerPerKey,
       SenderNeverStale, Live
  <2>4. EntryInv' /\ WorkerInv'
    BY <2>2 DEF EntryInv, WorkerInv, NoEntry
  <2>5. CommandInv' /\ OneReportInv'
    BY <2>2 DEF CommandInv, OneReportInv
  <2>6. ShutdownInv'
    BY <2>2 DEF ShutdownInv, RegistryHeld
  <2> QED
    BY <2>1, <2>3, <2>4, <2>5, <2>6 DEF IInv
<1> QED
  BY <1>1, AcquireActiveStep, AcquireRetiringStep, AcquireNewStep, BeginRetirementStep,
     RetiredStep DEF RegistryNext

-----------------------------------------------------------------------------
(* Steps of a worker *)

\* A worker's own change of state that keeps it live on the same side of
\* retirement disturbs nothing the registry knows.
LEMMA WorkerMoves ==
  ASSUME IInv, NEW g \in Generations, NEW to \in WorkerStates,
         TypeOK',
         worker' = [worker EXCEPT ![g] = to],
         \/ worker[g] = "serving" /\ to = "expired"
         \/ worker[g] = "expired" /\ to \in {"asking", "orphaned"}
         \/ worker[g] = "granted" /\ to = "draining",
         UNCHANGED <<registry, entries, nextGeneration, submitterVars, workerKey>>
  PROVE  /\ GenerationInv' /\ EntryInv' /\ WorkerInv' /\ JobInv'
         /\ OneWorkerPerKey' /\ SenderNeverStale' /\ RetirementNeverRefused'
<1>1. /\ worker'[g] = to
      /\ \A h \in Generations : h # g => worker'[h] = worker[h]
  BY DEF IInv, TypeOK
<1>2. \A h \in Generations : Live(h)' <=> Live(h)
  BY <1>1 DEF Live
<1>3. GenerationInv' /\ JobInv' /\ RetirementNeverRefused'
  BY <1>1 DEF IInv, GenerationInv, JobInv, RetirementNeverRefused, submitterVars
<1>4. OneWorkerPerKey' /\ SenderNeverStale'
  BY <1>2 DEF IInv, OneWorkerPerKey, SenderNeverStale, submitterVars
<1>5. WorkerInv'
  BY <1>1, <1>2 DEF IInv, WorkerInv
<1>6. EntryInv'
  <2> SUFFICES ASSUME NEW l \in Keys PROVE EntryInv!(l)'
    BY DEF EntryInv
  <2>1. EntryInv!(l)
    BY DEF IInv, EntryInv
  <2> QED
    BY <1>1, <2>1 DEF ActiveEntry
<1> QED
  BY <1>3, <1>4, <1>5, <1>6

\* A registry that has stopped stays so: no worker can upgrade its weak sender.
LEMMA StoppedStays ==
  ASSUME IInv, UNCHANGED <<registry, entries, submitter>>,
         registry = "stopped" => commands' = commands,
         \A h \in Generations : worker'[h] \in {"asking", "granted", "draining"} =>
           worker[h] \in {"asking", "granted", "draining"} \/ RegistryHeld
  PROVE  ShutdownInv'
BY DEF IInv, ShutdownInv, RegistryHeld

LEMMA WorkerStep ==
  ASSUME IInv, NEW g \in Generations, WorkerNext(g)
  PROVE  IInv'
<1>1. TypeOK'
  BY TypeWorker
<1>2. CASE StartJob(g) \/ FinishJob(g)
  <2>1. UNCHANGED <<commands, registry, entries, nextGeneration, submitter, job, sender,
                    worker, workerKey>>
    BY <1>2 DEF StartJob, FinishJob, registryVars, submitterVars
  <2> QED
    BY <1>1, <2>1 DEF IInv, GenerationInv, EntryInv, WorkerInv, CommandInv, OneReportInv,
       ShutdownInv, JobInv, OneWorkerPerKey, SenderNeverStale, RetirementNeverRefused, Live,
       RegistryHeld
<1>3. CASE IdleTimeout(g) \/ Orphan(g) \/ ReadReply(g)
  <2>1. PICK to \in WorkerStates :
          /\ worker' = [worker EXCEPT ![g] = to]
          /\ \/ worker[g] = "serving" /\ to = "expired"
             \/ worker[g] = "expired" /\ to = "orphaned"
             \/ worker[g] = "granted" /\ to = "draining"
    BY <1>3 DEF IdleTimeout, Orphan, ReadReply, IInv, RetirementNeverRefused, WorkerStates
  <2>2. UNCHANGED <<commands, registry, entries, nextGeneration, submitterVars, workerKey>>
    BY <1>3 DEF IdleTimeout, Orphan, ReadReply, registryVars
  <2>3. /\ GenerationInv' /\ EntryInv' /\ WorkerInv' /\ JobInv'
        /\ OneWorkerPerKey' /\ SenderNeverStale' /\ RetirementNeverRefused'
    BY <1>1, <2>1, <2>2, WorkerMoves
  <2>4. \A h \in Generations : /\ worker[h] \in {"asking", "exited"} => worker'[h] = worker[h]
                               /\ worker'[h] \in {"asking", "granted", "draining"} =>
                                   worker[h] \in {"asking", "granted", "draining"}
    BY <2>1 DEF IInv, TypeOK
  <2>5. CommandInv' /\ OneReportInv'
    <3>1. \A i \in 1..Len(commands) : commands[i] \in Command
      BY DEF IInv, TypeOK
    <3> QED
      BY <2>2, <2>4, <3>1 DEF IInv, CommandInv, OneReportInv, Command
  <2>6. ShutdownInv'
    BY <2>2, <2>4, StoppedStays DEF submitterVars
  <2> QED
    BY <1>1, <2>3, <2>5, <2>6 DEF IInv
<1>4. CASE RequestRetirement(g)
  <2> DEFINE c == BeginRetirement(workerKey[g], g)
  <2>1. /\ worker[g] = "expired"
        /\ RegistryHeld
        /\ worker' = [worker EXCEPT ![g] = "asking"]
        /\ commands' = Append(commands, c)
        /\ UNCHANGED <<registry, entries, nextGeneration, submitterVars, workerKey>>
    BY <1>4 DEF RequestRetirement
  <2>2. /\ GenerationInv' /\ EntryInv' /\ WorkerInv' /\ JobInv'
        /\ OneWorkerPerKey' /\ SenderNeverStale' /\ RetirementNeverRefused'
    BY <1>1, <2>1, WorkerMoves DEF WorkerStates
  <2>3. c \in Command /\ c.type = "BeginRetirement" /\ c.key = workerKey[g] /\ c.generation = g
    BY CommandTypes DEF IInv, TypeOK, BeginRetirement
  <2>4. /\ Len(commands') = Len(commands) + 1
        /\ commands'[Len(commands')] = c
        /\ \A i \in 1..Len(commands) : commands'[i] = commands[i]
        /\ \A i \in 1..Len(commands') : i = Len(commands') \/ i \in 1..Len(commands)
    BY <2>1, <2>3, AppendToCommands DEF IInv
  <2>5. \A i \in 1..Len(commands) : /\ commands[i] \in Command
                                    /\ commands[i].type # "Acquire" => commands[i].generation # g
    <3> SUFFICES ASSUME NEW i \in 1..Len(commands), commands[i].type # "Acquire"
                 PROVE  commands[i].generation # g
      BY DEF IInv, TypeOK
    <3>1. commands[i] \in Command /\ CommandInv!(i)
      BY DEF IInv, TypeOK, CommandInv
    <3> QED
      BY <2>1, <3>1 DEF Command
  <2>6. CommandInv'
    <3> SUFFICES ASSUME NEW i \in 1..Len(commands') PROVE CommandInv!(i)'
      BY DEF CommandInv
    <3>1. CASE i = Len(commands')
      BY <2>1, <2>3, <2>4, <3>1 DEF IInv, TypeOK
    <3>2. CASE i \in 1..Len(commands)
      BY <2>1, <2>4, <2>5, <3>2 DEF IInv, TypeOK, CommandInv, Command
    <3> QED
      BY <2>4, <3>1, <3>2
  <2>7. OneReportInv'
    BY <2>3, <2>4, <2>5 DEF IInv, OneReportInv
  <2>8. ShutdownInv'
    BY <2>1 DEF IInv, ShutdownInv, RegistryHeld
  <2> QED
    BY <1>1, <2>2, <2>6, <2>7, <2>8 DEF IInv
<1>5. CASE WorkerExits(g)
  <2> DEFINE k == workerKey[g]
             c == Retired(k, g)
  <2>1. /\ worker[g] \in {"serving", "draining", "orphaned"}
        /\ ~HasSender(g)
        /\ worker' = [worker EXCEPT ![g] = "exited"]
        /\ UNCHANGED <<registry, entries, nextGeneration, submitter, job, sender, workerKey>>
        /\ k \in Keys
    BY <1>5 DEF WorkerExits, ReceiverClosed, submitterVars, IInv, TypeOK
  <2>2. /\ worker'[g] = "exited"
        /\ \A h \in Generations : h # g => worker'[h] = worker[h]
    BY <2>1 DEF IInv, TypeOK
  <2>3. \A h \in Generations : Live(h)' <=> (Live(h) /\ h # g)
    BY <2>2 DEF Live
  \* Only a draining worker can find its channel closed while the registry runs.
  <2>4. registry = "running" => worker[g] = "draining"
    BY <2>1 DEF HasSender, IInv, WorkerInv, EntryInv, Live
  <2>5. worker[g] = "draining" => /\ registry = "running"
                                 /\ entries[k].state = "retiring"
                                 /\ entries[k].generation = g
    BY <2>1 DEF IInv, ShutdownInv, RegistryHeld, WorkerInv, Live, TypeOK
  <2>6. GenerationInv' /\ JobInv' /\ RetirementNeverRefused'
    BY <2>1, <2>2 DEF IInv, GenerationInv, JobInv, RetirementNeverRefused
  <2>7. OneWorkerPerKey' /\ SenderNeverStale'
    BY <2>1, <2>3 DEF IInv, OneWorkerPerKey, SenderNeverStale, HasSender
  <2>8. WorkerInv'
    BY <2>1, <2>2, <2>3 DEF IInv, WorkerInv
  <2>9. EntryInv'
    <3> SUFFICES ASSUME NEW l \in Keys PROVE EntryInv!(l)'
      BY DEF EntryInv
    <3>1. EntryInv!(l)
      BY DEF IInv, EntryInv
    <3>2. entries[l].state = "active" => entries[l].generation # g
      BY <2>1, <3>1 DEF HasSender
    <3> QED
      BY <2>1, <2>2, <3>1, <3>2 DEF ActiveEntry
  <2>10. \A i \in 1..Len(commands) : /\ commands[i] \in Command
                                     /\ commands[i].type # "Acquire" => commands[i].generation # g
    <3> SUFFICES ASSUME NEW i \in 1..Len(commands), commands[i].type # "Acquire"
                 PROVE  commands[i].generation # g
      BY DEF IInv, TypeOK
    <3>1. commands[i] \in Command /\ CommandInv!(i)
      BY DEF IInv, TypeOK, CommandInv
    <3> QED
      BY <2>1, <3>1 DEF Command
  <2>11. CASE worker[g] # "draining"
    <3>1. commands' = commands
      BY <1>5, <2>11 DEF WorkerExits, Report
    <3>2. CommandInv' /\ OneReportInv'
      BY <2>1, <2>2, <2>10, <3>1 DEF IInv, CommandInv, OneReportInv, Command
    <3>3. ShutdownInv'
      BY <2>1, <2>2, <3>1, StoppedStays
    <3> QED
      BY <1>1, <2>6, <2>7, <2>8, <2>9, <3>2, <3>3 DEF IInv
  <2>12. CASE worker[g] = "draining"
    <3>1. commands' = Append(commands, c)
      BY <1>5, <2>12 DEF WorkerExits, Report
    <3>2. c \in Command /\ c.type = "Retired" /\ c.key = k /\ c.generation = g
      BY <2>1, CommandTypes DEF Retired
    <3>3. /\ Len(commands') = Len(commands) + 1
          /\ commands'[Len(commands')] = c
          /\ \A i \in 1..Len(commands) : commands'[i] = commands[i]
          /\ \A i \in 1..Len(commands') : i = Len(commands') \/ i \in 1..Len(commands)
      BY <3>1, <3>2, AppendToCommands DEF IInv
    <3>4. CommandInv'
      <4> SUFFICES ASSUME NEW i \in 1..Len(commands') PROVE CommandInv!(i)'
        BY DEF CommandInv
      <4>1. CASE i = Len(commands')
        BY <2>1, <2>2, <2>5, <2>12, <3>2, <3>3, <4>1
      <4>2. CASE i \in 1..Len(commands)
        BY <2>1, <2>2, <2>10, <3>3, <4>2 DEF IInv, CommandInv, Command
      <4> QED
        BY <3>3, <4>1, <4>2
    <3>5. OneReportInv'
      BY <2>10, <3>2, <3>3 DEF IInv, OneReportInv
    <3>6. ShutdownInv'
      BY <2>1, <2>5, <2>12 DEF ShutdownInv
    <3> QED
      BY <1>1, <2>6, <2>7, <2>8, <2>9, <3>4, <3>5, <3>6 DEF IInv
  <2> QED
    BY <2>11, <2>12
<1> QED
  BY <1>2, <1>3, <1>4, <1>5 DEF WorkerNext

-----------------------------------------------------------------------------
(* Theorems *)

LEMMA InvStutters == ASSUME IInv, UNCHANGED vars PROVE IInv'
BY DEF vars, registryVars, submitterVars, workerVars, IInv, TypeOK, GenerationInv, EntryInv,
   WorkerInv, CommandInv, OneReportInv, ShutdownInv, JobInv, OneWorkerPerKey, SenderNeverStale,
   RetirementNeverRefused, Live, RegistryHeld

\* The invariant that ties entries, workers and commands in flight together
\* holds in every state of the partitioner (core.rs:371-522).
THEOREM Invariance == SafeSpec => []IInv
<1>1. IInv /\ [Next]_vars => IInv'
  BY SubmitterStep, RegistryStep, WorkerStep, InvStutters DEF Next
<1> QED
  BY <1>1, InvInit, PTL DEF SafeSpec

\* Every variable keeps its type, and no channel exceeds its capacity.
THEOREM TypeCorrect == SafeSpec => []TypeOK
BY Invariance, PTL DEF IInv

\* For any keys, routes and capacity, two workers never serve one key.
THEOREM MutualExclusion == SafeSpec => []OneWorkerPerKey
BY Invariance, PTL DEF IInv

\* A sender handed out by the registry always leads to a live worker of the
\* right key, so submit_task's retry (core.rs:358) is never needed.
THEOREM NeverStale == SafeSpec => []SenderNeverStale
BY Invariance, PTL DEF IInv

\* The registry never refuses the retirement of a live worker.
THEOREM NeverRefused == SafeSpec => []RetirementNeverRefused
BY Invariance, PTL DEF IInv

-----------------------------------------------------------------------------
(* Every acquisition is answered, every job keeps its place: what comes on   *)
(* top of IInv for AcquisitionNotLost and for the refinement.                *)

Mailbox == {commands[i] : i \in 1..Len(commands)}

\* A submitter that waits is in the mailbox or parked.
AnswerInv == \A r \in Submitters : submitter[r] = "acquiring" =>
  \/ Acquire(job[r]) \in Mailbox
  \/ entries[job[r].key].state = "retiring" /\ job[r] \in entries[job[r].key].waiters

\* A retirement that was granted is reported, or will be.
ReportInv == \A k \in Keys : entries[k].state = "retiring" =>
  \/ worker[entries[k].generation] \in {"granted", "draining"}
  \/ Retired(k, entries[k].generation) \in Mailbox

\* Nothing is left in the hands of a worker that has ended.
EmptyInv == \A g \in Generations : ~Live(g) => channel[g] = <<>> /\ running[g] = NoJob

\* A job a worker, or the history, knows of was submitted no later than its
\* submitter's last one; that one is known only after it was sent.
Earlier(j, r) == /\ job[r] # NoJob
                 /\ j.n <= job[r].n
                 /\ submitter[r] \in {"acquiring", "sending"} => j.n < job[r].n

Known(j) == \/ \E g \in Generations : \E i \in 1..Len(channel[g]) : channel[g][i] = j
            \/ \E g \in Generations : running[g] = j
            \/ j \in completed

NumberInv == \A j \in Job : Known(j) => Earlier(j, j.by)

SerialInv == IInv /\ AnswerInv /\ ReportInv /\ EmptyInv /\ NumberInv

LEMMA MailboxGrows ==
  ASSUME TypeOK, NEW c \in Command, commands' = Append(commands, c)
  PROVE  Mailbox' = Mailbox \union {c}
<1>1. /\ Len(commands') = Len(commands) + 1
      /\ commands'[Len(commands')] = c
      /\ \A i \in 1..Len(commands) : commands'[i] = commands[i]
      /\ \A i \in 1..Len(commands') : i = Len(commands') \/ i \in 1..Len(commands)
  BY AppendToCommands
<1>2. Len(commands) \in Nat
  BY DEF TypeOK
<1> QED
  BY <1>1, <1>2 DEF Mailbox

LEMMA MailboxShrinks ==
  ASSUME TypeOK, commands # <<>>, commands' = Tail(commands)
  PROVE  Mailbox \subseteq Mailbox' \union {Head(commands)}
<1>1. /\ Len(commands) \in Nat
      /\ Len(commands') = Len(commands) - 1
      /\ Head(commands) = commands[1]
      /\ \A i \in 1..Len(commands') : commands'[i] = commands[i + 1]
  BY DEF TypeOK
<1>2. ASSUME NEW i \in 1..Len(commands), i # 1 PROVE commands[i] \in Mailbox'
  <2>1. i - 1 \in 1..Len(commands') /\ commands'[i - 1] = commands[i]
    BY <1>1, <1>2
  <2> QED
    BY <2>1 DEF Mailbox
<1> QED
  BY <1>1, <1>2 DEF Mailbox

\* Commands of different kinds, and acquisitions of different jobs, differ.
LEMMA CommandsDiffer ==
  ASSUME NEW j, NEW i, NEW k, NEW l, NEW g, NEW h
  PROVE  /\ Acquire(j) = Acquire(i) => j = i
         /\ Retired(k, g) = Retired(l, h) => k = l /\ g = h
         /\ Acquire(j) # Retired(k, g)
         /\ Acquire(j) # BeginRetirement(k, g)
         /\ Retired(k, g) # BeginRetirement(l, h)
<1>1. /\ Acquire(j).type = "Acquire" /\ Acquire(j).job = j /\ Acquire(i).job = i
      /\ Retired(k, g).type = "Retired" /\ Retired(k, g).key = k
      /\ Retired(k, g).generation = g
      /\ Retired(l, h).key = l /\ Retired(l, h).generation = h
      /\ BeginRetirement(k, g).type = "BeginRetirement"
      /\ BeginRetirement(l, h).type = "BeginRetirement"
  BY DEF Acquire, Retired, BeginRetirement
<1> QED
  BY <1>1

\* No job changes its place, and nobody starts over.
LEMMA NumbersKept ==
  ASSUME NumberInv, UNCHANGED <<job, channel, running, completed>>,
         \A r \in Submitters : submitter'[r] \in {"acquiring", "sending"} =>
                                 submitter[r] \in {"acquiring", "sending"}
  PROVE  NumberInv'
BY DEF NumberInv, Known, Earlier, Job

LEMMA InitSerial == Init => SerialInv
<1> SUFFICES ASSUME Init PROVE SerialInv
  OBVIOUS
<1>1. AnswerInv /\ ReportInv /\ EmptyInv
  BY DEF Init, AnswerInv, ReportInv, EmptyInv, NoEntry
<1>2. NumberInv
  BY NoJobAssumption DEF Init, NumberInv, Known
<1> QED
  BY <1>1, <1>2, InvInit DEF SerialInv

LEMMA SubmitterSerial ==
  ASSUME SerialInv, NEW r \in Submitters, SubmitterNext(r)
  PROVE  SerialInv'
<1>0. IInv /\ TypeOK /\ JobInv /\ AnswerInv /\ ReportInv /\ EmptyInv /\ NumberInv
  BY DEF SerialInv, IInv
<1>i. IInv'
  BY <1>0, SubmitterStep
<1>1. UNCHANGED <<registry, entries, worker, running, completed>>
  BY <1>0, Sending
  DEF SubmitterNext, Submit, Send, Cancel, DropHandle, registryVars, workerVars
<1>2. ASSUME NEW k \in Keys, Submit(r, k) PROVE SerialInv'
  <2> DEFINE n == IF job[r] = NoJob THEN 1 ELSE job[r].n + 1
             j == [by |-> r, n |-> n, key |-> k]
  <2>1. /\ j \in Job /\ j.by = r /\ j.n = n
        /\ submitter[r] = "idle"
        /\ commands' = Append(commands, Acquire(j))
        /\ job' = [job EXCEPT ![r] = j]
        /\ submitter' = [submitter EXCEPT ![r] = "acquiring"]
        /\ UNCHANGED channel
    BY <1>0, <1>2 DEF Submit, TypeOK, Job, workerVars
  <2> HIDE DEF j
  <2>2. Mailbox' = Mailbox \union {Acquire(j)}
    BY <1>0, <2>1, MailboxGrows, CommandTypes
  <2>3. \A s \in Submitters : /\ job'[s] = IF s = r THEN j ELSE job[s]
                              /\ submitter'[s] = IF s = r THEN "acquiring" ELSE submitter[s]
    BY <1>0, <2>1 DEF TypeOK
  <2>4. AnswerInv'
    BY <1>0, <1>1, <2>2, <2>3 DEF AnswerInv
  <2>5. ReportInv'
    BY <1>0, <1>1, <2>2 DEF ReportInv
  <2>6. EmptyInv'
    BY <1>0, <1>1, <2>1 DEF EmptyInv, Live
  <2>7. ASSUME NEW i \in Job, NEW s \in Submitters, Earlier(i, s) PROVE Earlier(i, s)'
    <3>1. CASE s = r
      <4>1. job[r] \in Job /\ j.n = job[r].n + 1 /\ i.n <= job[r].n
        BY <1>0, <2>1, <2>7, <3>1 DEF Earlier, TypeOK, Job
      <4>2. job'[r] = j /\ j # NoJob /\ i.n < j.n /\ i.n <= j.n
        BY <2>1, <2>3, <4>1, NoJobAssumption DEF Job
      <4> QED
        BY <3>1, <4>2 DEF Earlier
    <3>2. CASE s # r
      BY <2>3, <2>7, <3>2 DEF Earlier
    <3> QED
      BY <3>1, <3>2
  <2>8. NumberInv'
    BY <1>0, <1>1, <2>1, <2>7 DEF NumberInv, Known, Job
  <2> QED
    BY <1>i, <2>4, <2>5, <2>6, <2>8 DEF SerialInv
<1>3. CASE Send(r)
  <2> DEFINE g == sender[r]
  <2>1. /\ job[r] \in Job /\ job[r].by = r
        /\ g \in Generations /\ Live(g)
        /\ submitter[r] = "sending"
    BY <1>0, <1>3, Sending DEF Send, Live
  <2>2. /\ channel' = [channel EXCEPT ![g] = Append(@, job[r])]
        /\ submitter' = [submitter EXCEPT ![r] = "idle"]
        /\ UNCHANGED <<commands, job>>
    BY <1>3, <2>1 DEF Send, Live
  <2>3. \A s \in Submitters : submitter'[s] = IF s = r THEN "idle" ELSE submitter[s]
    BY <1>0, <2>2 DEF TypeOK
  <2>4. AnswerInv'
    BY <1>0, <1>1, <2>2, <2>3 DEF AnswerInv, Mailbox
  <2>5. ReportInv'
    BY <1>0, <1>1, <2>2 DEF ReportInv, Mailbox
  <2>6. EmptyInv'
    BY <1>0, <1>1, <2>1, <2>2 DEF EmptyInv, Live, TypeOK
  <2>7. \A s \in Submitters, i \in Job : Earlier(i, s) => Earlier(i, s)'
    BY <2>2, <2>3 DEF Earlier
  <2>8. ASSUME NEW j \in Job, j = job[r] PROVE Earlier(j, j.by)'
    BY <1>0, <2>1, <2>2, <2>3, <2>8, NoJobAssumption DEF Earlier, Job
  <2>9. ASSUME NEW j \in Job, Known(j)'
        PROVE  Known(j) \/ j = job[r]
    <3>1. ASSUME NEW h \in Generations, NEW i \in 1..Len(channel'[h]), channel'[h][i] = j
          PROVE  (i \in 1..Len(channel[h]) /\ channel[h][i] = j) \/ j = job[r]
      BY <1>0, <2>1, <2>2, <3>1 DEF TypeOK
    <3> QED
      BY <1>1, <2>9, <3>1 DEF Known
  <2>10. NumberInv'
    BY <1>0, <2>7, <2>8, <2>9 DEF NumberInv, Job
  <2> QED
    BY <1>i, <2>4, <2>5, <2>6, <2>10 DEF SerialInv
<1>4. CASE Cancel(r) \/ DropHandle(r)
  <2>1. /\ UNCHANGED <<commands, job, channel>>
        /\ \A s \in Submitters : submitter'[s] \in {"acquiring", "sending"} =>
                                   submitter'[s] = submitter[s]
    BY <1>0, <1>4 DEF Cancel, DropHandle, registryVars, workerVars, TypeOK
  <2>2. AnswerInv'
    BY <1>0, <1>1, <2>1 DEF AnswerInv, Mailbox
  <2>3. ReportInv'
    BY <1>0, <1>1, <2>1 DEF ReportInv, Mailbox
  <2>4. EmptyInv'
    BY <1>0, <1>1, <2>1 DEF EmptyInv, Live
  <2>5. NumberInv'
    BY <1>0, <1>1, <2>1, NumbersKept
  <2> QED
    BY <1>i, <2>2, <2>3, <2>4, <2>5 DEF SerialInv
<1> QED
  BY <1>2, <1>3, <1>4 DEF SubmitterNext

\* What all of the registry's answers leave alone: channels and jobs, and who
\* is handed a sender was waiting for it.
LEMMA HandedOut ==
  ASSUME SerialInv, NEW js \in SUBSET Job, NEW g, HandOut(js, g)
  PROVE  /\ UNCHANGED job
         /\ \A r \in Submitters : submitter'[r] \in {"acquiring", "sending"} =>
                                    submitter[r] \in {"acquiring", "sending"}
         /\ \A r \in Submitters : submitter'[r] = "acquiring" =>
                                    submitter[r] = "acquiring" /\ job[r] \notin js
<1>1. \A r \in Submitters : /\ submitter[r] = "acquiring" => job[r] # NoJob
                            /\ job[r] # NoJob => job[r].by = r
  BY DEF SerialInv, IInv, JobInv
<1>2. \A r \in Submitters : r \in Answered(js) <=> job[r] \in js /\ Waiting(job[r])
  BY DEF Answered
<1>3. \A r \in Submitters : submitter[r] = "acquiring" => Waiting(job[r])
  BY <1>1 DEF Waiting
<1>4. \A r \in Submitters : r \in Answered(js) => submitter[r] = "acquiring"
  <2> SUFFICES ASSUME NEW r \in Submitters, r \in Answered(js)
               PROVE  submitter[r] = "acquiring"
    OBVIOUS
  <2>1. Waiting(job[r])
    BY <1>2
  <2>2. job[r] # NoJob
    BY <1>2, NoJobAssumption
  <2> QED
    BY <1>1, <2>1, <2>2 DEF Waiting
<1> QED
  BY <1>2, <1>3, <1>4 DEF HandOut

\* A new worker takes over nothing.
LEMMA SpawnEmpty ==
  ASSUME SerialInv, NEW k \in Keys, SpawnWorker(k)
  PROVE  /\ EmptyInv'
         /\ \A g \in Generations : worker[g] \in {"granted", "draining"} => worker'[g] = worker[g]
<1>0. TypeOK /\ GenerationInv /\ EmptyInv
  BY DEF SerialInv, IInv
<1>1. /\ nextGeneration \in Generations
      /\ worker[nextGeneration] = "unborn"
      /\ \A g \in Generations : worker'[g] = IF g = nextGeneration THEN "serving" ELSE worker[g]
      /\ UNCHANGED <<channel, running>>
  <2>1. nextGeneration \in Generations
    BY <1>0, TypeSpawn
  <2>2. worker[nextGeneration] = "unborn"
    BY <1>0, <2>1 DEF GenerationInv, Generations
  <2> QED
    BY <1>0, <2>1, <2>2 DEF TypeOK, SpawnWorker
<1> QED
  BY <1>0, <1>1 DEF EmptyInv, Live

LEMMA AcquireSerial ==
  ASSUME SerialInv, NEW j \in Job, AcquireActive(j) \/ AcquireRetiring(j) \/ AcquireNew(j)
  PROVE  AnswerInv' /\ ReportInv' /\ EmptyInv' /\ NumberInv'
<1>0. /\ TypeOK /\ EntryInv /\ AnswerInv /\ ReportInv /\ EmptyInv /\ NumberInv
      /\ j.key \in Keys
  BY DEF SerialInv, IInv, Job
<1>1. /\ commands # <<>>
      /\ commands' = Tail(commands)
      /\ Head(commands) = Acquire(j)
      /\ UNCHANGED <<channel, running, completed>>
  BY DEF AcquireActive, AcquireRetiring, AcquireNew, Received, SpawnWorker, workerVars
<1>2. Mailbox \subseteq Mailbox' \union {Acquire(j)}
  BY <1>0, <1>1, MailboxShrinks
<1>3. CASE AcquireRetiring(j)
  <2> DEFINE e == entries[j.key]
  <2>1. /\ entries[j.key].state = "retiring"
        /\ UNCHANGED <<submitter, job, worker>>
        /\ entries' = [entries EXCEPT ![j.key] = RetiringEntry(e.generation, Park(e.waiters, j))]
    BY <1>3 DEF AcquireRetiring, submitterVars, workerVars
  <2>2. /\ entries'[j.key] = RetiringEntry(e.generation, Park(e.waiters, j))
        /\ \A k \in Keys : k # j.key => entries'[k] = entries[k]
    BY <1>0, <2>1 DEF TypeOK
  <2>3. /\ \A k \in Keys : /\ entries'[k].state = entries[k].state
                           /\ entries'[k].generation = entries[k].generation
                           /\ entries[k].waiters \subseteq entries'[k].waiters
        /\ j \in entries'[j.key].waiters
    BY <1>0, <2>1, <2>2 DEF RetiringEntry, Park
  <2>4. AnswerInv'
    <3> SUFFICES ASSUME NEW r \in Submitters, submitter[r] = "acquiring"
                 PROVE  AnswerInv!(r)'
      BY <2>1 DEF AnswerInv
    <3>1. job[r] \in Job /\ job[r].key \in Keys
      BY DEF SerialInv, IInv, JobInv, TypeOK, Job
    <3>2. CASE job[r] = j
      BY <2>1, <2>3, <3>1, <3>2
    <3>3. CASE Acquire(job[r]) \in Mailbox /\ job[r] # j
      BY <1>2, <2>1, <3>3, CommandsDiffer
    <3>4. CASE entries[job[r].key].state = "retiring" /\ job[r] \in entries[job[r].key].waiters
      BY <2>1, <2>3, <3>1, <3>4
    <3> QED
      BY <1>0, <3>2, <3>3, <3>4 DEF AnswerInv
  <2>5. ReportInv'
    BY <1>0, <1>2, <2>1, <2>3, CommandsDiffer DEF ReportInv
  <2>6. EmptyInv'
    BY <1>0, <1>1, <2>1 DEF EmptyInv, Live
  <2>7. NumberInv'
    BY <1>0, <1>1, <2>1, NumbersKept
  <2> QED
    BY <2>4, <2>5, <2>6, <2>7
<1>4. CASE AcquireActive(j) \/ AcquireNew(j)
  <2>1. PICK g : HandOut({j}, g)
    BY <1>4 DEF AcquireActive, AcquireNew
  <2>2. /\ UNCHANGED job
        /\ \A r \in Submitters : submitter'[r] \in {"acquiring", "sending"} =>
                                   submitter[r] \in {"acquiring", "sending"}
        /\ \A r \in Submitters : submitter'[r] = "acquiring" =>
                                   submitter[r] = "acquiring" /\ job[r] # j
    BY <2>1, HandedOut
  <2>3. \A k \in Keys : /\ entries[k].state = "retiring" => entries'[k] = entries[k]
                        /\ entries'[k].state = "retiring" => entries[k].state = "retiring"
    <3>1. CASE AcquireActive(j)
      BY <3>1 DEF AcquireActive
    <3>2. CASE AcquireNew(j)
      BY <1>0, <3>2 DEF AcquireNew, ActiveEntry, TypeOK
    <3> QED
      BY <1>4, <3>1, <3>2
  <2>4. /\ EmptyInv'
        /\ \A h \in Generations : worker[h] \in {"granted", "draining"} => worker'[h] = worker[h]
    <3>1. CASE AcquireActive(j)
      BY <1>0, <3>1 DEF AcquireActive, workerVars, EmptyInv, Live
    <3>2. CASE AcquireNew(j)
      BY <1>0, <3>2, SpawnEmpty DEF AcquireNew
    <3> QED
      BY <1>4, <3>1, <3>2
  <2>5. AnswerInv'
    <3> SUFFICES ASSUME NEW r \in Submitters, submitter'[r] = "acquiring"
                 PROVE  AnswerInv!(r)'
      BY DEF AnswerInv
    <3>1. submitter[r] = "acquiring" /\ job[r] # j /\ job'[r] = job[r]
      BY <2>2
    <3>2. job[r] \in Job /\ job[r].key \in Keys
      BY <3>1 DEF SerialInv, IInv, JobInv, TypeOK, Job
    <3>3. CASE Acquire(job[r]) \in Mailbox
      BY <1>2, <3>1, <3>3, CommandsDiffer
    <3>4. CASE entries[job[r].key].state = "retiring" /\ job[r] \in entries[job[r].key].waiters
      BY <2>3, <3>1, <3>2, <3>4
    <3> QED
      BY <1>0, <3>1, <3>3, <3>4 DEF AnswerInv
  <2>6. ReportInv'
    <3> SUFFICES ASSUME NEW k \in Keys, entries'[k].state = "retiring"
                 PROVE  ReportInv!(k)'
      BY DEF ReportInv
    <3>1. entries'[k] = entries[k] /\ entries[k].state = "retiring"
      BY <2>3
    <3>2. entries[k].generation \in Generations
      BY <1>0, <3>1 DEF EntryInv
    <3> QED
      BY <1>0, <1>2, <2>4, <3>1, <3>2, CommandsDiffer DEF ReportInv
  <2>7. NumberInv'
    BY <1>0, <1>1, <2>2, NumbersKept
  <2> QED
    BY <2>4, <2>5, <2>6, <2>7
<1> QED
  BY <1>3, <1>4

LEMMA BeginRetirementSerial ==
  ASSUME SerialInv, NEW k \in Keys, NEW g \in Generations, ServeBeginRetirement(k, g)
  PROVE  AnswerInv' /\ ReportInv' /\ EmptyInv' /\ NumberInv'
<1>0. TypeOK /\ EntryInv /\ CommandInv /\ AnswerInv /\ ReportInv /\ EmptyInv /\ NumberInv
  BY DEF SerialInv, IInv
<1>1. /\ commands # <<>>
      /\ commands' = Tail(commands)
      /\ Head(commands) = BeginRetirement(k, g)
      /\ UNCHANGED <<channel, running, completed, submitter, job>>
  BY DEF ServeBeginRetirement, Received, submitterVars
<1>2. Mailbox \subseteq Mailbox' \union {BeginRetirement(k, g)}
  BY <1>0, <1>1, MailboxShrinks
<1>3. worker[g] = "asking"
  <2>1. 1 \in 1..Len(commands) /\ commands[1] = BeginRetirement(k, g)
    BY <1>0, <1>1 DEF TypeOK
  <2> QED
    BY <1>0, <2>1 DEF CommandInv, BeginRetirement
<1>4. /\ worker'[g] \in {"granted", "refused"}
      /\ \A h \in Generations : h # g => worker'[h] = worker[h]
      /\ \A l \in Keys : entries[l].state = "retiring" => entries'[l] = entries[l]
      /\ \A l \in Keys : entries'[l].state = "retiring" =>
           \/ entries'[l] = entries[l]
           \/ entries'[l].generation = g /\ worker'[g] = "granted"
  <2>1. CASE entries[k] = ActiveEntry(g)
    BY <1>0, <2>1 DEF ServeBeginRetirement, ActiveEntry, RetiringEntry, TypeOK
  <2>2. CASE entries[k] # ActiveEntry(g)
    BY <1>0, <2>2 DEF ServeBeginRetirement, TypeOK
  <2> QED
    BY <2>1, <2>2
<1>5. AnswerInv'
  <2> SUFFICES ASSUME NEW r \in Submitters, submitter[r] = "acquiring"
               PROVE  AnswerInv!(r)'
    BY <1>1 DEF AnswerInv
  <2>1. job[r] \in Job /\ job[r].key \in Keys
    BY DEF SerialInv, IInv, JobInv, TypeOK, Job
  <2> QED
    BY <1>0, <1>1, <1>2, <1>4, <2>1, CommandsDiffer DEF AnswerInv
<1>6. ReportInv'
  <2> SUFFICES ASSUME NEW l \in Keys, entries'[l].state = "retiring"
               PROVE  ReportInv!(l)'
    BY DEF ReportInv
  <2>1. CASE entries'[l].generation = g /\ worker'[g] = "granted"
    BY <2>1
  <2>2. CASE entries'[l] = entries[l]
    <3>1. entries[l].generation \in Generations
      BY <1>0, <2>2 DEF EntryInv
    <3> QED
      BY <1>0, <1>2, <1>3, <1>4, <2>2, <3>1, CommandsDiffer DEF ReportInv
  <2> QED
    BY <1>4, <2>1, <2>2
<1>7. EmptyInv'
  BY <1>0, <1>1, <1>4 DEF EmptyInv, Live
<1>8. NumberInv'
  BY <1>0, <1>1, NumbersKept
<1> QED
  BY <1>5, <1>6, <1>7, <1>8

LEMMA RetiredSerial ==
  ASSUME SerialInv, NEW k \in Keys, NEW g \in Generations, ServeRetired(k, g)
  PROVE  AnswerInv' /\ ReportInv' /\ EmptyInv' /\ NumberInv'
<1> DEFINE waiters == {j \in entries[k].waiters : Waiting(j)}
<1>0. TypeOK /\ EntryInv /\ CommandInv /\ AnswerInv /\ ReportInv /\ EmptyInv /\ NumberInv
  BY DEF SerialInv, IInv
<1>1. /\ commands # <<>>
      /\ commands' = Tail(commands)
      /\ Head(commands) = Retired(k, g)
      /\ UNCHANGED <<channel, running, completed>>
  BY DEF ServeRetired, Received, SpawnWorker, workerVars
<1>2. Mailbox \subseteq Mailbox' \union {Retired(k, g)}
  BY <1>0, <1>1, MailboxShrinks
<1>3. entries[k].state = "retiring" /\ entries[k].generation = g
  <2>1. 1 \in 1..Len(commands) /\ commands[1] = Retired(k, g)
    BY <1>0, <1>1 DEF TypeOK
  <2> QED
    BY <1>0, <2>1 DEF CommandInv, Retired
<1>4. waiters \in SUBSET Job
  BY <1>0 DEF TypeOK, Entry
<1>5. /\ entries'[k].state # "retiring"
      /\ \A l \in Keys : l # k => entries'[l] = entries[l]
  BY <1>0, <1>3 DEF ServeRetired, NoEntry, ActiveEntry, TypeOK
<1>6. /\ EmptyInv'
      /\ \A h \in Generations : worker[h] \in {"granted", "draining"} => worker'[h] = worker[h]
  <2>1. CASE waiters = {}
    BY <1>0, <1>3, <2>1 DEF ServeRetired, workerVars, EmptyInv, Live
  <2>2. CASE waiters # {}
    BY <1>3, <2>2, SpawnEmpty DEF ServeRetired
  <2> QED
    BY <2>1, <2>2
<1>7. /\ UNCHANGED job
      /\ \A r \in Submitters : submitter'[r] \in {"acquiring", "sending"} =>
                                 submitter[r] \in {"acquiring", "sending"}
      /\ \A r \in Submitters : submitter'[r] = "acquiring" =>
                                 submitter[r] = "acquiring" /\ job[r] \notin waiters
  <2>1. CASE waiters = {}
    BY <1>3, <2>1 DEF ServeRetired, submitterVars
  <2>2. CASE waiters # {}
    <3>1. HandOut(waiters, nextGeneration)
      BY <1>3, <2>2 DEF ServeRetired
    <3> HIDE DEF waiters
    <3> QED
      BY <1>4, <3>1, HandedOut
  <2> QED
    BY <2>1, <2>2
<1>8. AnswerInv'
  <2> SUFFICES ASSUME NEW r \in Submitters, submitter'[r] = "acquiring"
               PROVE  AnswerInv!(r)'
    BY DEF AnswerInv
  <2>1. submitter[r] = "acquiring" /\ job[r] \notin waiters /\ job'[r] = job[r]
    BY <1>7
  <2>2. job[r] \in Job /\ job[r].key \in Keys /\ job[r].by = r
    BY <2>1 DEF SerialInv, IInv, JobInv, TypeOK, Job
  <2>3. CASE Acquire(job[r]) \in Mailbox
    BY <1>2, <2>1, <2>3, CommandsDiffer
  <2>4. CASE entries[job[r].key].state = "retiring" /\ job[r] \in entries[job[r].key].waiters
    <3>1. Waiting(job[r])
      BY <2>1, <2>2 DEF Waiting
    <3>2. job[r].key # k
      BY <2>1, <2>4, <3>1
    <3> QED
      BY <1>5, <2>1, <2>2, <2>4, <3>2
  <2> QED
    BY <1>0, <2>1, <2>3, <2>4 DEF AnswerInv
<1>9. ReportInv'
  <2> SUFFICES ASSUME NEW l \in Keys, entries'[l].state = "retiring"
               PROVE  ReportInv!(l)'
    BY DEF ReportInv
  <2>1. l # k /\ entries'[l] = entries[l] /\ entries[l].state = "retiring"
    BY <1>5
  <2>2. entries[l].generation \in Generations
    BY <1>0, <2>1 DEF EntryInv
  <2> QED
    BY <1>0, <1>2, <1>6, <2>1, <2>2, CommandsDiffer DEF ReportInv
<1>10. NumberInv'
  BY <1>0, <1>1, <1>7, NumbersKept
<1> QED
  BY <1>6, <1>8, <1>9, <1>10

LEMMA RegistrySerial == ASSUME SerialInv, RegistryNext PROVE SerialInv'
<1>1. IInv'
  BY RegistryStep DEF SerialInv
<1>2. CASE RegistryStops
  <2>1. /\ TypeOK /\ AnswerInv /\ ReportInv /\ EmptyInv /\ NumberInv
        /\ \A r \in Submitters : submitter[r] = "closed"
        /\ entries' = [k \in Keys |-> NoEntry]
        /\ UNCHANGED <<submitter, job, worker, channel, running, completed>>
    BY <1>2 DEF RegistryStops, RegistryHeld, submitterVars, workerVars, SerialInv, IInv
  <2>2. AnswerInv' /\ ReportInv' /\ EmptyInv'
    BY <2>1 DEF AnswerInv, ReportInv, EmptyInv, Live, NoEntry
  <2>3. NumberInv'
    BY <2>1, NumbersKept
  <2> QED
    BY <1>1, <2>2, <2>3 DEF SerialInv
<1> QED
  BY <1>1, <1>2, AcquireSerial, BeginRetirementSerial, RetiredSerial DEF RegistryNext, SerialInv

LEMMA WorkerSerial ==
  ASSUME SerialInv, NEW g \in Generations, WorkerNext(g)
  PROVE  SerialInv'
<1>0. TypeOK /\ EntryInv /\ AnswerInv /\ ReportInv /\ EmptyInv /\ NumberInv
  BY DEF SerialInv, IInv
<1>1. IInv'
  BY WorkerStep DEF SerialInv
<1>2. UNCHANGED <<registry, entries, submitter, job, workerKey>>
  BY DEF WorkerNext, StartJob, FinishJob, IdleTimeout, RequestRetirement, Orphan, ReadReply,
         WorkerExits, registryVars, submitterVars
<1>3. CASE StartJob(g) \/ FinishJob(g)
  <2>1. UNCHANGED <<commands, worker>>
    BY <1>3 DEF StartJob, FinishJob, registryVars
  <2>2. AnswerInv' /\ ReportInv'
    BY <1>0, <1>2, <2>1 DEF AnswerInv, ReportInv, Mailbox
  <2>3. EmptyInv'
    BY <1>0, <1>2, <1>3, <2>1 DEF StartJob, FinishJob, EmptyInv, Live, TypeOK
  <2>4. ASSUME NEW j \in Job, Known(j)' PROVE Known(j)
    <3>1. CASE FinishJob(g)
      BY <1>0, <2>4, <3>1 DEF FinishJob, Known, TypeOK
    <3>2. CASE StartJob(g)
      <4>1. /\ Len(channel[g]) \in Nat /\ Len(channel[g]) # 0
            /\ Head(channel[g]) = channel[g][1]
            /\ \A h \in Generations : running'[h] = IF h = g THEN channel[g][1] ELSE running[h]
            /\ \A h \in Generations : h # g => channel'[h] = channel[h]
            /\ Len(channel'[g]) = Len(channel[g]) - 1
            /\ \A i \in 1..Len(channel'[g]) : channel'[g][i] = channel[g][i + 1]
            /\ completed' = completed
        BY <1>0, <3>2 DEF StartJob, TypeOK
      <4>2. ASSUME NEW h \in Generations, running'[h] = j PROVE Known(j)
        BY <4>1, <4>2 DEF Known
      <4>3. ASSUME NEW h \in Generations, NEW i \in 1..Len(channel'[h]), channel'[h][i] = j
            PROVE  Known(j)
        <5>1. CASE h = g
          <6>1. i + 1 \in 1..Len(channel[g]) /\ channel[g][i + 1] = j
            BY <4>1, <4>3, <5>1
          <6> QED
            BY <6>1 DEF Known
        <5>2. CASE h # g
          BY <4>1, <4>3, <5>2 DEF Known
        <5> QED
          BY <5>1, <5>2
      <4> QED
        BY <2>4, <4>1, <4>2, <4>3 DEF Known
    <3> QED
      BY <1>3, <3>1, <3>2
  <2>5. NumberInv'
    BY <1>0, <1>2, <2>4 DEF NumberInv, Earlier
  <2> QED
    BY <1>1, <2>2, <2>3, <2>5 DEF SerialInv
<1>4. CASE IdleTimeout(g) \/ Orphan(g) \/ ReadReply(g) \/ RequestRetirement(g) \/ WorkerExits(g)
  <2>1. /\ UNCHANGED <<channel, running, completed>>
        /\ Live(g)
        /\ \A h \in Generations : h # g => worker'[h] = worker[h]
        /\ worker'[g] # "unborn"
        /\ worker'[g] = "exited" => channel[g] = <<>> /\ running[g] = NoJob
        /\ worker[g] \in {"granted", "draining"} =>
             \/ worker'[g] = "draining"
             \/ commands' = Append(commands, Retired(workerKey[g], g))
    BY <1>0, <1>4 DEF IdleTimeout, Orphan, ReadReply, RequestRetirement, WorkerExits,
         ReceiverClosed, Report, Live, TypeOK
  <2>2. Mailbox \subseteq Mailbox'
    <3>1. \/ commands' = commands
          \/ commands' = Append(commands, BeginRetirement(workerKey[g], g))
          \/ commands' = Append(commands, Retired(workerKey[g], g))
      BY <1>4 DEF IdleTimeout, Orphan, ReadReply, RequestRetirement, WorkerExits, Report,
           registryVars
    <3>2. workerKey[g] \in Keys
      BY <1>0 DEF TypeOK
    <3>3. BeginRetirement(workerKey[g], g) \in Command /\ Retired(workerKey[g], g) \in Command
      BY <3>2, CommandTypes
    <3>4. commands' = commands => Mailbox' = Mailbox
      BY DEF Mailbox
    <3> QED
      BY <1>0, <3>1, <3>3, <3>4, MailboxGrows
  <2>3. AnswerInv'
    BY <1>0, <1>2, <2>2 DEF AnswerInv
  <2>4. ReportInv'
    <3> SUFFICES ASSUME NEW k \in Keys, entries[k].state = "retiring"
                 PROVE  ReportInv!(k)'
      BY <1>2 DEF ReportInv
    <3>1. entries[k].generation \in Generations /\ workerKey[entries[k].generation] = k
      BY <1>0 DEF EntryInv
    <3>2. CASE Retired(k, entries[k].generation) \in Mailbox
      BY <1>2, <2>2, <3>2
    <3>3. CASE worker[entries[k].generation] \in {"granted", "draining"} /\ entries[k].generation # g
      BY <1>2, <2>1, <3>1, <3>3
    <3>4. CASE worker[g] \in {"granted", "draining"} /\ entries[k].generation = g
      <4>1. CASE worker'[g] = "draining"
        BY <1>2, <3>4, <4>1
      <4>2. CASE commands' = Append(commands, Retired(workerKey[g], g))
        <5>1. Retired(k, g) \in Command
          BY CommandTypes
        <5>2. Retired(k, g) \in Mailbox'
          BY <1>0, <3>1, <3>4, <4>2, <5>1, MailboxGrows
        <5> QED
          BY <1>2, <3>4, <5>2
      <4> QED
        BY <2>1, <3>4, <4>1, <4>2
    <3> QED
      BY <1>0, <3>2, <3>3, <3>4 DEF ReportInv
  <2>5. EmptyInv'
    BY <1>0, <2>1 DEF EmptyInv, Live
  <2>6. NumberInv'
    BY <1>0, <1>2, <2>1, NumbersKept
  <2> QED
    BY <1>1, <2>3, <2>4, <2>5, <2>6 DEF SerialInv
<1> QED
  BY <1>3, <1>4 DEF WorkerNext

LEMMA SerialStutters == ASSUME SerialInv, UNCHANGED vars PROVE SerialInv'
<1>1. IInv'
  BY InvStutters DEF SerialInv
<1>2. UNCHANGED <<commands, entries, submitter, job, worker, channel, running, completed>>
  BY DEF vars, registryVars, submitterVars, workerVars
<1>3. NumberInv'
  BY <1>2, NumbersKept DEF SerialInv
<1> QED
  BY <1>1, <1>2, <1>3 DEF SerialInv, AnswerInv, ReportInv, EmptyInv, Live, Mailbox

\* In every state of the partitioner the mailbox, the parked waiters and the
\* channels account for every submission (core.rs:323-522).
THEOREM SerialInvariance == SafeSpec => []SerialInv
<1>1. SerialInv /\ [Next]_vars => SerialInv'
  BY SubmitterSerial, RegistrySerial, WorkerSerial, SerialStutters DEF Next
<1> QED
  BY <1>1, InitSerial, PTL DEF SafeSpec

\* Whatever retires, is cancelled or is dropped meanwhile, a submitter that
\* waits for a sender is in the mailbox, or parked on an entry whose
\* retirement is still to be reported (core.rs:440-511).
THEOREM AcquisitionsAreAnswered == SafeSpec => []AcquisitionNotLost
<1>1. ASSUME SerialInv, NEW r \in Submitters, submitter[r] = "acquiring"
      PROVE  AcquisitionNotLost!(r)
  <2>1. /\ AnswerInv /\ ReportInv /\ EntryInv
        /\ job[r].key \in Keys
    BY <1>1 DEF SerialInv, IInv, JobInv, TypeOK, Job
  <2>2. CASE Acquire(job[r]) \in Mailbox
    BY <1>1, <2>2 DEF Mailbox
  <2>3. CASE entries[job[r].key].state = "retiring" /\ job[r] \in entries[job[r].key].waiters
    BY <2>1, <2>3 DEF ReportInv, Mailbox
  <2> QED
    BY <1>1, <2>1, <2>2, <2>3 DEF AnswerInv
<1>2. SerialInv => AcquisitionNotLost
  BY <1>1 DEF AcquisitionNotLost
<1> QED
  BY <1>2, SerialInvariance, PTL

-----------------------------------------------------------------------------
(* Refinement: every step of the handshake is a step of KeyedSerial or a     *)
(* stutter.                                                                  *)

\* What a key's line and current job are, without CHOOSE.
Served(k) == \E g \in Generations : /\ Live(g) /\ workerKey[g] = k
                                    /\ Line[k] = channel[g] /\ Current[k] = running[g]
Unserved(k) == /\ \A g \in Generations : Live(g) => workerKey[g] # k
               /\ Line[k] = <<>> /\ Current[k] = NoJob

LEMMA LineOf == \A k \in Keys : Served(k) \/ Unserved(k)
<1> SUFFICES ASSUME NEW k \in Keys PROVE Served(k) \/ Unserved(k)
  OBVIOUS
<1>1. CASE ServerOf(k) = {}
  BY <1>1 DEF ServerOf, Line, Current, Unserved
<1>2. CASE ServerOf(k) # {}
  <2>1. Server(k) \in ServerOf(k)
    BY <1>2 DEF Server
  <2>2. Server(k) \in Generations /\ Live(Server(k)) /\ workerKey[Server(k)] = k
    BY <2>1 DEF ServerOf
  <2>3. Line[k] = channel[Server(k)] /\ Current[k] = running[Server(k)]
    BY <1>2 DEF Line, Current
  <2> QED
    BY <2>2, <2>3 DEF Served
<1> QED
  BY <1>1, <1>2

LEMMA LineOfNext == (\A k \in Keys : Served(k) \/ Unserved(k))'
BY LineOf, PTL

LEMMA ServedBy ==
  ASSUME SerialInv, NEW g \in Generations, Live(g)
  PROVE  /\ workerKey[g] \in Keys
         /\ Line[workerKey[g]] = channel[g]
         /\ Current[workerKey[g]] = running[g]
<1>1. workerKey[g] \in Keys /\ OneWorkerPerKey
  BY DEF SerialInv, IInv, TypeOK
<1>2. Served(workerKey[g])
  BY <1>1, LineOf DEF Unserved
<1>3. PICK h \in Generations : /\ Live(h) /\ workerKey[h] = workerKey[g]
                               /\ Line[workerKey[g]] = channel[h]
                               /\ Current[workerKey[g]] = running[h]
  BY <1>2 DEF Served
<1>4. h = g
  BY <1>1, <1>3 DEF OneWorkerPerKey
<1> QED
  BY <1>1, <1>3, <1>4

\* Workers come and go empty-handed: spawning, retiring and ending are
\* invisible.
LEMMA Invisible ==
  ASSUME SerialInv, SerialInv', UNCHANGED <<channel, running, completed>>,
         \A g \in Generations : Live(g) => workerKey'[g] = workerKey[g]
  PROVE  UNCHANGED Serial!vars
<1>0. EmptyInv /\ EmptyInv'
  BY DEF SerialInv
<1>1. ASSUME NEW k \in Keys PROVE Line'[k] = Line[k] /\ Current'[k] = Current[k]
  <2>1. \/ \E g \in Generations : /\ Live(g) /\ workerKey[g] = k
                                  /\ Line[k] = channel[g] /\ Current[k] = running[g]
        \/ /\ \A g \in Generations : Live(g) => workerKey[g] # k
           /\ Line[k] = <<>> /\ Current[k] = NoJob
    BY LineOf DEF Served, Unserved
  <2>2. \/ \E h \in Generations : /\ Live(h)' /\ workerKey'[h] = k
                                  /\ Line'[k] = channel'[h] /\ Current'[k] = running'[h]
        \/ /\ \A h \in Generations : Live(h)' => workerKey'[h] # k
           /\ Line'[k] = <<>> /\ Current'[k] = NoJob
    BY LineOfNext DEF Served, Unserved
  <2>3. \A g \in Generations : ~Live(g) => channel[g] = <<>> /\ running[g] = NoJob
    BY <1>0 DEF EmptyInv
  <2>4. \A g \in Generations : ~Live(g)' => channel'[g] = <<>> /\ running'[g] = NoJob
    BY <1>0 DEF EmptyInv
  <2>5. \A g, h \in Generations : Live(g)' /\ Live(h)' /\ workerKey'[g] = workerKey'[h] => g = h
    BY DEF SerialInv, IInv, OneWorkerPerKey
  <2>6. \A g, h \in Generations : Live(g) /\ Live(h) /\ workerKey[g] = workerKey[h] => g = h
    BY DEF SerialInv, IInv, OneWorkerPerKey
  <2> QED
    BY <2>1, <2>2, <2>3, <2>4, <2>5, <2>6
<1>2. Line' = Line /\ Current' = Current
  <2>1. /\ Line = [k \in Keys |-> Line[k]] /\ Line' = [k \in Keys |-> Line'[k]]
        /\ Current = [k \in Keys |-> Current[k]] /\ Current' = [k \in Keys |-> Current'[k]]
    BY DEF Line, Current
  <2> QED
    BY <1>1, <2>1
<1> QED
  BY <1>2 DEF Serial!vars

\* A worker that neither starts nor ends works for its own key's line only.
LEMMA OthersKept ==
  ASSUME SerialInv, NEW g \in Generations, Live(g), UNCHANGED <<worker, workerKey>>,
         NEW q, channel' = [channel EXCEPT ![g] = q],
         NEW c, running' = [running EXCEPT ![g] = c]
  PROVE  /\ Line' = [Line EXCEPT ![workerKey[g]] = q]
         /\ Current' = [Current EXCEPT ![workerKey[g]] = c]
<1> DEFINE k == workerKey[g]
<1>1. TypeOK /\ OneWorkerPerKey /\ k \in Keys
  BY DEF SerialInv, IInv, TypeOK
<1>2. ASSUME NEW l \in Keys
      PROVE  /\ Line'[l] = IF l = k THEN q ELSE Line[l]
             /\ Current'[l] = IF l = k THEN c ELSE Current[l]
  <2>1. ServerOf(l)' = ServerOf(l) /\ Server(l)' = Server(l)
    BY DEF ServerOf, Server, Live
  <2>2. /\ Line'[l] = IF ServerOf(l) = {} THEN <<>> ELSE channel'[Server(l)]
        /\ Current'[l] = IF ServerOf(l) = {} THEN NoJob ELSE running'[Server(l)]
        /\ Line[l] = IF ServerOf(l) = {} THEN <<>> ELSE channel[Server(l)]
        /\ Current[l] = IF ServerOf(l) = {} THEN NoJob ELSE running[Server(l)]
    BY <2>1 DEF Line, Current
  <2>3. ServerOf(l) # {} => /\ Server(l) \in Generations
                            /\ Live(Server(l))
                            /\ workerKey[Server(l)] = l
    <3>1. ServerOf(l) # {} => Server(l) \in ServerOf(l)
      BY DEF Server
    <3> QED
      BY <3>1 DEF ServerOf
  <2>4. l = k => ServerOf(l) # {} /\ Server(l) = g
    <3>1. l = k => g \in ServerOf(l)
      BY DEF ServerOf
    <3> QED
      BY <1>1, <2>3, <3>1 DEF OneWorkerPerKey
  <2>5. l # k /\ ServerOf(l) # {} => Server(l) # g
    BY <2>3
  <2> QED
    BY <1>1, <2>2, <2>3, <2>4, <2>5 DEF TypeOK
<1>3. /\ Line = [l \in Keys |-> Line[l]] /\ Line' = [l \in Keys |-> Line'[l]]
      /\ Current = [l \in Keys |-> Current[l]] /\ Current' = [l \in Keys |-> Current'[l]]
  BY DEF Line, Current
<1> QED
  BY <1>1, <1>2, <1>3

\* Everything the abstract line calls accepted was sent by its submitter.
LEMMA AcceptedKnown ==
  ASSUME SerialInv, NEW j \in Serial!Accepted, j # NoJob
  PROVE  j \in Job /\ Known(j)
<1>1. TypeOK
  BY DEF SerialInv, IInv
<1>2. CASE j \in Serial!Queued
  <2>1. j \in Job /\ j.key \in Keys
    BY <1>2 DEF Serial!Queued, Job
  <2>2. PICK i \in DOMAIN Line[j.key] : Line[j.key][i] = j
    BY <1>2 DEF Serial!Queued
  <2>3. CASE Served(j.key)
    <3>1. PICK g \in Generations : Line[j.key] = channel[g]
      BY <2>3 DEF Served
    <3>2. i \in 1..Len(channel[g]) /\ channel[g][i] = j
      BY <1>1, <2>2, <3>1 DEF TypeOK
    <3> QED
      BY <2>1, <3>2 DEF Known
  <2>4. CASE Unserved(j.key)
    BY <2>2, <2>4 DEF Unserved
  <2> QED
    BY <2>1, <2>3, <2>4, LineOf
<1>3. ASSUME NEW k \in Keys, j = Current[k] PROVE j \in Job /\ Known(j)
  <2>1. Served(k)
    BY <1>3, LineOf DEF Unserved
  <2>2. PICK g \in Generations : j = running[g]
    BY <1>3, <2>1 DEF Served
  <2> QED
    BY <1>1, <2>2 DEF Known, TypeOK
<1>4. CASE j \in completed
  BY <1>1, <1>4 DEF Known, TypeOK
<1> QED
  BY <1>2, <1>3, <1>4 DEF Serial!Accepted

LEMMA SendAccepts ==
  ASSUME SerialInv, NEW r \in Submitters, Send(r)
  PROVE  Serial!Next
<1> DEFINE g == sender[r]
           j == job[r]
<1>1. /\ TypeOK /\ NumberInv
      /\ j \in Job /\ j.by = r
      /\ g \in Generations /\ Live(g) /\ workerKey[g] = j.key
      /\ submitter[r] = "sending"
  BY Sending DEF Send, Live, SerialInv, IInv
<1>2. /\ channel' = [channel EXCEPT ![g] = Append(channel[g], j)]
      /\ UNCHANGED <<worker, workerKey, running, completed>>
  BY <1>1 DEF Send, Live
<1>3. running' = [running EXCEPT ![g] = running[g]]
  BY <1>1, <1>2 DEF TypeOK
<1>4. /\ Line[j.key] = channel[g]
      /\ Current[j.key] = running[g]
      /\ j.key \in Keys
  BY <1>1, ServedBy
<1>5. /\ Line' = [Line EXCEPT ![j.key] = Append(channel[g], j)]
      /\ Current' = [Current EXCEPT ![j.key] = running[g]]
  <2>1. /\ Line' = [Line EXCEPT ![workerKey[g]] = Append(channel[g], j)]
        /\ Current' = [Current EXCEPT ![workerKey[g]] = running[g]]
    BY <1>1, <1>2, <1>3, OthersKept
  <2> QED
    BY <1>1, <2>1
<1>6. Current' = Current
  BY <1>4, <1>5 DEF Current
<1>7. \A i \in Serial!Accepted \ {NoJob} : i.by = j.by => i.n < j.n
  <2> SUFFICES ASSUME NEW i \in Serial!Accepted, i # NoJob, i.by = j.by
               PROVE  i.n < j.n
    OBVIOUS
  <2>1. i \in Job /\ Known(i)
    BY AcceptedKnown
  <2> QED
    BY <1>1, <2>1 DEF NumberInv, Earlier
<1>8. Serial!Accept(j)
  BY <1>2, <1>4, <1>5, <1>6, <1>7 DEF Serial!Accept
<1> QED
  BY <1>1, <1>8 DEF Serial!Next

LEMMA StartStarts ==
  ASSUME SerialInv, NEW g \in Generations, StartJob(g)
  PROVE  Serial!Next
<1>1. TypeOK /\ Live(g)
  BY DEF SerialInv, IInv, StartJob, Live
<1>2. /\ running[g] = NoJob /\ channel[g] # <<>>
      /\ running' = [running EXCEPT ![g] = Head(channel[g])]
      /\ channel' = [channel EXCEPT ![g] = Tail(channel[g])]
      /\ UNCHANGED <<worker, workerKey, completed>>
  BY DEF StartJob
<1>3. /\ Line' = [Line EXCEPT ![workerKey[g]] = Tail(channel[g])]
      /\ Current' = [Current EXCEPT ![workerKey[g]] = Head(channel[g])]
  BY <1>1, <1>2, OthersKept
<1>4. Serial!Start(workerKey[g])
  BY <1>1, <1>2, <1>3, ServedBy DEF Serial!Start
<1> QED
  BY <1>1, <1>4, ServedBy DEF Serial!Next

LEMMA FinishFinishes ==
  ASSUME SerialInv, NEW g \in Generations, FinishJob(g)
  PROVE  Serial!Next
<1>1. TypeOK /\ Live(g)
  BY DEF SerialInv, IInv, FinishJob, EmptyInv
<1>2. /\ running[g] # NoJob
      /\ running' = [running EXCEPT ![g] = NoJob]
      /\ completed' = completed \union {running[g]}
      /\ UNCHANGED <<worker, workerKey, channel>>
  BY DEF FinishJob
<1>3. channel' = [channel EXCEPT ![g] = channel[g]]
  BY <1>1, <1>2 DEF TypeOK
<1>4. /\ Line' = [Line EXCEPT ![workerKey[g]] = channel[g]]
      /\ Current' = [Current EXCEPT ![workerKey[g]] = NoJob]
  BY <1>1, <1>2, <1>3, OthersKept
<1>5. /\ workerKey[g] \in Keys /\ Line[workerKey[g]] = channel[g]
      /\ Current[workerKey[g]] = running[g]
  BY <1>1, ServedBy
<1>6. Line' = Line
  BY <1>4, <1>5 DEF Line
<1>7. Serial!Finish(workerKey[g])
  BY <1>2, <1>4, <1>5, <1>6 DEF Serial!Finish
<1> QED
  BY <1>5, <1>7 DEF Serial!Next

LEMMA StepsImplement ==
  ASSUME SerialInv, SerialInv', [Next]_vars
  PROVE  [Serial!Next]_(Serial!vars)
<1>1. ASSUME UNCHANGED <<channel, running, completed>>,
             \A g \in Generations : Live(g) => workerKey'[g] = workerKey[g]
      PROVE  UNCHANGED Serial!vars
  BY <1>1, Invisible
<1>2. ASSUME NEW k \in Keys, SpawnWorker(k)
      PROVE  /\ UNCHANGED <<channel, running, completed>>
             /\ \A g \in Generations : Live(g) => workerKey'[g] = workerKey[g]
  BY <1>2, TypeSpawn DEF SpawnWorker, SerialInv, IInv, GenerationInv, TypeOK, Live, Generations
<1>3. ASSUME NEW r \in Submitters, SubmitterNext(r), ~Send(r)
      PROVE  UNCHANGED Serial!vars
  BY <1>1, <1>3 DEF SubmitterNext, Submit, Cancel, DropHandle, workerVars
<1>4. CASE RegistryNext
  <2>1. /\ UNCHANGED <<channel, running, completed>>
        /\ UNCHANGED workerKey \/ \E k \in Keys : SpawnWorker(k)
    BY <1>4 DEF RegistryNext, AcquireActive, AcquireRetiring, AcquireNew, ServeBeginRetirement,
         ServeRetired, RegistryStops, SpawnWorker, workerVars, Job
  <2> QED
    BY <1>1, <1>2, <2>1
<1>5. ASSUME NEW g \in Generations, WorkerNext(g), ~StartJob(g), ~FinishJob(g)
      PROVE  UNCHANGED Serial!vars
  BY <1>1, <1>5 DEF WorkerNext, IdleTimeout, RequestRetirement, Orphan, ReadReply, WorkerExits
<1>6. CASE UNCHANGED vars
  BY <1>1, <1>6 DEF vars, workerVars
<1> QED
  BY <1>3, <1>4, <1>5, <1>6, SendAccepts, StartStarts, FinishFinishes DEF Next

LEMMA InitImplements == Init => Serial!Init
<1> SUFFICES ASSUME Init PROVE Serial!Init
  OBVIOUS
<1>1. \A k \in Keys : ServerOf(k) = {}
  BY DEF Init, ServerOf, Live
<1> QED
  BY <1>1 DEF Init, Serial!Init, Line, Current

\* The handshake of submitters, registry and workers implements one FIFO line
\* per key: every accepted job runs once, in order, alone (core.rs:270-276).
\* That every line is served (the fairness of KeyedSerial) is left to TLC.
THEOREM KeyedSerialImplemented == SafeSpec => Serial!Init /\ [][Serial!Next]_(Serial!vars)
<1>1. SerialInv /\ SerialInv' /\ [Next]_vars => [Serial!Next]_(Serial!vars)
  BY StepsImplement
<1> QED
  BY <1>1, InitImplements, SerialInvariance, PTL DEF SafeSpec
=============================================================================
