-------------------------- MODULE ImportJobsProofs --------------------------
(***************************************************************************)
(* Proofs about ImportJobs, for any number of imports, runs, cancel        *)
(* requests and permits, any bounds and any set of faults.                 *)
(***************************************************************************)
EXTENDS ImportJobs, FiniteSetTheorems, TLAPS

USE DEF JobState, Terminal, Inside, Working, Orphan, Settled, Pc

\* A run that was started has its import, and until it has settled the import
\* has an entry; a run that was not started has left no trace.
Placed ==
    /\ \A r \in Runs : IF pc[r] = "idle"
                       THEN job[r] = NoImport /\ channel[r] = <<>>
                       ELSE job[r] \in Imports
    /\ \A r \in Runs : pc[r] \notin Settled => entry[job[r]] # "absent"
    /\ \A c \in Cancels : cpc[c] # "idle" => cjob[c] \in Imports

TypeInv == TypeOK /\ Placed

-----------------------------------------------------------------------------
(* The steps of a task fall into few kinds; the invariants below are       *)
(* proved kind by kind.                                                    *)

\* The task is at work and goes on working: the entry and the row stay, and
\* at most a snapshot of the entry is queued.
Advance(r) ==
    /\ pc[r] \in Working \ {"begun"}
    /\ pc' = [pc EXCEPT ![r] = pc'[r]]
    /\ pc'[r] \in Working \ {"begun"}
    /\ IF pc'[r] = "committed"
       THEN pc[r] = "persisting" /\ catalogue' = [catalogue EXCEPT ![job[r]] = r]
       ELSE UNCHANGED catalogue
    /\ \/ UNCHANGED channel
       \/ channel' = [channel EXCEPT ![r] = Append(@, entry[job[r]])]
    /\ UNCHANGED <<entry, owner, signal, job, row, cancelVars, disturbed>>

\* The task hears that it was told to stop and leaves.
Withdraw(r) ==
    /\ pc[r] \in Working \ {"begun"}
    /\ signal[r]
    /\ pc' = [pc EXCEPT ![r] = "closing"]
    /\ UNCHANGED <<entry, owner, signal, job, batches, channel, row, catalogue,
                   cancelVars, disturbed>>

LEMMA TaskKinds ==
    ASSUME TypeInv, NEW r \in Runs, Task(r)
    PROVE  \/ Advance(r) \/ Withdraw(r) \/ ReportComplete(r)
           \/ ReportFailed(r) \/ SaveSnapshot(r) \/ Finish(r)
<1> USE DEF Goto, registryVars, diskVars, cancelVars
<1> USE JobsAssumption
<1>1. CASE LoadSourceFails(r) \/ SendBatch(r)
  BY <1>1 DEF TypeInv, TypeOK, Advance, LoadSourceFails, SendBatch
<1>7. CASE OcrDone(r) \/ ContextOnly(r)
  BY <1>7 DEF TypeInv, TypeOK, Advance, OcrDone, ContextOnly
<1>2. CASE WorkerSucceeds(r) \/ WorkerFails(r) \/ OcrFails(r) \/ AcquirePermit(r)
  BY <1>2 DEF TypeInv, TypeOK, Advance, WorkerSucceeds, WorkerFails, OcrFails, AcquirePermit
<1>3. CASE PrepareWorker(r) \/ PrepareFails(r) \/ Seal(r)
  BY <1>3 DEF TypeInv, TypeOK, Advance, PrepareWorker, PrepareFails, Seal
<1>8. CASE PersistGraph(r) \/ PersistGraphFails(r)
  BY <1>8 DEF TypeInv, TypeOK, Advance, PersistGraph, PersistGraphFails
<1>4. CASE LoadSource(r) \/ LoadPages(r) \/ BatchDone(r) \/ Plan(r)
  BY <1>4 DEF TypeInv, TypeOK, Advance, LoadSource, LoadPages, BatchDone, Plan, Report
<1>5. CASE SpawnWorker(r) \/ ReportAgain(r) \/ ReportNormalizing(r) \/ ReportPersisting(r)
  BY <1>5 DEF TypeInv, TypeOK, Advance, SpawnWorker, ReportAgain, ReportNormalizing, ReportPersisting, Report
<1>6. CASE StopQueued(r) \/ WorkerKilled(r) \/ StopIfCanceled(r)
  BY <1>6 DEF TypeInv, TypeOK, Withdraw, StopQueued, WorkerKilled, StopIfCanceled
<1> QED
  BY <1>1, <1>2, <1>3, <1>4, <1>5, <1>6, <1>7, <1>8 DEF Task

-----------------------------------------------------------------------------
(* Types.                                                                  *)

\* A start places its run; the other steps of the route keep the types.
LEMMA RouteTypes ==
    ASSUME TypeInv, NEW r \in Runs, StartRoute(r)
    PROVE  TypeInv'
<1> USE JobsAssumption DEF TypeInv, TypeOK, Placed, Goto, registryVars,
                           diskVars, cancelVars
<1>1. ASSUME NEW i \in Imports, Start(i, r) PROVE TypeInv'
  BY <1>1 DEF Start
<1>2. CASE SaveQueued(r)
  BY <1>2 DEF SaveQueued
<1>3. CASE SaveQueuedFails(r)
  BY <1>3 DEF SaveQueuedFails, Updated
<1>4. CASE HangUp(r)
  BY <1>4 DEF HangUp
<1>5. CASE LateSave(r)
  BY <1>5 DEF LateSave
<1> QED
  BY <1>1, <1>2, <1>3, <1>4, <1>5 DEF StartRoute

\* What the kinds leave open: permits, OCR batches and the cancel file.
LEMMA TaskResources ==
    ASSUME TypeInv, NEW r \in Runs, Task(r)
    PROVE  /\ permits' \in Nat
           /\ batches' \in [Runs -> 0 .. OcrBatches]
           /\ marker' \in [Imports -> BOOLEAN]
<1>0. /\ permits \in Nat
      /\ batches \in [Runs -> 0 .. OcrBatches]
      /\ marker \in [Imports -> BOOLEAN]
      /\ OcrBatches \in Nat
  BY JobsAssumption DEF TypeInv, TypeOK
<1>1. CASE LoadSourceFails(r) \/ OcrDone(r) \/ ContextOnly(r) \/ WorkerSucceeds(r)
  BY <1>0, <1>1 DEF LoadSourceFails, OcrDone, ContextOnly, WorkerSucceeds, diskVars
<1>2. CASE SendBatch(r) \/ LoadPages(r)
  <2>1. ASSUME NEW n \in 0 .. OcrBatches, n > 0 PROVE n - 1 \in 0 .. OcrBatches
    BY <1>0, <2>1
  <2>2. batches[r] \in 0 .. OcrBatches
    BY <1>0
  <2> QED
    BY <1>0, <1>2, <2>1, <2>2 DEF SendBatch, LoadPages, diskVars
<1>3. CASE WorkerFails(r) \/ OcrFails(r) \/ PrepareFails(r) \/ AcquirePermit(r)
  <2>1. permits + 1 \in Nat /\ (permits > 0 => permits - 1 \in Nat)
    BY <1>0
  <2> QED
    BY <1>0, <1>3, <2>1 DEF WorkerFails, OcrFails, PrepareFails, AcquirePermit, diskVars
<1>4. CASE PrepareWorker(r) \/ Seal(r) \/ PersistGraph(r) \/ PersistGraphFails(r)
  <2>1. permits + 1 \in Nat
    BY <1>0
  <2>2. [marker EXCEPT ![job[r]] = FALSE] \in [Imports -> BOOLEAN]
    BY <1>0
  <2> QED
    BY <1>0, <1>4, <2>1, <2>2 DEF PrepareWorker, Seal, PersistGraph,
                                  PersistGraphFails, diskVars
<1>5. CASE LoadSource(r) \/ BatchDone(r) \/ Plan(r) \/ SpawnWorker(r)
  BY <1>0, <1>5 DEF LoadSource, BatchDone, Plan, SpawnWorker, diskVars
<1>6. CASE ReportAgain(r) \/ ReportNormalizing(r) \/ ReportPersisting(r)
  BY <1>0, <1>6 DEF ReportAgain, ReportNormalizing, ReportPersisting, diskVars
<1>7. CASE ReportComplete(r) \/ ReportFailed(r) \/ SaveSnapshot(r) \/ Finish(r)
  BY <1>0, <1>7 DEF ReportComplete, ReportFailed, SaveSnapshot, Finish, diskVars
<1>8. CASE StopQueued(r) \/ WorkerKilled(r) \/ StopIfCanceled(r)
  <2>1. permits + 1 \in Nat
    BY <1>0
  <2>2. [marker EXCEPT ![job[r]] = TRUE] \in [Imports -> BOOLEAN]
    BY <1>0
  <2> QED
    BY <1>0, <1>8, <2>1, <2>2 DEF StopQueued, WorkerKilled, StopIfCanceled, diskVars
<1> QED
  BY <1>1, <1>2, <1>3, <1>4, <1>5, <1>6, <1>7, <1>8 DEF Task

\* Queueing and persisting a snapshot keep the type of the channels.
LEMMA ChannelTypes ==
    ASSUME TypeInv, NEW r \in Runs
    PROVE  /\ \A s \in JobState :
                 [channel EXCEPT ![r] = Append(@, s)] \in [Runs -> Seq(JobState)]
           /\ channel[r] # <<>> =>
                 /\ [channel EXCEPT ![r] = Tail(@)] \in [Runs -> Seq(JobState)]
                 /\ Head(channel[r]) \in JobState
<1>1. channel \in [Runs -> Seq(JobState)] /\ channel[r] \in Seq(JobState)
  BY DEF TypeInv, TypeOK
<1>2. ASSUME NEW s \in JobState PROVE Append(channel[r], s) \in Seq(JobState)
  BY <1>1
<1>3. ASSUME channel[r] # <<>>
      PROVE  Tail(channel[r]) \in Seq(JobState) /\ Head(channel[r]) \in JobState
  BY <1>1, <1>3
<1> QED
  BY <1>1, <1>2, <1>3

LEMMA TaskTypes ==
    ASSUME TypeInv, NEW r \in Runs, Task(r)
    PROVE  TypeInv'
<1> USE DEF TypeInv, Placed, Goto, registryVars, diskVars, cancelVars
<1>1. CASE Advance(r)
  <2>1. job[r] \in Imports /\ entry[job[r]] \in JobState
    BY <1>1 DEF Advance, TypeOK
  <2>2. channel' \in [Runs -> Seq(JobState)]
    <3> HIDE DEF JobState
    <3>1. channel \in [Runs -> Seq(JobState)]
      BY DEF TypeOK
    <3>2. [channel EXCEPT ![r] = Append(@, entry[job[r]])] \in [Runs -> Seq(JobState)]
      BY <2>1, ChannelTypes
    <3>3. \/ channel' = channel
          \/ channel' = [channel EXCEPT ![r] = Append(@, entry[job[r]])]
      BY <1>1 DEF Advance
    <3> QED
      BY <3>1, <3>2, <3>3
  <2>3. pc' \in [Runs -> Pc] /\ catalogue' \in [Imports -> Runs \cup {NoRun}]
    <3>1. pc'[r] \in Pc /\ pc' = [pc EXCEPT ![r] = pc'[r]] /\ pc \in [Runs -> Pc]
      BY <1>1 DEF Advance, TypeOK
    <3>2. catalogue' \in [Imports -> Runs \cup {NoRun}]
      BY <1>1 DEF Advance, TypeOK
    <3> HIDE DEF Pc
    <3>3. pc' \in [Runs -> Pc]
      BY <3>1
    <3> QED
      BY <3>2, <3>3
  <2>4. TypeOK'
    BY <1>1, <2>2, <2>3, TaskResources DEF Advance, TypeOK
  <2>5. Placed'
    BY <1>1, <2>1 DEF Advance, TypeOK
  <2> QED
    BY <2>4, <2>5
<1>2. CASE Withdraw(r)
  BY <1>2, TaskResources DEF Withdraw, TypeOK
<1>3. CASE ReportComplete(r) \/ ReportFailed(r)
  <2>1. PICK s \in {"complete", "failed"} : Conclude(r, s)
    BY <1>3 DEF ReportComplete, ReportFailed
  <2>2. job[r] \in Imports /\ Updated(job[r], s) \in JobState
    BY <1>3 DEF ReportComplete, ReportFailed, TypeOK, Updated
  <2>3. channel' \in [Runs -> Seq(JobState)]
    <3> HIDE DEF JobState
    <3>1. [channel EXCEPT ![r] = Append(@, Updated(job[r], s))] \in [Runs -> Seq(JobState)]
      BY <2>2, ChannelTypes
    <3> QED
      BY <2>1, <3>1 DEF Conclude
  <2>4. entry' \in [Imports -> JobState \cup {"absent"}] /\ owner' = owner
    BY <2>1, <2>2 DEF Conclude, TypeOK
  <2>5. /\ pc' = [pc EXCEPT ![r] = "closing"]
        /\ UNCHANGED <<signal, job, batches, permits, diskVars, cancelVars,
                       disturbed>>
    BY <1>3 DEF ReportComplete, ReportFailed
  <2>6. TypeOK'
    BY <2>3, <2>4, <2>5 DEF TypeOK
  <2>7. Placed'
    BY <1>3, <2>1, <2>2, <2>5 DEF ReportComplete, ReportFailed, Conclude, TypeOK
  <2> QED
    BY <2>6, <2>7
<1>4. CASE SaveSnapshot(r)
  <2>1. channel[r] # <<>> /\ pc[r] # "idle" /\ job[r] \in Imports
    BY <1>4 DEF SaveSnapshot
  <2>2. /\ channel' \in [Runs -> Seq(JobState)]
        /\ row' \in [Imports -> JobState \cup {"none"}]
        /\ disturbed' \in SUBSET Imports
    <3>1. channel' \in [Runs -> Seq(JobState)] /\ Head(channel[r]) \in JobState
      BY <1>4, <2>1, ChannelTypes DEF SaveSnapshot
    <3>2. row' \in [Imports -> JobState \cup {"none"}]
      BY <1>4, <2>1, <3>1 DEF SaveSnapshot, TypeOK
    <3>3. disturbed' \in SUBSET Imports
      BY <1>4, <2>1 DEF SaveSnapshot, TypeOK
    <3> QED
      BY <3>1, <3>2, <3>3
  <2>3. TypeOK'
    BY <1>4, <2>2 DEF SaveSnapshot, TypeOK
  <2>4. Placed'
    BY <1>4, <2>1 DEF SaveSnapshot, TypeOK
  <2> QED
    BY <2>3, <2>4
<1>5. CASE Finish(r)
  BY <1>5 DEF Finish, TypeOK
<1> QED
  BY <1>1, <1>2, <1>3, <1>4, <1>5, TaskKinds

LEMMA CancelTypes ==
    ASSUME TypeInv, NEW c \in Cancels, CancelRoute(c)
    PROVE  TypeInv'
<1> USE DEF TypeInv, TypeOK, Placed, MarkOrSave, registryVars, runVars, diskVars
<1>1. ASSUME NEW i \in Imports, Cancel(c, i) PROVE TypeInv'
  BY <1>1 DEF Cancel
<1>2. ASSUME NEW i \in Imports, CancelLate(c, i) PROVE TypeInv'
  BY <1>2 DEF CancelLate
<1>3. ASSUME NEW i \in Imports, CancelUnknown(c, i) PROVE TypeInv'
  BY <1>3 DEF CancelUnknown
<1>4. CASE ReadRow(c)
  BY <1>4 DEF ReadRow
<1>5. CASE ReadNoRow(c)
  BY <1>5 DEF ReadNoRow
<1>6. CASE WriteMarker(c)
  BY <1>6 DEF WriteMarker
<1>7. CASE SaveCancel(c)
  BY <1>7 DEF SaveCancel
<1>8. CASE CancelHangsUp(c)
  BY <1>8 DEF CancelHangsUp
<1> QED
  BY <1>1, <1>2, <1>3, <1>4, <1>5, <1>6, <1>7, <1>8 DEF CancelRoute

LEMMA TypeInvInductive == Spec => []TypeInv
<1>1. Init => TypeInv
  BY JobsAssumption DEF Init, TypeInv, TypeOK, Placed
<1>2. TypeInv /\ [Next]_vars => TypeInv'
  <2> SUFFICES ASSUME TypeInv, [Next]_vars PROVE TypeInv'
    OBVIOUS
  <2>1. ASSUME NEW r \in Runs, StartRoute(r) \/ Task(r) PROVE TypeInv'
    BY <2>1, RouteTypes, TaskTypes
  <2>2. ASSUME NEW c \in Cancels, CancelRoute(c) PROVE TypeInv'
    BY <2>2, CancelTypes
  <2>3. CASE Crash
    BY <2>3, JobsAssumption DEF Crash, TypeInv, TypeOK, Placed, diskVars
  <2>4. CASE UNCHANGED vars
    BY <2>4 DEF vars, TypeInv, TypeOK, Placed, registryVars, runVars, diskVars,
                cancelVars
  <2> QED
    BY <2>1, <2>2, <2>3, <2>4 DEF Next
<1>3. QED
  BY <1>1, <1>2, PTL DEF Spec

\* Every variable of ImportJobs keeps its type.
THEOREM TypeCorrect == Spec => []TypeOK
<1>1. TypeInv => TypeOK
  BY DEF TypeInv
<1>2. QED
  BY <1>1, TypeInvInductive, PTL

-----------------------------------------------------------------------------
(* The registry.  An entry's owner is known by what it was started for, so *)
(* no step of another import's run touches it.                             *)

RegistryInv ==
    /\ RunningIsBacked
    /\ SignalMatchesEntry
    /\ \A r \in Runs : pc[r] = "idle" => ~signal[r]

\* A step that leaves the registry and the signals and moves a run only
\* within the states that back an entry.
LEMMA RegistryStays ==
    ASSUME TypeInv, RegistryInv, NEW r \in Runs,
           UNCHANGED <<entry, owner, signal, job>>,
           \/ UNCHANGED pc
           \/ /\ pc' = [pc EXCEPT ![r] = pc'[r]]
              /\ pc'[r] # "idle"
              /\ \/ pc'[r] \in Working \cup Orphan
                 \/ pc[r] \notin Working \cup Orphan
                 \/ signal[r]
    PROVE  RegistryInv'
<1>1. RunningIsBacked'
  BY DEF TypeInv, TypeOK, RegistryInv, RunningIsBacked, SignalMatchesEntry, RunsOf
<1>2. SignalMatchesEntry'
  BY DEF TypeInv, TypeOK, RegistryInv, SignalMatchesEntry
<1>3. (\A s \in Runs : pc[s] = "idle" => ~signal[s])'
  BY DEF TypeInv, TypeOK, RegistryInv
<1> QED
  BY <1>1, <1>2, <1>3 DEF RegistryInv

\* A run's last report ends the entry it owns, if it owns one.
LEMMA RegistryConcluded ==
    ASSUME TypeInv, RegistryInv, NEW r \in Runs, NEW s \in {"complete", "failed"},
           pc[r] # "idle",
           entry' = [entry EXCEPT ![job[r]] = Updated(job[r], s)],
           NEW p \in {"closing", "done"}, pc' = [pc EXCEPT ![r] = p],
           UNCHANGED <<owner, signal, job>>
    PROVE  RegistryInv'
<1>1. job[r] \in Imports
  BY DEF TypeInv, Placed
<1>2. entry'[job[r]] \in {s, "canceled"} /\ (entry'[job[r]] = "canceled" => entry[job[r]] = "canceled")
  BY <1>1 DEF TypeInv, TypeOK, Updated
<1>3. \A i \in Imports : i # job[r] => entry'[i] = entry[i]
  BY DEF TypeInv, TypeOK
<1>4. \A t \in Runs : t # r => pc'[t] = pc[t]
  BY DEF TypeInv, TypeOK
<1>5. pc'[r] = p
  BY DEF TypeInv, TypeOK
<1>6. RunningIsBacked'
  BY <1>2, <1>3, <1>4 DEF RegistryInv, RunningIsBacked, RunsOf
<1>7. SignalMatchesEntry'
  BY <1>2, <1>3 DEF RegistryInv, SignalMatchesEntry
<1>8. (\A t \in Runs : pc[t] = "idle" => ~signal[t])'
  BY <1>4, <1>5 DEF RegistryInv
<1> QED
  BY <1>6, <1>7, <1>8 DEF RegistryInv

LEMMA RegistryTask ==
    ASSUME TypeInv, RegistryInv, NEW r \in Runs, Task(r)
    PROVE  RegistryInv'
<1> USE DEF Goto, registryVars
<1>1. CASE Advance(r)
  BY <1>1, RegistryStays DEF Advance
<1>2. CASE Withdraw(r)
  BY <1>2, RegistryStays DEF Withdraw, TypeInv, TypeOK
<1>3. CASE ReportComplete(r)
  BY <1>3, RegistryConcluded DEF ReportComplete, Conclude
<1>4. CASE ReportFailed(r)
  BY <1>4, RegistryConcluded DEF ReportFailed, Conclude
<1>5. CASE SaveSnapshot(r)
  BY <1>5, RegistryStays DEF SaveSnapshot
<1>6. CASE Finish(r)
  BY <1>6, RegistryStays DEF Finish, TypeInv, TypeOK
<1> QED
  BY <1>1, <1>2, <1>3, <1>4, <1>5, <1>6, TaskKinds

LEMMA RegistryRoute ==
    ASSUME TypeInv, RegistryInv, NEW r \in Runs, StartRoute(r)
    PROVE  RegistryInv'
<1> USE DEF Goto, registryVars
<1>1. ASSUME NEW i \in Imports, Start(i, r) PROVE RegistryInv'
  <2>1. /\ entry'[i] = "running" /\ owner'[i] = r
        /\ pc'[r] = "begun" /\ job'[r] = i /\ signal' = signal
        /\ pc[r] = "idle"
    BY <1>1 DEF Start, TypeInv, TypeOK
  <2>2. \A j \in Imports : j # i => entry'[j] = entry[j] /\ owner'[j] = owner[j]
    BY <1>1 DEF Start, TypeInv, TypeOK
  <2>3. \A t \in Runs : t # r => pc'[t] = pc[t] /\ job'[t] = job[t]
    BY <1>1 DEF Start, TypeInv, TypeOK
  <2>4. RunningIsBacked'
    BY <2>1, <2>2, <2>3 DEF RegistryInv, RunningIsBacked, RunsOf
  <2>5. SignalMatchesEntry'
    BY <2>1, <2>2 DEF RegistryInv, SignalMatchesEntry
  <2>6. (\A t \in Runs : pc[t] = "idle" => ~signal[t])'
    BY <2>1, <2>3 DEF RegistryInv
  <2> QED
    BY <2>4, <2>5, <2>6 DEF RegistryInv
<1>2. CASE SaveQueued(r)
  BY <1>2, RegistryStays DEF SaveQueued, TypeInv, TypeOK
<1>3. CASE SaveQueuedFails(r)
  BY <1>3, RegistryConcluded DEF SaveQueuedFails
<1>4. CASE HangUp(r)
  BY <1>4, RegistryStays DEF HangUp, TypeInv, TypeOK
<1>5. CASE LateSave(r)
  BY <1>5, RegistryStays DEF LateSave, TypeInv, TypeOK
<1> QED
  BY <1>1, <1>2, <1>3, <1>4, <1>5 DEF StartRoute

LEMMA RegistryCancel ==
    ASSUME TypeInv, RegistryInv, NEW c \in Cancels, CancelRoute(c)
    PROVE  RegistryInv'
<1>1. ASSUME NEW i \in Imports, Cancel(c, i) PROVE RegistryInv'
  <2>1. /\ owner[i] \in Runs /\ job[owner[i]] = i
        /\ pc[owner[i]] # "idle"
    BY <1>1 DEF Cancel, RegistryInv, RunningIsBacked, RunsOf
  <2>2. /\ entry'[i] = "canceled" /\ signal'[owner[i]] = TRUE
        /\ UNCHANGED <<owner, pc, job>>
    BY <1>1, <2>1 DEF Cancel, TypeInv, TypeOK
  <2>3. \A j \in Imports : j # i => entry'[j] = entry[j]
    BY <1>1 DEF Cancel, TypeInv, TypeOK
  <2>4. \A t \in Runs : t # owner[i] => signal'[t] = signal[t]
    BY <1>1 DEF Cancel, TypeInv, TypeOK
  <2>5. RunningIsBacked'
    BY <2>2, <2>3 DEF RegistryInv, RunningIsBacked, RunsOf
  <2>6. SignalMatchesEntry'
    BY <2>1, <2>2, <2>3, <2>4 DEF RegistryInv, SignalMatchesEntry, RunningIsBacked, RunsOf
  <2>7. (\A t \in Runs : pc[t] = "idle" => ~signal[t])'
    BY <2>1, <2>2, <2>4 DEF RegistryInv
  <2> QED
    BY <2>5, <2>6, <2>7 DEF RegistryInv
<1>2. CASE ~\E i \in Imports : Cancel(c, i)
  <2>1. UNCHANGED <<entry, owner, signal, pc, job>>
    BY <1>2 DEF CancelRoute, CancelLate, CancelUnknown, ReadRow, ReadNoRow,
                WriteMarker, SaveCancel, CancelHangsUp, registryVars, runVars
  <2> QED
    BY <2>1 DEF RegistryInv, RunningIsBacked, SignalMatchesEntry, RunsOf
<1> QED
  BY <1>1, <1>2

LEMMA RegistryInductive == Spec => []RegistryInv
<1>1. Init => RegistryInv
  BY DEF Init, RegistryInv, RunningIsBacked, SignalMatchesEntry
<1>2. TypeInv /\ RegistryInv /\ [Next]_vars => RegistryInv'
  <2> SUFFICES ASSUME TypeInv, RegistryInv, [Next]_vars PROVE RegistryInv'
    OBVIOUS
  <2>1. ASSUME NEW r \in Runs, StartRoute(r) \/ Task(r) PROVE RegistryInv'
    BY <2>1, RegistryRoute, RegistryTask
  <2>2. ASSUME NEW c \in Cancels, CancelRoute(c) PROVE RegistryInv'
    BY <2>2, RegistryCancel
  <2>3. CASE Crash
    BY <2>3 DEF Crash, TypeInv, TypeOK, RegistryInv, RunningIsBacked, SignalMatchesEntry
  <2>4. CASE UNCHANGED vars
    BY <2>4 DEF vars, RegistryInv, RunningIsBacked, SignalMatchesEntry, RunsOf,
                registryVars, runVars
  <2> QED
    BY <2>1, <2>2, <2>3, <2>4 DEF Next
<1>3. QED
  BY <1>1, <1>2, TypeInvInductive, PTL DEF Spec

\* An entry that reads "running" belongs to a start that has still to make its
\* last report, or to one that was dropped before its task was spawned: no
\* task ends and leaves its entry running.
THEOREM RunningBacked == Spec => []RunningIsBacked
<1>1. RegistryInv => RunningIsBacked
  BY DEF RegistryInv
<1>2. QED
  BY <1>1, RegistryInductive, PTL

\* The registry and the cancellation signals agree: a canceled entry's run
\* has been told to stop and a running entry's run has not.
THEOREM SignalsMatch == Spec => []SignalMatchesEntry
<1>1. RegistryInv => SignalMatchesEntry
  BY DEF RegistryInv
<1>2. QED
  BY <1>1, RegistryInductive, PTL

\* A canceled entry stays canceled until the process dies or a new start, with
\* a run of its own, takes the id over: no late report revives it.
THEOREM CanceledFrozen == Spec => CanceledIsFrozen
<1>1. TypeInv /\ RegistryInv /\ [Next]_vars => [LeavesCanceledByStart]_vars
  <2> SUFFICES ASSUME TypeInv, RegistryInv, Next PROVE LeavesCanceledByStart
    OBVIOUS
  <2> USE DEF LeavesCanceledByStart, registryVars, Goto
  <2>1. ASSUME NEW i \in Imports, NEW r \in Runs, Start(i, r)
        PROVE  LeavesCanceledByStart
    BY <2>1 DEF Start, TypeInv, TypeOK, RegistryInv, SignalMatchesEntry
  <2>2. ASSUME NEW r \in Runs, StartRoute(r), ~\E i \in Imports : Start(i, r)
        PROVE  LeavesCanceledByStart
    BY <2>2 DEF StartRoute, SaveQueued, SaveQueuedFails, HangUp, LateSave,
                Updated, TypeInv, TypeOK
  <2>3. ASSUME NEW r \in Runs, Task(r) PROVE LeavesCanceledByStart
    BY <2>3, TaskKinds DEF Advance, Withdraw, ReportComplete, ReportFailed,
                SaveSnapshot, Finish, Conclude, Updated, TypeInv, TypeOK
  <2>4. ASSUME NEW c \in Cancels, CancelRoute(c) PROVE LeavesCanceledByStart
    BY <2>4 DEF CancelRoute, Cancel, CancelLate, CancelUnknown, ReadRow,
                ReadNoRow, WriteMarker, SaveCancel, CancelHangsUp, TypeInv, TypeOK
  <2>5. CASE Crash
    BY <2>5 DEF Crash
  <2> QED
    BY <2>1, <2>2, <2>3, <2>4, <2>5 DEF Next
<1>2. QED
  BY <1>1, TypeInvInductive, RegistryInductive, PTL DEF Spec, CanceledIsFrozen

-----------------------------------------------------------------------------
(* An import nobody cancels.  Its entry is running as long as a run is at  *)
(* work on it, and that run owns the entry; so a second start is refused,  *)
(* and what the run commits and reports is its own.                        *)

Uncanceled(i) == \A r \in RunsOf(i) : ~signal[r]

Alone(i) ==
    /\ \A r \in RunsOf(i) : pc[r] \in Working => owner[i] = r /\ entry[i] = "running"
    /\ \A r \in RunsOf(i) : pc[r] = "committed" => catalogue[i] = r
    /\ entry[i] = "complete" => catalogue[i] = owner[i]

AloneInv == \A i \in Imports : Uncanceled(i) => Alone(i)

\* Signals are never withdrawn and runs never change their import.
LEMMA UncanceledBefore ==
    ASSUME TypeInv, RegistryInv, Next, NEW i \in Imports, Uncanceled(i)'
    PROVE  Uncanceled(i)
<1>1. ASSUME NEW r \in Runs, StartRoute(r) PROVE Uncanceled(i)
  BY <1>1 DEF StartRoute, Start, SaveQueued, SaveQueuedFails, HangUp, LateSave,
              Uncanceled, RunsOf, TypeInv, TypeOK, RegistryInv
<1>2. ASSUME NEW r \in Runs, Task(r) PROVE Uncanceled(i)
  BY <1>2, TaskKinds DEF Advance, Withdraw, ReportComplete, ReportFailed,
              SaveSnapshot, Finish, Uncanceled, RunsOf
<1>3. ASSUME NEW c \in Cancels, CancelRoute(c) PROVE Uncanceled(i)
  BY <1>3 DEF CancelRoute, Cancel, CancelLate, CancelUnknown, ReadRow,
              ReadNoRow, WriteMarker, SaveCancel, CancelHangsUp, runVars,
              Uncanceled, RunsOf, TypeInv, TypeOK
<1>4. CASE Crash
  BY <1>4 DEF Crash, Uncanceled, RunsOf
<1> QED
  BY <1>1, <1>2, <1>3, <1>4 DEF Next

LEMMA AloneRoute ==
    ASSUME TypeInv, RegistryInv, NEW r \in Runs, StartRoute(r),
           NEW i \in Imports, Alone(i)
    PROVE  Alone(i)'
<1> USE DEF Alone, RunsOf, Goto, registryVars, diskVars
<1>1. ASSUME NEW j \in Imports, Start(j, r) PROVE Alone(i)'
  <2>1. /\ entry' = [entry EXCEPT ![j] = "running"]
        /\ owner' = [owner EXCEPT ![j] = r]
        /\ pc'[r] = "begun" /\ job'[r] = j /\ catalogue' = catalogue
        /\ entry[j] # "running"
    BY <1>1 DEF Start, TypeInv, TypeOK
  <2>2. \A t \in Runs : t # r => pc'[t] = pc[t] /\ job'[t] = job[t]
    BY <1>1 DEF Start, TypeInv, TypeOK
  <2>3. CASE i = j
    <3>1. entry'[i] = "running" /\ owner'[i] = r
      BY <2>1, <2>3 DEF TypeInv, TypeOK
    <3>2. ASSUME NEW t \in Runs, job[t] = i PROVE pc[t] \notin Working
      BY <2>1, <2>3, <3>2
    <3> QED
      BY <2>1, <2>2, <3>1, <3>2
  <2>4. CASE i # j
    <3>1. entry'[i] = entry[i] /\ owner'[i] = owner[i]
      BY <2>1, <2>4 DEF TypeInv, TypeOK
    <3> QED
      BY <2>1, <2>2, <2>4, <3>1
  <2> QED
    BY <2>3, <2>4
<1>2. CASE SaveQueued(r) \/ HangUp(r) \/ LateSave(r)
  BY <1>2 DEF SaveQueued, HangUp, LateSave, TypeInv, TypeOK
<1>3. CASE SaveQueuedFails(r)
  <2>1. /\ entry' = [entry EXCEPT ![job[r]] = Updated(job[r], "failed")]
        /\ pc[r] = "begun" /\ pc' = [pc EXCEPT ![r] = "done"]
        /\ UNCHANGED <<owner, job, catalogue>>
    BY <1>3 DEF SaveQueuedFails
  <2>2. Updated(job[r], "failed") \in {"failed", "canceled"}
    BY DEF Updated
  <2> QED
    BY <2>1, <2>2 DEF TypeInv, TypeOK
<1> QED
  BY <1>1, <1>2, <1>3 DEF StartRoute

LEMMA AloneTask ==
    ASSUME TypeInv, NEW r \in Runs, Task(r), NEW i \in Imports, Uncanceled(i),
           Alone(i)
    PROVE  Alone(i)'
<1> USE DEF Alone, RunsOf, Goto, registryVars, diskVars
<1>1. CASE Advance(r)
  <2>1. /\ UNCHANGED <<entry, owner, job>>
        /\ pc[r] \in Working /\ job[r] \in Imports
        /\ \A t \in Runs : t # r => pc'[t] = pc[t]
    BY <1>1 DEF Advance, TypeInv, TypeOK, Placed
  <2>2. CASE pc'[r] = "committed"
    <3>1. catalogue'[job[r]] = r /\ \A j \in Imports : j # job[r] => catalogue'[j] = catalogue[j]
      BY <1>1, <2>1, <2>2 DEF Advance, TypeInv, TypeOK
    <3>2. CASE i = job[r]
      BY <2>1, <3>1, <3>2
    <3>3. CASE i # job[r]
      BY <2>1, <3>1, <3>3
    <3> QED
      BY <3>2, <3>3
  <2>3. CASE pc'[r] # "committed"
    <3>1. catalogue' = catalogue
      BY <1>1, <2>3 DEF Advance
    <3> QED
      BY <2>1, <2>3, <3>1
  <2> QED
    BY <2>2, <2>3
<1>2. CASE Withdraw(r) \/ Finish(r) \/ SaveSnapshot(r)
  BY <1>2 DEF Withdraw, Finish, SaveSnapshot, TypeInv, TypeOK
<1>3. CASE ReportComplete(r) \/ ReportFailed(r)
  <2>1. PICK s \in {"complete", "failed"} :
          /\ entry' = [entry EXCEPT ![job[r]] = Updated(job[r], s)]
          /\ s = "complete" => pc[r] = "committed"
    BY <1>3 DEF ReportComplete, ReportFailed, Conclude
  <2>2. /\ pc[r] \in Working /\ job[r] \in Imports
        /\ pc' = [pc EXCEPT ![r] = "closing"]
        /\ UNCHANGED <<owner, job, catalogue>>
    BY <1>3 DEF ReportComplete, ReportFailed, Conclude, TypeInv, Placed
  <2>3. \A t \in Runs : IF t = r THEN pc'[t] = "closing" ELSE pc'[t] = pc[t]
    BY <2>2 DEF TypeInv, TypeOK
  <2>4. CASE i = job[r]
    <3>1. entry'[i] \in {s, "canceled"}
      BY <2>1, <2>4 DEF TypeInv, TypeOK, Updated
    <3> QED
      BY <2>1, <2>2, <2>3, <2>4, <3>1
  <2>5. CASE i # job[r]
    <3>1. entry'[i] = entry[i]
      BY <2>1, <2>5 DEF TypeInv, TypeOK
    <3> QED
      BY <2>2, <2>3, <2>5, <3>1
  <2> QED
    BY <2>4, <2>5
<1> QED
  BY <1>1, <1>2, <1>3, TaskKinds

LEMMA AloneInductive == Spec => []AloneInv
<1>1. Init => AloneInv
  BY DEF Init, AloneInv, Alone, RunsOf
<1>2. TypeInv /\ RegistryInv /\ AloneInv /\ [Next]_vars => AloneInv'
  <2> SUFFICES ASSUME TypeInv, RegistryInv, AloneInv, [Next]_vars PROVE AloneInv'
    OBVIOUS
  <2>1. CASE UNCHANGED vars
    BY <2>1 DEF vars, AloneInv, Alone, Uncanceled, RunsOf, registryVars,
                runVars, diskVars
  <2>2. ASSUME Next, NEW i \in Imports, Uncanceled(i)' PROVE Alone(i)'
    <3>1. Uncanceled(i) /\ Alone(i)
      BY <2>2, UncanceledBefore DEF AloneInv
    <3>2. ASSUME NEW r \in Runs, StartRoute(r) \/ Task(r) PROVE Alone(i)'
      BY <3>1, <3>2, AloneRoute, AloneTask
    <3>3. ASSUME NEW c \in Cancels, CancelRoute(c) PROVE Alone(i)'
      <4>1. ASSUME NEW j \in Imports, Cancel(c, j) PROVE Alone(i)'
        <5>1. owner[j] \in Runs /\ job[owner[j]] = j
          BY <4>1 DEF Cancel, RegistryInv, RunningIsBacked, RunsOf
        <5>2. signal'[owner[j]] = TRUE /\ UNCHANGED <<owner, pc, job, catalogue>>
          BY <4>1, <5>1 DEF Cancel, TypeInv, TypeOK, diskVars
        <5>3. i # j
          BY <2>2, <5>1, <5>2 DEF Uncanceled, RunsOf
        <5>4. entry'[i] = entry[i]
          BY <4>1, <5>3 DEF Cancel, TypeInv, TypeOK
        <5> QED
          BY <3>1, <5>2, <5>4 DEF Alone, RunsOf
      <4>2. CASE ~\E j \in Imports : Cancel(c, j)
        BY <3>1, <3>3, <4>2 DEF CancelRoute, CancelLate, CancelUnknown, ReadRow,
              ReadNoRow, WriteMarker, SaveCancel, CancelHangsUp, registryVars,
              runVars, diskVars, Alone, RunsOf
      <4> QED
        BY <4>1, <4>2
    <3>4. CASE Crash
      BY <3>4 DEF Crash, Alone, RunsOf, TypeInv, TypeOK
    <3> QED
      BY <2>2, <3>2, <3>3, <3>4 DEF Next
  <2> QED
    BY <2>1, <2>2 DEF AloneInv
<1>3. QED
  BY <1>1, <1>2, TypeInvInductive, RegistryInductive, PTL DEF Spec

\* Duplicate-start suppression: while no run of an import has been cancelled,
\* at most one accepted start is at work on it.
THEOREM StartsSuppressed == Spec => []DuplicateStartSuppressed
<1>1. AloneInv => DuplicateStartSuppressed
  BY DEF AloneInv, Uncanceled, Alone, DuplicateStartSuppressed
<1>2. QED
  BY <1>1, AloneInductive, PTL

\* While no run of an import has been cancelled, a complete entry means that
\* the catalogue holds the graph of the run the entry belongs to.
THEOREM CompletePersisted == Spec => []CompleteIsPersisted
<1>1. AloneInv => CompleteIsPersisted
  BY DEF AloneInv, Uncanceled, Alone, CompleteIsPersisted
<1>2. QED
  BY <1>1, AloneInductive, PTL

-----------------------------------------------------------------------------
(* The pipeline semaphore.                                                 *)

Within == {r \in Runs : pc[r] \in Inside}

Enters(r) == pc[r] \notin Inside /\ pc'[r] \in Inside /\ permits' = permits - 1
Leaves(r) == pc[r] \in Inside /\ pc'[r] \notin Inside /\ permits' = permits + 1
Stays(r)  == (pc[r] \in Inside <=> pc'[r] \in Inside) /\ permits' = permits

\* A step of the route or of the task crosses the border of run_cookbook's
\* permit exactly when it takes or gives back a permit.
LEMMA PermitSteps ==
    ASSUME TypeInv, NEW r \in Runs, StartRoute(r) \/ Task(r)
    PROVE  /\ \A t \in Runs : t # r => pc'[t] = pc[t]
           /\ Enters(r) \/ Leaves(r) \/ Stays(r)
<1> USE DEF Goto, Enters, Leaves, Stays
<1>0. pc \in [Runs -> Pc]
  BY DEF TypeInv, TypeOK
<1>1. CASE StartRoute(r)
  BY <1>0, <1>1 DEF StartRoute, Start, SaveQueued, SaveQueuedFails, HangUp, LateSave
<1>2. CASE AcquirePermit(r)
  BY <1>0, <1>2 DEF AcquirePermit
<1>3. CASE OcrFails(r) \/ WorkerFails(r) \/ WorkerKilled(r)
  BY <1>0, <1>3 DEF OcrFails, WorkerFails, WorkerKilled
<1>4. CASE StopIfCanceled(r) \/ Seal(r) \/ PrepareFails(r)
  BY <1>0, <1>4 DEF StopIfCanceled, Seal, PrepareFails
<1>5. CASE LoadSource(r) \/ LoadSourceFails(r) \/ StopQueued(r) \/ LoadPages(r)
  BY <1>0, <1>5 DEF LoadSource, LoadSourceFails, StopQueued, LoadPages
<1>6. CASE SendBatch(r) \/ BatchDone(r) \/ OcrDone(r) \/ Plan(r)
  BY <1>0, <1>6 DEF SendBatch, BatchDone, OcrDone, Plan
<1>7. CASE ContextOnly(r) \/ PrepareWorker(r) \/ SpawnWorker(r) \/ ReportAgain(r)
  BY <1>0, <1>7 DEF ContextOnly, PrepareWorker, SpawnWorker, ReportAgain
<1>8. CASE WorkerSucceeds(r) \/ ReportNormalizing(r) \/ ReportPersisting(r) \/ PersistGraph(r)
  BY <1>0, <1>8 DEF WorkerSucceeds, ReportNormalizing, ReportPersisting, PersistGraph
<1>9. CASE PersistGraphFails(r) \/ ReportComplete(r) \/ ReportFailed(r)
  BY <1>0, <1>9 DEF PersistGraphFails, ReportComplete, ReportFailed
<1>10. CASE SaveSnapshot(r) \/ Finish(r)
  BY <1>0, <1>10 DEF SaveSnapshot, Finish
<1> QED
  BY <1>1, <1>2, <1>3, <1>4, <1>5, <1>6, <1>7, <1>8, <1>9, <1>10 DEF Task

LEMMA PermitsStep ==
    ASSUME TypeInv, PermitsConserved, NEW r \in Runs, StartRoute(r) \/ Task(r)
    PROVE  PermitsConserved'
<1>1. /\ IsFiniteSet(Within) /\ Cardinality(Within) \in Nat
      /\ permits \in Nat /\ Concurrency \in Nat
      /\ permits + Cardinality(Within) = Concurrency
  BY JobsAssumption, FS_Subset, FS_CardinalityType
     DEF Within, TypeInv, TypeOK, PermitsConserved
<1>2. /\ \A t \in Runs : t # r => pc'[t] = pc[t]
      /\ Enters(r) \/ Leaves(r) \/ Stays(r)
  BY PermitSteps
<1>3. permits' + Cardinality(Within') = Concurrency
  <2>1. CASE Enters(r)
    <3>1. Within' = Within \cup {r} /\ r \notin Within
      BY <1>2, <2>1 DEF Within, Enters
    <3>2. Cardinality(Within') = Cardinality(Within) + 1
      BY <1>1, <3>1, FS_AddElement
    <3> QED
      BY <1>1, <2>1, <3>2 DEF Enters
  <2>2. CASE Leaves(r)
    <3>1. Within' = Within \ {r} /\ r \in Within
      BY <1>2, <2>2 DEF Within, Leaves
    <3>2. Cardinality(Within') = Cardinality(Within) - 1
      BY <1>1, <3>1, FS_RemoveElement
    <3> QED
      BY <1>1, <2>2, <3>2 DEF Leaves
  <2>3. CASE Stays(r)
    <3>1. Within' = Within
      BY <1>2, <2>3 DEF Within, Stays
    <3> QED
      BY <1>1, <2>3, <3>1 DEF Stays
  <2> QED
    BY <1>2, <2>1, <2>2, <2>3
<1> QED
  BY <1>3 DEF Within, PermitsConserved

\* Every way out of run_cookbook gives its permit back exactly once: free
\* permits and runs inside always add up to the configured concurrency.
THEOREM PermitsAddUp == Spec => []PermitsConserved
<1>1. Init => PermitsConserved
  <2> SUFFICES ASSUME Init PROVE PermitsConserved
    OBVIOUS
  <2>1. Within = {}
    BY DEF Init, Within
  <2>2. permits + Cardinality(Within) = Concurrency
    BY <2>1, FS_EmptySet, JobsAssumption DEF Init
  <2> QED
    BY <2>2 DEF Within, PermitsConserved
<1>2. TypeInv /\ PermitsConserved /\ [Next]_vars => PermitsConserved'
  <2> SUFFICES ASSUME TypeInv, PermitsConserved, [Next]_vars PROVE PermitsConserved'
    OBVIOUS
  <2>1. ASSUME NEW r \in Runs, StartRoute(r) \/ Task(r) PROVE PermitsConserved'
    BY <2>1, PermitsStep
  <2>2. ASSUME NEW c \in Cancels, CancelRoute(c) PROVE PermitsConserved'
    BY <2>2 DEF CancelRoute, Cancel, CancelLate, CancelUnknown, ReadRow,
                ReadNoRow, WriteMarker, SaveCancel, CancelHangsUp, runVars,
                PermitsConserved
  <2>3. CASE Crash
    <3>1. Within' = {} /\ permits' = Concurrency
      BY <2>3 DEF Crash, Within
    <3>2. permits' + Cardinality(Within') = Concurrency
      BY <3>1, FS_EmptySet, JobsAssumption
    <3> QED
      BY <3>2 DEF Within, PermitsConserved
  <2>4. CASE UNCHANGED vars
    BY <2>4 DEF vars, runVars, PermitsConserved
  <2> QED
    BY <2>1, <2>2, <2>3, <2>4 DEF Next
<1>3. QED
  BY <1>1, <1>2, TypeInvInductive, PTL DEF Spec

-----------------------------------------------------------------------------
(* ImportJobs implements JobContract.                                      *)

phaseNow == [r \in Runs |-> PhaseOf(pc[r])]

LEMMA PhaseTable ==
    /\ PhaseOf("idle") = "idle"
    /\ \A p \in {"begun", "abandoned", "orphaned"} : PhaseOf(p) = "offered"
    /\ \A p \in {"spawned", "queued"} \cup Inside : PhaseOf(p) = "open"
    /\ \A p \in {"sealed", "persisting"} : PhaseOf(p) = "sealed"
    /\ PhaseOf("committed") = "committed"
    /\ PhaseOf("failing") = "failed"
    /\ \A p \in {"closing", "done"} : PhaseOf(p) = "closed"
BY DEF PhaseOf

\* A step that moves one run moves its phase, and no other.
LEMMA PhaseMoves ==
    ASSUME TypeInv, NEW r \in Runs, NEW p \in Pc, pc' = [pc EXCEPT ![r] = p]
    PROVE  /\ phaseNow' = [phaseNow EXCEPT ![r] = PhaseOf(p)]
           /\ phaseNow[r] = PhaseOf(pc[r])
BY DEF phaseNow, TypeInv, TypeOK

\* What the contract lets one run do, and what leaves it alone.
LEMMA ContractStep ==
    ASSUME NEW r \in Runs, UNCHANGED signal,
           NEW from, NEW to,
           phaseNow[r] = from,
           phaseNow' = [phaseNow EXCEPT ![r] = to],
           \/ from = to
           \/ from = "idle" /\ to = "offered"
           \/ from = "offered" /\ to = "open"
           \/ from = "offered" /\ to = "closed"
           \/ from = "open" /\ to = "closed" /\ signal[r]
           \/ from = "open" /\ to = "sealed" /\ ~signal[r]
           \/ from \in {"open", "sealed"} /\ to = "failed"
           \/ from = "sealed" /\ to = "committed"
           \/ from \in {"committed", "failed"} /\ to = "closed"
    PROVE  [Contract!Next]_(Contract!vars)
<1> USE DEF phaseNow
<1>1. CASE from = to
  <2>1. phaseNow' = phaseNow
    BY <1>1
  <2> QED
    BY <2>1 DEF Contract!vars
<1>2. CASE from = "idle" /\ to = "offered"
  BY <1>2 DEF Contract!Next, Contract!Offer, Contract!Move
<1>3. CASE from = "offered" /\ to = "open"
  BY <1>3 DEF Contract!Next, Contract!Open, Contract!Move
<1>4. CASE from = "offered" /\ to = "closed"
  BY <1>4 DEF Contract!Next, Contract!Reject, Contract!Move
<1>5. CASE from = "open" /\ to = "closed" /\ signal[r]
  BY <1>5 DEF Contract!Next, Contract!Withdraw, Contract!Move
<1>6. CASE from = "open" /\ to = "sealed" /\ ~signal[r]
  BY <1>6 DEF Contract!Next, Contract!Seal, Contract!Move
<1>7. CASE from \in {"open", "sealed"} /\ to = "failed"
  BY <1>7 DEF Contract!Next, Contract!Fail, Contract!Move
<1>8. CASE from = "sealed" /\ to = "committed"
  BY <1>8 DEF Contract!Next, Contract!Commit, Contract!Move
<1>9. CASE from \in {"committed", "failed"} /\ to = "closed"
  BY <1>9 DEF Contract!Next, Contract!Close, Contract!Move
<1> QED
  BY <1>1, <1>2, <1>3, <1>4, <1>5, <1>6, <1>7, <1>8, <1>9

OpenPc == {"spawned", "queued"} \cup Inside

\* The moves of the route and of the task, as the contract sees them.
RouteMove(r, p) ==
    \/ pc[r] = "idle" /\ p = "begun"
    \/ pc[r] = "begun" /\ p \in {"spawned", "done", "abandoned"}
    \/ pc[r] = "abandoned" /\ p = "orphaned"

TaskMove(r, p) ==
    \/ p = pc[r]
    \/ pc[r] \in OpenPc /\ p \in OpenPc \cup {"failing"}
    \/ pc[r] \in OpenPc /\ p = "closing" /\ signal[r]
    \/ pc[r] = "normalizing" /\ p = "sealed" /\ ~signal[r]
    \/ pc[r] = "sealed" /\ p = "persisting"
    \/ pc[r] = "persisting" /\ p \in {"committed", "failing"}
    \/ pc[r] \in {"committed", "failing", "closing"} /\ p = "closing"
    \/ pc[r] = "closing" /\ p = "done"

LEMMA RunMoves ==
    ASSUME TypeInv, NEW r \in Runs, StartRoute(r) \/ Task(r)
    PROVE  /\ UNCHANGED signal
           /\ \E p \in Pc : /\ pc' = [pc EXCEPT ![r] = p]
                            /\ RouteMove(r, p) \/ TaskMove(r, p)
<1> USE DEF Goto, RouteMove, TaskMove, OpenPc
<1>0. pc \in [Runs -> Pc] /\ pc = [pc EXCEPT ![r] = pc[r]]
  BY DEF TypeInv, TypeOK
<1>1. CASE StartRoute(r)
  BY <1>0, <1>1 DEF StartRoute, Start, SaveQueued, SaveQueuedFails, HangUp, LateSave
<1>2. CASE AcquirePermit(r) \/ OcrFails(r) \/ WorkerFails(r) \/ WorkerKilled(r)
  BY <1>2 DEF AcquirePermit, OcrFails, WorkerFails, WorkerKilled
<1>3. CASE StopIfCanceled(r) \/ Seal(r) \/ StopQueued(r) \/ PrepareFails(r)
  BY <1>3 DEF StopIfCanceled, Seal, StopQueued, PrepareFails
<1>4. CASE LoadSource(r) \/ LoadSourceFails(r) \/ LoadPages(r)
  BY <1>4 DEF LoadSource, LoadSourceFails, LoadPages
<1>5. CASE SendBatch(r) \/ BatchDone(r) \/ OcrDone(r) \/ Plan(r)
  BY <1>5 DEF SendBatch, BatchDone, OcrDone, Plan
<1>6. CASE ContextOnly(r) \/ PrepareWorker(r) \/ SpawnWorker(r) \/ WorkerSucceeds(r)
  BY <1>6 DEF ContextOnly, PrepareWorker, SpawnWorker, WorkerSucceeds
<1>7. CASE ReportNormalizing(r) \/ ReportPersisting(r) \/ PersistGraph(r) \/ PersistGraphFails(r)
  BY <1>7 DEF ReportNormalizing, ReportPersisting, PersistGraph, PersistGraphFails
<1>8. CASE ReportComplete(r) \/ ReportFailed(r) \/ Finish(r)
  BY <1>8 DEF ReportComplete, ReportFailed, Finish
<1>9. CASE ReportAgain(r) \/ SaveSnapshot(r)
  BY <1>0, <1>9 DEF ReportAgain, SaveSnapshot
<1> QED
  BY <1>1, <1>2, <1>3, <1>4, <1>5, <1>6, <1>7, <1>8, <1>9 DEF Task

LEMMA RunContract ==
    ASSUME TypeInv, NEW r \in Runs, StartRoute(r) \/ Task(r)
    PROVE  [Contract!Next]_(Contract!vars)
<1>1. UNCHANGED signal
  BY RunMoves
<1>2. PICK p \in Pc : /\ pc' = [pc EXCEPT ![r] = p]
                      /\ RouteMove(r, p) \/ TaskMove(r, p)
  BY RunMoves
<1>3. /\ phaseNow[r] = PhaseOf(pc[r])
      /\ phaseNow' = [phaseNow EXCEPT ![r] = PhaseOf(p)]
  BY <1>2, PhaseMoves
<1>4. \/ PhaseOf(pc[r]) = PhaseOf(p)
      \/ PhaseOf(pc[r]) = "idle" /\ PhaseOf(p) = "offered"
      \/ PhaseOf(pc[r]) = "offered" /\ PhaseOf(p) = "open"
      \/ PhaseOf(pc[r]) = "offered" /\ PhaseOf(p) = "closed"
      \/ PhaseOf(pc[r]) = "open" /\ PhaseOf(p) = "closed" /\ signal[r]
      \/ PhaseOf(pc[r]) = "open" /\ PhaseOf(p) = "sealed" /\ ~signal[r]
      \/ PhaseOf(pc[r]) \in {"open", "sealed"} /\ PhaseOf(p) = "failed"
      \/ PhaseOf(pc[r]) = "sealed" /\ PhaseOf(p) = "committed"
      \/ PhaseOf(pc[r]) \in {"committed", "failed"} /\ PhaseOf(p) = "closed"
  <2>1. CASE RouteMove(r, p)
    BY <2>1, PhaseTable DEF RouteMove
  <2>2. CASE TaskMove(r, p)
    BY <2>2, PhaseTable DEF TaskMove, OpenPc
  <2> QED
    BY <1>2, <2>1, <2>2
<1> HIDE DEF Pc
<1> QED
  BY <1>1, <1>3, <1>4, ContractStep

LEMMA CancelContract ==
    ASSUME TypeInv, RegistryInv, NEW c \in Cancels, CancelRoute(c)
    PROVE  [Contract!Next]_(Contract!vars)
<1>1. ASSUME NEW i \in Imports, Cancel(c, i) PROVE [Contract!Next]_(Contract!vars)
  <2>1. /\ owner[i] \in Runs /\ pc[owner[i]] \in Working \cup Orphan
        /\ pc' = pc /\ signal' = [signal EXCEPT ![owner[i]] = TRUE]
    BY <1>1 DEF Cancel, RegistryInv, RunningIsBacked, RunsOf
  <2>2. PhaseOf(pc[owner[i]]) \notin {"idle", "closed"}
    BY <2>1, PhaseTable
  <2>3. Contract!Tell(owner[i])
    BY <2>1, <2>2 DEF Contract!Tell
  <2> QED
    BY <2>1, <2>3 DEF Contract!Next
<1>2. CASE ~\E i \in Imports : Cancel(c, i)
  <2>1. UNCHANGED <<pc, signal>>
    BY <1>2 DEF CancelRoute, CancelLate, CancelUnknown, ReadRow, ReadNoRow,
                WriteMarker, SaveCancel, CancelHangsUp, runVars
  <2> QED
    BY <2>1 DEF Contract!vars
<1> QED
  BY <1>1, <1>2

\* Every run is decided once: it seals its result only if it was not told to
\* stop before, commits only what it sealed, and nothing leaves "closed".
THEOREM ContractKept == Spec => KeepsContract
<1>1. Init => Contract!Init
  BY PhaseTable DEF Init, Contract!Init
<1>2. TypeInv /\ RegistryInv /\ [Next]_vars => [Contract!Next]_(Contract!vars)
  <2> SUFFICES ASSUME TypeInv, RegistryInv, [Next]_vars
               PROVE  [Contract!Next]_(Contract!vars)
    OBVIOUS
  <2>1. ASSUME NEW r \in Runs, StartRoute(r) \/ Task(r)
        PROVE  [Contract!Next]_(Contract!vars)
    BY <2>1, RunContract
  <2>2. ASSUME NEW c \in Cancels, CancelRoute(c)
        PROVE  [Contract!Next]_(Contract!vars)
    BY <2>2, CancelContract
  <2>3. CASE Crash
    <3>1. \A r \in Runs : PhaseOf(pc'[r]) = IF PhaseOf(pc[r]) = "idle" THEN "idle"
                                            ELSE "closed"
      BY <2>3, PhaseTable DEF Crash, TypeInv, TypeOK
    <3>2. Contract!Die
      BY <2>3, <3>1 DEF Crash, Contract!Die
    <3> QED
      BY <3>2 DEF Contract!Next
  <2>4. CASE UNCHANGED vars
    BY <2>4 DEF vars, runVars, Contract!vars
  <2> QED
    BY <2>1, <2>2, <2>3, <2>4 DEF Next
<1>3. QED
  BY <1>1, <1>2, TypeInvInductive, RegistryInductive, PTL
     DEF Spec, KeepsContract, Contract!Spec

-----------------------------------------------------------------------------
(* The persisted row.  SettledRow alone is not inductive: what makes the   *)
(* row right in the end is that the newest snapshot still waiting is the   *)
(* entry, and that nobody else writes the row.                             *)

Newest(s) == s[Len(s)]

\* A run that has not begun to report, or has ended, has nothing to persist.
Drained ==
    \A r \in Runs : pc[r] \in Settled \cup {"begun", "abandoned"} => channel[r] = <<>>

\* The entry of i has one writer, its owner; so has the row, unless a cancel
\* that came too late rewrites what the row will hold anyway.
Steady(i) ==
    /\ entry[i] # "canceled"
    /\ \A r \in RunsOf(i) :
          /\ pc[r] \notin Settled => owner[i] = r
          /\ pc[r] # "abandoned"
          /\ pc[r] \in Working => entry[i] = "running"
          /\ channel[r] # <<>> => Newest(channel[r]) = entry[i]
    /\ (\A r \in RunsOf(i) : channel[r] = <<>> /\ pc[r] # "begun") => row[i] = entry[i]
    /\ \A c \in Cancels : cpc[c] # "idle" /\ cjob[c] = i =>
          cpc[c] = "save" /\ csnap[c] = entry[i] /\ entry[i] # "running"

RowInv ==
    /\ Drained
    /\ \A i \in Imports \ disturbed : entry[i] # "absent" => Steady(i)

\* The newest of the waiting snapshots after one is queued or persisted.
LEMMA NewestSnapshot ==
    ASSUME NEW s \in Seq(JobState), NEW e \in JobState
    PROVE  /\ Append(s, e) # <<>> /\ Newest(Append(s, e)) = e
           /\ s # <<>> /\ Tail(s) = <<>> => Head(s) = Newest(s)
           /\ s # <<>> /\ Tail(s) # <<>> => Newest(Tail(s)) = Newest(s)
<1> HIDE DEF JobState
<1>1. Append(s, e) # <<>> /\ Newest(Append(s, e)) = e
  BY DEF Newest
<1>2. ASSUME s # <<>> PROVE Len(s) \in Nat \ {0} /\ Len(Tail(s)) = Len(s) - 1
  BY <1>2
<1>3. ASSUME s # <<>>, Tail(s) = <<>> PROVE Head(s) = Newest(s)
  <2>0. Len(<<>>) = 0
    OBVIOUS
  <2>1. Len(Tail(s)) = 0
    BY <1>3, <2>0, Zenon
  <2>2. Len(s) = 1
    BY <1>2, <1>3, <2>1
  <2> QED
    BY <2>2 DEF Newest
<1>4. ASSUME s # <<>>, Tail(s) # <<>> PROVE Newest(Tail(s)) = Newest(s)
  <2>1. Tail(s) \in Seq(JobState) /\ Len(Tail(s)) \in Nat \ {0}
    BY <1>4
  <2> QED
    BY <1>2, <1>4, <2>1 DEF Newest
<1> QED
  BY <1>1, <1>3, <1>4

LEMMA DrainedStep ==
    ASSUME TypeInv, Drained, [Next]_vars
    PROVE  Drained'
<1> USE DEF Drained, Goto
<1>0. pc \in [Runs -> Pc] /\ channel \in [Runs -> Seq(JobState)]
  BY DEF TypeInv, TypeOK
<1>1. ASSUME NEW r \in Runs, StartRoute(r) PROVE Drained'
  BY <1>0, <1>1 DEF StartRoute, Start, SaveQueued, SaveQueuedFails, HangUp, LateSave
<1>2. ASSUME NEW r \in Runs, Task(r) PROVE Drained'
  <2>1. CASE Advance(r)
    BY <1>0, <2>1 DEF Advance
  <2>2. CASE Withdraw(r) \/ Finish(r)
    BY <1>0, <2>2 DEF Withdraw, Finish
  <2>3. CASE ReportComplete(r) \/ ReportFailed(r)
    BY <1>0, <2>3 DEF ReportComplete, ReportFailed, Conclude
  <2>4. CASE SaveSnapshot(r)
    BY <1>0, <2>4 DEF SaveSnapshot
  <2> QED
    BY <1>2, <2>1, <2>2, <2>3, <2>4, TaskKinds
<1>3. ASSUME NEW c \in Cancels, CancelRoute(c) PROVE Drained'
  BY <1>3 DEF CancelRoute, Cancel, CancelLate, CancelUnknown, ReadRow,
              ReadNoRow, WriteMarker, SaveCancel, CancelHangsUp, runVars
<1>4. CASE Crash
  BY <1>4 DEF Crash
<1>5. CASE UNCHANGED vars
  BY <1>5 DEF vars, runVars
<1> QED
  BY <1>1, <1>2, <1>3, <1>4, <1>5 DEF Next

LEMMA SteadyRoute ==
    ASSUME TypeInv, RowInv, NEW r \in Runs, StartRoute(r),
           NEW i \in Imports \ disturbed', entry'[i] # "absent"
    PROVE  Steady(i)'
<1> USE DEF Steady, RunsOf, Goto, registryVars, diskVars, cancelVars
<1>0. /\ pc \in [Runs -> Pc] /\ job \in [Runs -> Imports \cup {NoImport}]
      /\ entry \in [Imports -> JobState \cup {"absent"}]
      /\ row \in [Imports -> JobState \cup {"none"}]
      /\ owner \in [Imports -> Runs \cup {NoRun}]
  BY DEF TypeInv, TypeOK
<1>1. ASSUME NEW j \in Imports, Start(j, r) PROVE Steady(i)'
  <2>1. /\ entry' = [entry EXCEPT ![j] = "running"]
        /\ owner' = [owner EXCEPT ![j] = r]
        /\ pc'[r] = "begun" /\ job'[r] = j
        /\ UNCHANGED <<channel, row, cpc, cjob, csnap>>
        /\ pc[r] = "idle" /\ channel[r] = <<>>
    BY <1>0, <1>1 DEF Start, TypeInv, Placed
  <2>2. \A t \in Runs : t # r => pc'[t] = pc[t] /\ job'[t] = job[t]
    BY <1>0, <1>1 DEF Start
  <2>3. CASE i = j
    <3>1. /\ \A t \in RunsOf(i) : pc[t] \in Settled
          /\ \A c \in Cancels : cpc[c] # "idle" => cjob[c] # i
      BY <1>1, <2>3 DEF Start, Quiet
    <3>2. \A t \in RunsOf(i) : channel[t] = <<>>
      BY <3>1 DEF RowInv, Drained
    <3>3. entry'[i] = "running" /\ owner'[i] = r
      BY <1>0, <2>1, <2>3
    <3> QED
      BY <2>1, <2>2, <2>3, <3>1, <3>2, <3>3
  <2>4. CASE i # j
    <3>1. entry'[i] = entry[i] /\ owner'[i] = owner[i] /\ i \notin disturbed
      BY <1>0, <1>1, <2>1, <2>4 DEF Start
    <3>2. Steady(i)
      BY <3>1 DEF RowInv
    <3> QED
      BY <2>1, <2>2, <2>4, <3>1, <3>2
  <2> QED
    BY <2>3, <2>4
<1>2. CASE SaveQueued(r)
  <2>1. Steady(i) /\ job[r] \in Imports
    BY <1>2 DEF SaveQueued, RowInv, TypeInv, Placed
  <2>2. /\ row' = [row EXCEPT ![job[r]] = "running"]
        /\ pc[r] = "begun" /\ pc' = [pc EXCEPT ![r] = "spawned"]
        /\ UNCHANGED <<entry, owner, job, channel, cpc, cjob, csnap>>
    BY <1>2 DEF SaveQueued
  <2>3. CASE i = job[r]
    BY <1>0, <2>1, <2>2, <2>3
  <2>4. CASE i # job[r]
    BY <1>0, <2>1, <2>2, <2>4
  <2> QED
    BY <2>3, <2>4
<1>3. CASE SaveQueuedFails(r)
  <2>1. /\ i # job[r] /\ i \notin disturbed
        /\ entry' = [entry EXCEPT ![job[r]] = Updated(job[r], "failed")]
        /\ pc' = [pc EXCEPT ![r] = "done"]
        /\ UNCHANGED <<owner, job, channel, row, cpc, cjob, csnap>>
    BY <1>3 DEF SaveQueuedFails
  <2>2. entry'[i] = entry[i] /\ Steady(i)
    BY <1>0, <2>1 DEF RowInv
  <2> QED
    BY <1>0, <2>1, <2>2
<1>4. CASE HangUp(r)
  <2>1. /\ i # job[r] /\ i \notin disturbed
        /\ pc' = [pc EXCEPT ![r] = "abandoned"]
        /\ UNCHANGED <<entry, owner, job, channel, row, cpc, cjob, csnap>>
    BY <1>4 DEF HangUp
  <2>2. Steady(i)
    BY <2>1 DEF RowInv
  <2> QED
    BY <1>0, <2>1, <2>2
<1>5. CASE LateSave(r)
  <2>1. Steady(i) /\ pc[r] = "abandoned"
    BY <1>5 DEF LateSave, RowInv
  <2>2. i # job[r]
    BY <2>1
  <2>3. row'[i] = row[i]
    BY <1>0, <1>5, <2>2 DEF LateSave
  <2> QED
    BY <1>0, <1>5, <2>1, <2>2, <2>3 DEF LateSave
<1> QED
  BY <1>1, <1>2, <1>3, <1>4, <1>5 DEF StartRoute

LEMMA SteadyTask ==
    ASSUME TypeInv, RowInv, NEW r \in Runs, Task(r),
           NEW i \in Imports \ disturbed', entry'[i] # "absent"
    PROVE  Steady(i)'
<1> USE DEF Steady, RunsOf, Goto, registryVars, diskVars, cancelVars
<1>0. /\ pc \in [Runs -> Pc] /\ channel \in [Runs -> Seq(JobState)]
      /\ entry \in [Imports -> JobState \cup {"absent"}]
      /\ row \in [Imports -> JobState \cup {"none"}]
  BY DEF TypeInv, TypeOK
<1>1. CASE Advance(r)
  <2>1. /\ Steady(i) /\ job[r] \in Imports /\ pc[r] \in Working \ {"begun"}
        /\ pc'[r] \in Working \ {"begun"} /\ entry[job[r]] \in JobState
        /\ UNCHANGED <<entry, owner, job, row, cpc, cjob, csnap>>
    BY <1>0, <1>1 DEF Advance, RowInv, TypeInv, Placed
  <2>2. \A t \in Runs : t # r => pc'[t] = pc[t] /\ channel'[t] = channel[t]
    BY <1>0, <1>1 DEF Advance
  <2>3. CASE UNCHANGED channel
    BY <2>1, <2>2, <2>3
  <2>4. CASE channel' = [channel EXCEPT ![r] = Append(@, entry[job[r]])]
    <3>1. channel'[r] # <<>> /\ Newest(channel'[r]) = entry[job[r]]
      BY <1>0, <2>1, <2>4, NewestSnapshot
    <3> QED
      BY <2>1, <2>2, <3>1
  <2> QED
    BY <1>1, <2>3, <2>4 DEF Advance
<1>2. CASE Withdraw(r) \/ Finish(r)
  <2>1. /\ Steady(i) /\ pc[r] \notin Settled \cup {"begun"}
        /\ pc'[r] \in {"closing", "done"}
        /\ \A t \in Runs : t # r => pc'[t] = pc[t]
        /\ UNCHANGED <<entry, owner, job, channel, row, cpc, cjob, csnap>>
    BY <1>0, <1>2 DEF Withdraw, Finish, RowInv
  <2> QED
    BY <2>1
<1>3. CASE ReportComplete(r) \/ ReportFailed(r)
  <2>1. PICK s \in {"complete", "failed"} : Conclude(r, s)
    BY <1>3 DEF ReportComplete, ReportFailed
  <2>2. /\ pc[r] \in {"committed", "failing"} /\ pc' = [pc EXCEPT ![r] = "closing"]
        /\ i \notin disturbed /\ job[r] \in Imports
        /\ UNCHANGED <<job, row, cpc, cjob, csnap>>
    BY <1>3 DEF ReportComplete, ReportFailed, TypeInv, Placed
  <2>3. \A t \in Runs : t # r => pc'[t] = pc[t] /\ channel'[t] = channel[t]
    BY <1>0, <2>1, <2>2 DEF Conclude
  <2>4. /\ pc'[r] = "closing" /\ owner' = owner
        /\ \A j \in Imports : j # job[r] => entry'[j] = entry[j]
        /\ entry'[job[r]] = Updated(job[r], s)
        /\ channel'[r] = Append(channel[r], Updated(job[r], s))
    BY <1>0, <2>1, <2>2 DEF Conclude
  <2>5. CASE i = job[r]
    <3>1. Steady(i) /\ entry[i] = "running"
      BY <2>2, <2>5 DEF RowInv, TypeInv, Placed
    <3>2. entry'[i] = s /\ channel'[r] # <<>> /\ Newest(channel'[r]) = s
      BY <1>0, <2>4, <2>5, <3>1, NewestSnapshot DEF Updated
    <3>3. \A t \in RunsOf(i) : t # r => pc[t] \in Settled /\ channel[t] = <<>>
      BY <2>2, <2>5, <3>1 DEF RowInv, Drained
    <3>4. \A c \in Cancels : cpc[c] # "idle" => cjob[c] # i
      BY <3>1
    <3>5. /\ entry'[i] \notin {"canceled", "running"}
          /\ r \in RunsOf(i) /\ RunsOf(i)' = RunsOf(i) /\ owner[i] = r
      BY <2>2, <2>5, <3>1, <3>2
    <3>6. ASSUME NEW t \in RunsOf(i)
          PROVE  /\ pc'[t] \notin Settled => owner'[i] = t
                 /\ pc'[t] # "abandoned" /\ pc'[t] \notin Working
                 /\ channel'[t] # <<>> => Newest(channel'[t]) = entry'[i]
      BY <2>3, <2>4, <3>2, <3>3, <3>5
    <3>7. \A c \in Cancels : cpc'[c] # "idle" => cjob'[c] # i
      BY <2>2, <3>4
    <3> HIDE DEF RunsOf
    <3> QED
      BY <3>2, <3>5, <3>6, <3>7
  <2>6. CASE i # job[r]
    <3>1. Steady(i) /\ entry'[i] = entry[i]
      BY <2>2, <2>4, <2>6 DEF RowInv
    <3> QED
      BY <2>2, <2>3, <2>4, <2>6, <3>1
  <2> QED
    BY <2>5, <2>6
<1>4. CASE SaveSnapshot(r)
  <2>1. /\ i \notin disturbed /\ Steady(i)
        /\ channel[r] # <<>> /\ channel'[r] = Tail(channel[r])
        /\ \A t \in Runs : t # r => channel'[t] = channel[t]
        /\ UNCHANGED <<entry, owner, pc, job, cpc, cjob, csnap>>
        /\ job[r] \in Imports /\ pc[r] \notin Settled
    BY <1>0, <1>4 DEF SaveSnapshot, RowInv, Drained, TypeInv, Placed
  <2>2. CASE i = job[r]
    <3>1. Newest(channel[r]) = entry[i] /\ row'[i] = Head(channel[r])
      BY <1>0, <1>4, <2>1, <2>2 DEF SaveSnapshot
    <3>2. channel[r] \in Seq(JobState) /\ r \in RunsOf(i)
      BY <1>0, <2>2
    <3>3. /\ channel'[r] = <<>> => row'[i] = entry[i]
          /\ channel'[r] # <<>> => Newest(channel'[r]) = entry[i]
      BY <2>1, <3>1, <3>2, NewestSnapshot
    <3>4. ASSUME NEW t \in RunsOf(i)
          PROVE  channel'[t] # <<>> => Newest(channel'[t]) = entry[i]
      BY <2>1, <3>3
    <3>5. ASSUME \A t \in RunsOf(i) : channel'[t] = <<>> /\ pc[t] # "begun"
          PROVE  row'[i] = entry[i]
      BY <3>2, <3>3, <3>5
    <3>6. RunsOf(i)' = RunsOf(i)
      BY <2>1
    <3> HIDE DEF RunsOf
    <3> QED
      BY <2>1, <3>4, <3>5, <3>6
  <2>3. CASE i # job[r]
    <3>1. row'[i] = row[i]
      BY <1>0, <1>4, <2>1, <2>3 DEF SaveSnapshot
    <3> QED
      BY <2>1, <2>3, <3>1
  <2> QED
    BY <2>2, <2>3
<1> QED
  BY <1>1, <1>2, <1>3, <1>4, TaskKinds

LEMMA SteadyCancel ==
    ASSUME TypeInv, RowInv, NEW c \in Cancels, CancelRoute(c),
           NEW i \in Imports \ disturbed', entry'[i] # "absent"
    PROVE  Steady(i)'
<1> USE DEF Steady, RunsOf, registryVars, runVars, diskVars
<1>0. /\ entry \in [Imports -> JobState \cup {"absent"}]
      /\ row \in [Imports -> JobState \cup {"none"}]
      /\ cpc \in [Cancels -> {"idle", "read", "mark", "save"}]
      /\ cjob \in [Cancels -> Imports \cup {NoImport}]
      /\ csnap \in [Cancels -> JobState]
  BY DEF TypeInv, TypeOK
<1>1. ASSUME NEW j \in Imports, Cancel(c, j) PROVE Steady(i)'
  <2>1. i # j /\ i \notin disturbed
    BY <1>1 DEF Cancel
  <2>2. entry'[i] = entry[i] /\ Steady(i)
    BY <1>0, <1>1, <2>1 DEF Cancel, RowInv
  <2>3. /\ UNCHANGED <<owner, pc, job, channel, row>>
        /\ cjob'[c] = j
        /\ \A d \in Cancels : d # c => cpc'[d] = cpc[d] /\ cjob'[d] = cjob[d]
                                       /\ csnap'[d] = csnap[d]
    BY <1>0, <1>1 DEF Cancel
  <2> QED
    BY <2>1, <2>2, <2>3
<1>2. ASSUME NEW j \in Imports, CancelLate(c, j) PROVE Steady(i)'
  <2>1. /\ Steady(i)
        /\ UNCHANGED <<entry, owner, pc, job, channel, row>>
        /\ entry[j] \in Terminal
        /\ cjob'[c] = j /\ csnap'[c] = entry[j] /\ cpc'[c] = MarkOrSave(entry[j])
        /\ \A d \in Cancels : d # c => cpc'[d] = cpc[d] /\ cjob'[d] = cjob[d]
                                       /\ csnap'[d] = csnap[d]
    BY <1>0, <1>2 DEF CancelLate, RowInv
  <2>2. CASE i = j
    <3>1. cpc'[c] = "save"
      BY <2>1, <2>2 DEF MarkOrSave
    <3> QED
      BY <2>1, <2>2, <3>1
  <2>3. CASE i # j
    BY <2>1, <2>3
  <2> QED
    BY <2>2, <2>3
<1>3. ASSUME NEW j \in Imports, CancelUnknown(c, j) PROVE Steady(i)'
  <2>1. /\ Steady(i) /\ i # j
        /\ UNCHANGED <<entry, owner, pc, job, channel, row, csnap>>
        /\ cjob'[c] = j
        /\ \A d \in Cancels : d # c => cpc'[d] = cpc[d] /\ cjob'[d] = cjob[d]
    BY <1>0, <1>3 DEF CancelUnknown, RowInv
  <2> QED
    BY <2>1
<1>4. CASE ReadRow(c) \/ ReadNoRow(c) \/ WriteMarker(c) \/ CancelHangsUp(c)
  <2>1. /\ Steady(i) /\ cpc[c] \in {"read", "mark"}
        /\ UNCHANGED <<entry, owner, pc, job, channel, row>>
        /\ cjob'[c] = cjob[c] \/ cpc'[c] = "idle"
        /\ \A d \in Cancels : d # c => cpc'[d] = cpc[d] /\ cjob'[d] = cjob[d]
                                       /\ csnap'[d] = csnap[d]
    BY <1>0, <1>4 DEF ReadRow, ReadNoRow, WriteMarker, CancelHangsUp, RowInv
  <2>2. cjob[c] # i
    BY <2>1
  <2> QED
    BY <2>1, <2>2
<1>5. CASE SaveCancel(c)
  <2>1. /\ Steady(i) /\ cpc[c] = "save" /\ cpc'[c] = "idle"
        /\ UNCHANGED <<entry, owner, pc, job, channel>>
        /\ \A d \in Cancels : d # c => cpc'[d] = cpc[d] /\ cjob'[d] = cjob[d]
                                       /\ csnap'[d] = csnap[d]
    BY <1>0, <1>5 DEF SaveCancel, RowInv
  <2>2. row'[i] = IF cjob[c] = i /\ row' # row THEN csnap[c] ELSE row[i]
    BY <1>0, <1>5 DEF SaveCancel
  <2>3. cjob[c] = i => csnap[c] = entry[i]
    BY <2>1
  <2> QED
    BY <2>1, <2>2, <2>3
<1> QED
  BY <1>1, <1>2, <1>3, <1>4, <1>5 DEF CancelRoute

\* Once a start and all around it has settled undisturbed, the persisted row
\* says what the registry says.
THEOREM RowSettles == Spec => []SettledRow
<1>1. Init => RowInv
  BY DEF Init, RowInv, Drained
<1>2. TypeInv /\ RowInv /\ [Next]_vars => RowInv'
  <2> SUFFICES ASSUME TypeInv, RowInv, [Next]_vars,
                      NEW i \in Imports \ disturbed', entry'[i] # "absent"
               PROVE  Steady(i)'
    BY DrainedStep DEF RowInv
  <2>1. ASSUME NEW r \in Runs, StartRoute(r) \/ Task(r) PROVE Steady(i)'
    BY <2>1, SteadyRoute, SteadyTask
  <2>2. ASSUME NEW c \in Cancels, CancelRoute(c) PROVE Steady(i)'
    BY <2>2, SteadyCancel
  <2>3. CASE Crash
    BY <2>3 DEF Crash
  <2>4. CASE UNCHANGED vars
    BY <2>4 DEF vars, registryVars, runVars, diskVars, cancelVars, RowInv,
                Steady, RunsOf
  <2> QED
    BY <2>1, <2>2, <2>3, <2>4 DEF Next
<1>3. RowInv => SettledRow
  BY DEF RowInv, Drained, Steady, SettledRow, Quiet, RunsOf
<1>4. QED
  BY <1>1, <1>2, <1>3, TypeInvInductive, PTL DEF Spec
=============================================================================
