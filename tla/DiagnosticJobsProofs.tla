------------------------ MODULE DiagnosticJobsProofs ------------------------
(***************************************************************************)
(* Proofs about DiagnosticJobs, for any number of diagnostics and permits  *)
(* and every fault.                                                        *)
(***************************************************************************)
EXTENDS DiagnosticJobs, FiniteSetTheorems, SequenceTheorems, TLAPS

\* Before its result file is whole, nothing says of an introduction diagnostic
\* that it is complete, and memory does not hold its result.
Before == Unknown \cup {"spawned", "queued", "inside", "ran", "writing"}

ResultInv(j) ==
    /\ j \in memory => artifact[j] = "whole"
    /\ pc[j] \in {"written", "put"} => artifact[j] = "whole"
    /\ pc[j] \in Before => artifact[j] # "whole"
    /\ j \in Introductions /\ artifact[j] # "whole" =>
         /\ "complete" \notin {entry[j], row[j], canceling[j]}
         /\ channel[j] \in Seq(JobState \ {"complete"})

\* Where the entry stands in the life of a job, and what may still be written
\* over the row behind it.
StageInv(j) ==
    /\ pc[j] = "idle" => entry[j] = "absent" /\ row[j] = "none"
    /\ pc[j] \in {"begun", "abandoned"} => entry[j] = "running"
    /\ pc[j] \in Unknown => canceling[j] = "none" /\ entry[j] \in {"running", "absent"}
    /\ pc[j] \in Unknown => row[j] \in {"none", "running"}
    /\ pc[j] \notin Unknown => row[j] # "none"
    /\ pc[j] \notin Unknown \cup {"gone"} => entry[j] # "absent"

PendingInv(j) ==
    /\ entry[j] = "absent" =>
         /\ channel[j] = <<>>
         /\ canceling[j] \in {"none", OrCanceled(row[j])}
    /\ entry[j] = "running" =>
         /\ row[j] \in {"none", "running"}
         /\ canceling[j] = "none"
         /\ channel[j] \in Seq({"running"})
    /\ entry[j] = "canceled" =>
         /\ row[j] \in {"none", "running", "canceled"}
         /\ canceling[j] \in {"none", "canceled"}
         /\ channel[j] \in Seq({"running", "canceled"})

JobInv(j) == ResultInv(j) /\ StageInv(j) /\ PendingInv(j)

JobsInv == \A j \in Jobs : JobInv(j)

JobStep(j) == StartRoute(j) \/ Pipeline(j) \/ Conclusion(j) \/ CancelRoute(j)

-----------------------------------------------------------------------------
(* Types.                                                                  *)

LEMMA ChannelTypes ==
    ASSUME TypeOK, NEW j \in Jobs
    PROVE  /\ \A s \in JobState :
                 [channel EXCEPT ![j] = Append(@, s)] \in [Jobs -> Seq(JobState)]
           /\ channel[j] # <<>> =>
                 /\ [channel EXCEPT ![j] = Tail(@)] \in [Jobs -> Seq(JobState)]
                 /\ Head(channel[j]) \in JobState
<1>1. channel \in [Jobs -> Seq(JobState)] /\ channel[j] \in Seq(JobState)
  BY DEF TypeOK
<1> HIDE DEF JobState
<1>2. ASSUME NEW s \in JobState PROVE Append(channel[j], s) \in Seq(JobState)
  BY <1>1
<1>3. ASSUME channel[j] # <<>>
      PROVE  Tail(channel[j]) \in Seq(JobState) /\ Head(channel[j]) \in JobState
  BY <1>1, <1>3
<1> QED
  BY <1>1, <1>2, <1>3

\* A report keeps the types of the entry and of the channel.
LEMMA ReportTypes ==
    ASSUME TypeOK, NEW j \in Jobs, NEW s \in JobState, Report(j, s)
    PROVE  /\ entry' \in [Jobs -> JobState \cup {"absent"}]
           /\ channel' \in [Jobs -> Seq(JobState)]
<1>1. Updated(j, s) \in JobState
  BY DEF Updated, JobState
<1>2. entry' = [entry EXCEPT ![j] = Updated(j, s)]
  BY DEF Report
<1>3. channel' = [channel EXCEPT ![j] = Append(@, Updated(j, s))]
  BY DEF Report
<1> QED
  BY <1>1, <1>2, <1>3, ChannelTypes DEF TypeOK

LEMMA RouteTypes ==
    ASSUME TypeOK, NEW j \in Jobs, StartRoute(j) \/ CancelRoute(j)
    PROVE  TypeOK'
<1> USE DEF TypeOK, JobState, Unknown, Pc, Goto
<1>1. CASE Start(j) \/ SaveQueued(j) \/ SaveQueuedFails(j)
  BY <1>1 DEF Start, SaveQueued, SaveQueuedFails
<1>2. CASE HangUp(j) \/ LateSave(j)
  BY <1>2 DEF HangUp, LateSave
<1>3. CASE Cancel(j)
  BY <1>3 DEF Cancel, OrCanceled
<1>4. CASE SaveCancel(j)
  BY <1>4 DEF SaveCancel
<1> QED
  BY <1>1, <1>2, <1>3, <1>4 DEF StartRoute, CancelRoute

LEMMA PipelineTypes ==
    ASSUME TypeOK, JobsInv, NEW j \in Jobs, Pipeline(j)
    PROVE  TypeOK'
<1>1. CASE LoadSource(j) \/ ReportProgress(j)
  <2>1. entry[j] \in JobState
    BY <1>1 DEF LoadSource, ReportProgress, Goto, TypeOK, JobsInv, JobInv, StageInv, Unknown
  <2>2. Report(j, entry[j])
    BY <1>1 DEF LoadSource, ReportProgress
  <2>3. /\ entry' \in [Jobs -> JobState \cup {"absent"}]
        /\ channel' \in [Jobs -> Seq(JobState)]
    BY <2>1, <2>2, ReportTypes
  <2>4. pc' \in [Jobs -> Pc]
    BY <1>1 DEF LoadSource, ReportProgress, Goto, TypeOK, Pc
  <2> QED
    BY <1>1, <2>3, <2>4 DEF LoadSource, ReportProgress, TypeOK
<1>2. CASE LoadSourceFails(j) \/ StopQueued(j)
  BY <1>2 DEF LoadSourceFails, StopQueued, TypeOK, Goto, Pc
<1>3. CASE AcquirePermit(j)
  BY <1>3 DEF AcquirePermit, TypeOK, Goto, Pc
<1>4. CASE LeavePipeline(j)
  BY <1>4 DEF LeavePipeline, TypeOK, Goto, Pc
<1> QED
  BY <1>1, <1>2, <1>3, <1>4 DEF Pipeline

LEMMA ConclusionTypes ==
    ASSUME TypeOK, NEW j \in Jobs, Conclusion(j)
    PROVE  TypeOK'
<1>1. CASE OpenResult(j) \/ WriteResult(j) \/ WriteFails(j)
  BY <1>1 DEF OpenResult, WriteResult, WriteFails, TypeOK, Goto, Pc
<1>2. CASE PutResult(j) \/ Finish(j)
  BY <1>2 DEF PutResult, Finish, TypeOK, Goto, Pc
<1>3. CASE ReportComplete(j) \/ ReportFailed(j)
  <2>1. Report(j, "complete") \/ Report(j, "failed")
    BY <1>3 DEF ReportComplete, ReportFailed
  <2>2. /\ entry' \in [Jobs -> JobState \cup {"absent"}]
        /\ channel' \in [Jobs -> Seq(JobState)]
    BY <2>1, ReportTypes DEF JobState
  <2>3. pc' \in [Jobs -> Pc]
    BY <1>3 DEF ReportComplete, ReportFailed, Goto, TypeOK, Pc
  <2> QED
    BY <1>3, <2>2, <2>3 DEF ReportComplete, ReportFailed, TypeOK
<1>4. CASE SaveSnapshot(j)
  <2>1. /\ channel' \in [Jobs -> Seq(JobState)]
        /\ Head(channel[j]) \in JobState
    BY <1>4, ChannelTypes DEF SaveSnapshot
  <2>2. row' \in [Jobs -> JobState \cup {"none"}]
    BY <1>4, <2>1 DEF SaveSnapshot, TypeOK
  <2> QED
    BY <1>4, <2>1, <2>2 DEF SaveSnapshot, TypeOK
<1> QED
  BY <1>1, <1>2, <1>3, <1>4 DEF Conclusion

LEMMA CrashTypes ==
    ASSUME TypeOK, Crash
    PROVE  TypeOK'
<1>1. channel' \in [Jobs -> Seq(JobState)]
  BY DEF Crash
<1>2. permits' \in Nat
  BY DiagnosticsAssumption DEF Crash
<1>3. pc' \in [Jobs -> Pc]
  BY DEF Crash, Pc, Unknown
<1> QED
  BY <1>1, <1>2, <1>3 DEF Crash, TypeOK

-----------------------------------------------------------------------------
(* The invariant.  A step of one job leaves the others alone.              *)

Same(k) ==
    /\ UNCHANGED <<entry[k], pc[k], channel[k], canceling[k], row[k], artifact[k]>>
    /\ k \in memory' <=> k \in memory

LEMMA OthersSame ==
    ASSUME TypeOK, NEW j \in Jobs, JobStep(j), NEW k \in Jobs, k # j
    PROVE  Same(k)
<1> USE DEF TypeOK, Goto, Same
<1>1. CASE StartRoute(j)
  BY <1>1 DEF StartRoute, Start, SaveQueued, SaveQueuedFails, HangUp, LateSave
<1>2. CASE Pipeline(j)
  BY <1>2 DEF Pipeline, LoadSource, LoadSourceFails, AcquirePermit, StopQueued,
              ReportProgress, LeavePipeline, Report
<1>3. CASE Conclusion(j)
  BY <1>3 DEF Conclusion, OpenResult, WriteResult, WriteFails, PutResult,
              ReportComplete, ReportFailed, SaveSnapshot, Finish, Report
<1>4. CASE CancelRoute(j)
  BY <1>4 DEF CancelRoute, Cancel, SaveCancel
<1> QED
  BY <1>1, <1>2, <1>3, <1>4 DEF JobStep

LEMMA SameKeeps ==
    ASSUME NEW k \in Jobs, JobInv(k), Same(k)
    PROVE  JobInv(k)'
BY DEF JobInv, ResultInv, StageInv, PendingInv, Same, OrCanceled

LEMMA RouteKeeps ==
    ASSUME TypeOK, NEW j \in Jobs, JobInv(j), StartRoute(j)
    PROVE  JobInv(j)'
<1> USE DEF TypeOK, Goto, JobInv, Unknown, Before
<1>1. channel[j] = <<>> => channel[j] \in Seq({"running"})
  OBVIOUS
<1>2. CASE Start(j)
  BY <1>1, <1>2 DEF Start, ResultInv, StageInv, PendingInv
<1>3. CASE SaveQueued(j)
  BY <1>3 DEF SaveQueued, ResultInv, StageInv, PendingInv
<1>4. CASE SaveQueuedFails(j) \/ HangUp(j)
  BY <1>4 DEF SaveQueuedFails, HangUp, ResultInv, StageInv, PendingInv
<1>5. CASE LateSave(j)
  BY <1>5 DEF LateSave, ResultInv, StageInv, PendingInv, OrCanceled
<1> QED
  BY <1>2, <1>3, <1>4, <1>5 DEF StartRoute

\* A report says again what the entry says, or concludes it; while a result is
\* missing it does not conclude it with "complete".
LEMMA ReportKeeps ==
    ASSUME TypeOK, NEW j \in Jobs, JobInv(j), NEW s \in JobState, Report(j, s),
           s = entry[j] \/ s \in {"complete", "failed"},
           UNCHANGED <<memory, canceling, row, artifact>>,
           pc[j] \notin Unknown \cup {"gone"},
           s = "complete" /\ j \in Introductions => artifact[j] = "whole"
    PROVE  /\ PendingInv(j)'
           /\ entry'[j] \in JobState
           /\ j \in Introductions /\ artifact'[j] # "whole" =>
                /\ "complete" \notin {entry'[j], row'[j], canceling'[j]}
                /\ channel'[j] \in Seq(JobState \ {"complete"})
<1> DEFINE u == Updated(j, s)
<1>1. u \in JobState /\ (u = "canceled" \/ u = s) /\ (entry[j] = "canceled" => u = "canceled")
  BY DEF Updated, JobState
<1>2. entry'[j] = u /\ channel'[j] = Append(channel[j], u)
  BY DEF Report, TypeOK
<1>3. entry[j] # "canceled" => u = s
  BY DEF Updated
<1>4. entry[j] \in JobState /\ channel[j] \in Seq(JobState)
  BY DEF TypeOK, JobInv, StageInv
<1> HIDE DEF u
<1>5. ASSUME j \in Introductions, artifact'[j] # "whole"
      PROVE  /\ "complete" \notin {entry'[j], row'[j], canceling'[j]}
             /\ channel'[j] \in Seq(JobState \ {"complete"})
  <2>1. /\ channel[j] \in Seq(JobState \ {"complete"})
        /\ "complete" \notin {entry[j], row[j], canceling[j]}
    BY <1>5 DEF JobInv, ResultInv
  <2>2. u # "complete"
    BY <1>1, <1>5, <2>1
  <2>3. Append(channel[j], u) \in Seq(JobState \ {"complete"})
    <3> HIDE DEF JobState
    <3> QED
      BY <1>1, <2>1, <2>2
  <2> QED
    BY <1>2, <2>1, <2>2, <2>3
<1>6. CASE entry[j] = "canceled"
  <2>1. Append(channel[j], u) \in Seq({"running", "canceled"})
    BY <1>1, <1>6 DEF JobInv, PendingInv
  <2>2. PendingInv(j)'
    BY <1>1, <1>2, <1>6, <2>1 DEF JobInv, PendingInv
  <2> QED
    BY <1>1, <1>2, <1>5, <2>2
<1>7. CASE entry[j] = "running" /\ s = "running"
  <2>1. Append(channel[j], u) \in Seq({"running"})
    BY <1>3, <1>7 DEF JobInv, PendingInv
  <2>2. PendingInv(j)'
    BY <1>2, <1>3, <1>7, <2>1 DEF JobInv, PendingInv
  <2> QED
    BY <1>1, <1>2, <1>5, <2>2
<1>8. CASE entry[j] # "canceled" /\ s \in {"complete", "failed"}
  <2>1. PendingInv(j)'
    BY <1>2, <1>3, <1>8 DEF PendingInv
  <2> QED
    BY <1>1, <1>2, <1>5, <2>1
<1> QED
  BY <1>4, <1>6, <1>7, <1>8 DEF JobState

LEMMA PipelineKeeps ==
    ASSUME TypeOK, NEW j \in Jobs, JobInv(j), Pipeline(j)
    PROVE  JobInv(j)'
<1> USE DEF Goto, Unknown, Before
<1>1. CASE LoadSource(j) \/ ReportProgress(j)
  <2>1. /\ Report(j, entry[j])
        /\ UNCHANGED <<memory, canceling, row, artifact>>
        /\ pc[j] \notin Unknown \cup {"gone"}
    BY <1>1 DEF LoadSource, ReportProgress
  <2>2. entry[j] \in JobState
    BY <2>1 DEF TypeOK, JobInv, StageInv
  <2>3. entry[j] = "complete" /\ j \in Introductions => artifact[j] = "whole"
    BY DEF JobInv, ResultInv
  <2>4. /\ PendingInv(j)'
        /\ entry'[j] \in JobState
        /\ j \in Introductions /\ artifact'[j] # "whole" =>
             /\ "complete" \notin {entry'[j], row'[j], canceling'[j]}
             /\ channel'[j] \in Seq(JobState \ {"complete"})
    BY <2>1, <2>2, <2>3, ReportKeeps
  <2>5. pc[j] \in {"spawned", "inside"} /\ pc'[j] \in {"queued", "inside"}
    BY <1>1 DEF LoadSource, ReportProgress, TypeOK
  <2>6. ResultInv(j)'
    BY <2>1, <2>4, <2>5 DEF JobInv, ResultInv
  <2>7. StageInv(j)'
    BY <2>1, <2>4, <2>5 DEF JobInv, StageInv, JobState
  <2> QED
    BY <2>4, <2>6, <2>7 DEF JobInv
<1>2. CASE LoadSourceFails(j) \/ AcquirePermit(j) \/ StopQueued(j)
  BY <1>2 DEF LoadSourceFails, AcquirePermit, StopQueued, TypeOK, JobInv, ResultInv, StageInv, PendingInv, OrCanceled
<1>3. CASE LeavePipeline(j)
  BY <1>3 DEF LeavePipeline, TypeOK, JobInv, ResultInv, StageInv, PendingInv, OrCanceled
<1> QED
  BY <1>1, <1>2, <1>3 DEF Pipeline

LEMMA ConclusionKeeps ==
    ASSUME TypeOK, NEW j \in Jobs, JobInv(j), Conclusion(j)
    PROVE  JobInv(j)'
<1> USE DEF Goto, Unknown, Before
<1>1. CASE OpenResult(j) \/ WriteResult(j)
  BY <1>1 DEF OpenResult, WriteResult, TypeOK, JobInv, ResultInv, StageInv, PendingInv, OrCanceled
<1>2. CASE WriteFails(j) \/ PutResult(j) \/ Finish(j)
  BY <1>2 DEF WriteFails, PutResult, Finish, TypeOK, JobInv, ResultInv, StageInv, PendingInv, OrCanceled
<1>3. CASE ReportComplete(j) \/ ReportFailed(j)
  <2>1. PICK s \in {"complete", "failed"} :
          /\ Report(j, s)
          /\ s = "complete" /\ j \in Introductions => pc[j] = "put"
          /\ UNCHANGED <<memory, canceling, row, artifact>>
          /\ pc[j] \in {"put", "ran", "failing"} /\ pc'[j] = "closing"
    BY <1>3 DEF ReportComplete, ReportFailed, TypeOK
  <2>2. s \in JobState /\ pc[j] \notin Unknown \cup {"gone"}
    BY <2>1 DEF JobState
  <2>3. s = "complete" /\ j \in Introductions => artifact[j] = "whole"
    BY <2>1 DEF JobInv, ResultInv
  <2>4. /\ PendingInv(j)'
        /\ entry'[j] \in JobState
        /\ j \in Introductions /\ artifact'[j] # "whole" =>
             /\ "complete" \notin {entry'[j], row'[j], canceling'[j]}
             /\ channel'[j] \in Seq(JobState \ {"complete"})
    BY <2>1, <2>2, <2>3, ReportKeeps
  <2>5. ResultInv(j)'
    BY <2>1, <2>4 DEF JobInv, ResultInv
  <2>6. StageInv(j)'
    BY <2>1, <2>4 DEF JobInv, StageInv, JobState
  <2> QED
    BY <2>4, <2>5, <2>6 DEF JobInv
<1>4. CASE SaveSnapshot(j)
  <2>1. /\ channel'[j] = Tail(channel[j]) /\ channel[j] # <<>>
        /\ row'[j] \in {row[j], Head(channel[j])}
        /\ UNCHANGED <<entry, memory, pc, canceling, artifact>>
    BY <1>4 DEF SaveSnapshot, TypeOK
  <2>2. ASSUME NEW S, channel[j] \in Seq(S)
        PROVE  channel'[j] \in Seq(S) /\ Head(channel[j]) \in S
    BY <2>1, <2>2
  <2>3. entry[j] # "absent" /\ Head(channel[j]) # "none"
    <3>1. entry[j] # "absent"
      BY <2>1 DEF JobInv, PendingInv
    <3>2. channel[j] \in Seq(JobState)
      BY DEF TypeOK
    <3>3. Head(channel[j]) \in JobState
      BY <2>2, <3>2
    <3> QED
      BY <3>1, <3>3 DEF JobState
  <2>4. ResultInv(j)'
    <3>1. ASSUME j \in Introductions, artifact[j] # "whole"
          PROVE  /\ channel'[j] \in Seq(JobState \ {"complete"})
                 /\ row'[j] # "complete"
      <4>1. /\ channel[j] \in Seq(JobState \ {"complete"})
            /\ "complete" \notin {entry[j], row[j], canceling[j]}
        BY <3>1 DEF JobInv, ResultInv
      <4>2. /\ channel'[j] \in Seq(JobState \ {"complete"})
            /\ Head(channel[j]) \in JobState \ {"complete"}
        BY <2>2, <4>1
      <4> QED
        BY <2>1, <4>1, <4>2
    <3> QED
      BY <2>1, <3>1 DEF JobInv, ResultInv
  <2>5. StageInv(j)'
    <3>1. ASSUME entry[j] = "running" PROVE Head(channel[j]) = "running"
      BY <2>2, <3>1 DEF JobInv, PendingInv
    <3> QED
      BY <2>1, <2>3, <3>1 DEF JobInv, StageInv
  <2>6. PendingInv(j)'
    <3>1. CASE entry[j] = "running"
      <4>1. channel'[j] \in Seq({"running"}) /\ Head(channel[j]) = "running"
        BY <2>2, <3>1 DEF JobInv, PendingInv
      <4> QED
        BY <2>1, <3>1, <4>1 DEF JobInv, PendingInv
    <3>2. CASE entry[j] = "canceled"
      <4>1. /\ channel'[j] \in Seq({"running", "canceled"})
            /\ Head(channel[j]) \in {"running", "canceled"}
        BY <2>2, <3>2 DEF JobInv, PendingInv
      <4> QED
        BY <2>1, <3>2, <4>1 DEF JobInv, PendingInv
    <3> QED
      BY <2>1, <2>3, <3>1, <3>2 DEF PendingInv
  <2> QED
    BY <2>4, <2>5, <2>6 DEF JobInv
<1> QED
  BY <1>1, <1>2, <1>3, <1>4 DEF Conclusion

LEMMA CancelKeeps ==
    ASSUME TypeOK, NEW j \in Jobs, JobInv(j), CancelRoute(j)
    PROVE  JobInv(j)'
<1>1. CASE Cancel(j)
  <2>1. UNCHANGED <<memory, pc, channel, row, artifact>> /\ pc[j] \notin Unknown
    BY <1>1 DEF Cancel
  <2>2. \/ /\ entry[j] = "absent" /\ entry'[j] = "absent"
           /\ canceling'[j] = OrCanceled(row[j])
        \/ /\ entry[j] # "absent" /\ entry'[j] = OrCanceled(entry[j])
           /\ canceling'[j] = OrCanceled(entry[j])
    BY <1>1 DEF Cancel, TypeOK
  <2>3. channel[j] \in Seq({"running"}) => channel[j] \in Seq({"running", "canceled"})
    OBVIOUS
  <2>4. ResultInv(j)'
    BY <2>1, <2>2 DEF JobInv, ResultInv, OrCanceled
  <2>5. StageInv(j)'
    BY <2>1, <2>2 DEF JobInv, StageInv, Unknown, OrCanceled
  <2>6. PendingInv(j)'
    BY <2>1, <2>2, <2>3 DEF JobInv, PendingInv, OrCanceled
  <2> QED
    BY <2>4, <2>5, <2>6 DEF JobInv
<1>2. CASE SaveCancel(j)
  BY <1>2 DEF SaveCancel, TypeOK, JobInv, ResultInv, StageInv, PendingInv, OrCanceled
<1> QED
  BY <1>1, <1>2 DEF CancelRoute

LEMMA CrashKeeps ==
    ASSUME TypeOK, NEW j \in Jobs, JobInv(j), Crash
    PROVE  JobInv(j)'
<1>1. /\ entry'[j] = "absent" /\ j \notin memory' /\ channel'[j] = <<>>
      /\ canceling'[j] = "none" /\ UNCHANGED <<row, artifact>>
      /\ pc'[j] = IF pc[j] = "idle" THEN "idle"
                  ELSE IF pc[j] \in Unknown THEN "orphaned" ELSE "gone"
  BY DEF Crash
<1>2. <<>> \in Seq(JobState \ {"complete"})
  OBVIOUS
<1>3. ResultInv(j)'
  BY <1>1, <1>2 DEF JobInv, ResultInv, Before, Unknown
<1>4. StageInv(j)'
  BY <1>1 DEF JobInv, StageInv, Unknown
<1>5. PendingInv(j)'
  BY <1>1 DEF PendingInv
<1> QED
  BY <1>3, <1>4, <1>5 DEF JobInv

-----------------------------------------------------------------------------
(* The theorems.                                                           *)

Invariant == TypeOK /\ JobsInv

LEMMA InitHolds ==
    ASSUME Init
    PROVE  Invariant
<1>1. TypeOK
  BY DiagnosticsAssumption DEF Init, TypeOK, Pc, Unknown, JobState
<1>2. ASSUME NEW j \in Jobs PROVE JobInv(j)
  BY DEF Init, JobInv, ResultInv, StageInv, PendingInv, Before, Unknown
<1> QED
  BY <1>1, <1>2 DEF Invariant, JobsInv

LEMMA StepHolds ==
    ASSUME Invariant, [Next]_vars
    PROVE  Invariant'
<1>1. TypeOK /\ JobsInv
  BY DEF Invariant
<1>2. ASSUME NEW j \in Jobs, JobStep(j) PROVE Invariant'
  <2>1. TypeOK'
    BY <1>1, <1>2, RouteTypes, PipelineTypes, ConclusionTypes DEF JobStep
  <2>2. JobInv(j)'
    BY <1>1, <1>2, RouteKeeps, PipelineKeeps, ConclusionKeeps, CancelKeeps
       DEF JobStep, JobsInv
  <2>3. ASSUME NEW k \in Jobs, k # j PROVE JobInv(k)'
    <3>1. Same(k) /\ JobInv(k)
      BY <1>1, <1>2, <2>3, OthersSame DEF JobsInv
    <3> QED
      BY <3>1, SameKeeps
  <2> QED
    BY <2>1, <2>2, <2>3 DEF Invariant, JobsInv
<1>3. CASE Crash
  <2>1. ASSUME NEW j \in Jobs PROVE JobInv(j)'
    BY <1>1, <1>3, CrashKeeps DEF JobsInv
  <2> QED
    BY <1>1, <1>3, <2>1, CrashTypes DEF Invariant, JobsInv
<1>4. CASE UNCHANGED vars
  BY <1>1, <1>4 DEF vars, Invariant, TypeOK, JobsInv, JobInv, ResultInv, StageInv,
                    PendingInv, OrCanceled
<1> QED
  BY <1>2, <1>3, <1>4 DEF Next, JobStep

LEMMA Invariance == Spec => []Invariant
<1> QED
  BY InitHolds, StepHolds, PTL DEF Spec

\* Every variable keeps its type.
THEOREM TypeCorrect == Spec => []TypeOK
<1>1. Invariant => TypeOK
  BY DEF Invariant
<1> QED
  BY <1>1, Invariance, PTL

\* Whoever reads "complete" of an introduction diagnostic can fetch its result.
THEOREM CompleteBacked == Spec => []CompleteHasResult
<1>1. Invariant => CompleteHasResult
  BY DiagnosticsAssumption
     DEF Invariant, JobsInv, JobInv, ResultInv, CompleteHasResult, Progress, Answered
<1> QED
  BY <1>1, Invariance, PTL

\* A result that was answered stays, because it is on file before it is in
\* memory, and no step reopens the file of a job that has one.
THEOREM ResultKept == Spec => ResultStays
<1>1. ASSUME Invariant, Next, NEW j \in Jobs, Answered(j) PROVE Answered(j)'
  <2>1. artifact[j] = "whole"
    BY <1>1 DEF Invariant, JobsInv, JobInv, ResultInv, Answered
  <2>2. ASSUME NEW k \in Jobs, JobStep(k) PROVE artifact'[j] = "whole"
    <3>1. CASE k # j
      BY <1>1, <2>1, <2>2, <3>1, OthersSame DEF Same, Invariant
    <3>2. CASE k = j
      <4>1. pc[j] \notin {"ran", "writing"} /\ TypeOK
        BY <1>1, <2>1 DEF Invariant, JobsInv, JobInv, ResultInv, Before
      <4>2. ~OpenResult(j) /\ ~WriteResult(j)
        BY <4>1 DEF OpenResult, WriteResult, Goto
      <4>3. UNCHANGED artifact
        <5>1. CASE StartRoute(j)
          BY <5>1 DEF StartRoute, Start, SaveQueued, SaveQueuedFails, HangUp, LateSave
        <5>2. CASE Pipeline(j)
          BY <5>2 DEF Pipeline, LoadSource, LoadSourceFails, AcquirePermit, StopQueued,
                      ReportProgress, LeavePipeline
        <5>3. CASE Conclusion(j)
          BY <4>2, <5>3 DEF Conclusion, WriteFails, PutResult, ReportComplete,
                            ReportFailed, SaveSnapshot, Finish
        <5>4. CASE CancelRoute(j)
          BY <5>4 DEF CancelRoute, Cancel, SaveCancel
        <5> QED
          BY <2>2, <3>2, <5>1, <5>2, <5>3, <5>4 DEF JobStep
      <4> QED
        BY <2>1, <4>3
    <3> QED
      BY <3>1, <3>2
  <2>3. ASSUME Crash PROVE artifact'[j] = "whole"
    BY <2>1, <2>3 DEF Crash
  <2>4. artifact'[j] = "whole"
    BY <1>1, <2>2, <2>3 DEF Next, JobStep
  <2> QED
    BY <2>4 DEF Answered
<1>2. Invariant /\ [Next]_vars => [KeepsAnswers]_vars
  BY <1>1 DEF KeepsAnswers
<1> QED
  BY <1>2, Invariance, PTL DEF Spec, ResultStays

\* A canceled diagnostic never reads complete or failed again.  Its entry is
\* left alone by every update; once a restart has forgotten the entry, the row
\* is written by a pending cancel request alone, and with "canceled".
THEOREM CanceledFinal == Spec => CanceledNeverConcludes
<1>1. ASSUME Invariant, Next, NEW j \in Jobs, Progress(j) = "canceled"
      PROVE  Progress(j)' \in {"canceled", "running"}
  <2> USE DEF Progress
  <2>1. TypeOK /\ JobInv(j)
    BY <1>1 DEF Invariant, JobsInv
  <2>2. \/ entry[j] = "canceled" /\ row[j] \in {"running", "canceled"}
        \/ entry[j] = "absent" /\ row[j] = "canceled"
    BY <1>1, <2>1 DEF JobInv, StageInv, PendingInv, Unknown, TypeOK
  <2>3. pc[j] \notin Unknown
    BY <2>1, <2>2 DEF JobInv, StageInv, PendingInv, Unknown
  <2>4. ASSUME NEW k \in Jobs, JobStep(k)
        PROVE  Progress(j)' \in {"canceled", "running"}
    <3>1. CASE k # j
      BY <1>1, <2>1, <2>4, <3>1, OthersSame DEF Same
    <3>2. CASE k = j
      <4>1. CASE entry[j] = "canceled"
        <5>1. entry'[j] = "canceled"
          <6> USE <2>1, <2>3, <3>2, <4>1 DEF TypeOK, Goto, Unknown
          <6>1. CASE StartRoute(j)
            BY <6>1 DEF StartRoute, Start, SaveQueued, SaveQueuedFails, HangUp, LateSave
          <6>2. CASE Pipeline(j)
            BY <6>2 DEF Pipeline, LoadSource, LoadSourceFails, AcquirePermit,
                        StopQueued, ReportProgress, LeavePipeline, Report, Updated
          <6>3. CASE Conclusion(j)
            BY <6>3 DEF Conclusion, OpenResult, WriteResult, WriteFails, PutResult,
                        ReportComplete, ReportFailed, SaveSnapshot, Finish, Report, Updated
          <6>4. CASE CancelRoute(j)
            BY <6>4 DEF CancelRoute, Cancel, SaveCancel, OrCanceled
          <6> QED
            BY <2>4, <6>1, <6>2, <6>3, <6>4 DEF JobStep
        <5> QED
          BY <5>1
      <4>2. CASE entry[j] = "absent"
        <5>1. pc[j] = "gone" /\ channel[j] = <<>> /\ row[j] = "canceled"
          BY <2>1, <2>2, <2>3, <4>2 DEF JobInv, StageInv, PendingInv, Unknown, TypeOK, Pc
        <5>2. canceling[j] \in {"none", "canceled"}
          BY <2>1, <4>2, <5>1 DEF JobInv, PendingInv, OrCanceled
        <5>3. CancelRoute(j)
          <6> USE <5>1 DEF Goto
          <6>1. ~StartRoute(j)
            BY DEF StartRoute, Start, SaveQueued, SaveQueuedFails, HangUp, LateSave
          <6>2. ~Pipeline(j)
            BY DEF Pipeline, LoadSource, LoadSourceFails, AcquirePermit,
                   StopQueued, ReportProgress, LeavePipeline
          <6>3. ~Conclusion(j)
            BY DEF Conclusion, OpenResult, WriteResult, WriteFails, PutResult,
                   ReportComplete, ReportFailed, SaveSnapshot, Finish
          <6> QED
            BY <2>4, <3>2, <6>1, <6>2, <6>3 DEF JobStep
        <5>4. entry'[j] = "absent" /\ row'[j] = "canceled"
          BY <2>1, <4>2, <5>1, <5>2, <5>3 DEF CancelRoute, Cancel, SaveCancel, TypeOK
        <5> QED
          BY <5>4
      <4> QED
        BY <2>2, <4>1, <4>2
    <3> QED
      BY <3>1, <3>2
  <2>5. ASSUME Crash PROVE Progress(j)' \in {"canceled", "running"}
    BY <2>2, <2>5 DEF Crash
  <2> QED
    BY <1>1, <2>4, <2>5 DEF Next, JobStep
<1>2. Invariant /\ [Next]_vars => [NeverConcludes]_vars
  BY <1>1 DEF NeverConcludes
<1> QED
  BY <1>2, Invariance, PTL DEF Spec, CanceledNeverConcludes

-----------------------------------------------------------------------------
(* The row of a diagnostic that ended.                                     *)

Ended == {"complete", "failed"}

\* Once the entry tells an end, nothing is reported any more, and that end is
\* the last thing on its way to the row.
EndInv(j) ==
    entry[j] \in Ended =>
        /\ pc[j] \in {"closing", "done"}
        /\ canceling[j] \in {"none", entry[j]}
        /\ "store" \notin Faults =>
             IF channel[j] = <<>> THEN row[j] = entry[j]
             ELSE channel[j][Len(channel[j])] = entry[j]

\* If the store does not fail, a restart changes nothing of what a client reads
\* of a diagnostic that ended and whose snapshots are saved.
EndedIsSaved ==
    "store" \notin Faults =>
        \A j \in Jobs : entry[j] \in Ended /\ channel[j] = <<>> => row[j] = entry[j]

\* A report of the end is the newest snapshot; a canceled entry gives none.
LEMMA EndReported ==
    ASSUME TypeOK, NEW j \in Jobs, NEW s \in JobState, Report(j, s), UNCHANGED canceling,
           JobInv(j), entry[j] \in {"running", "canceled"},
           s \in Ended => pc'[j] = "closing",
           s \notin Ended => s = entry[j]
    PROVE  EndInv(j)'
<1>1. channel[j] \in Seq(JobState) /\ Updated(j, s) \in JobState
  BY DEF TypeOK, Updated, JobState
<1>2. /\ channel'[j] = Append(channel[j], Updated(j, s))
      /\ entry'[j] = Updated(j, s)
  BY DEF Report, TypeOK
<1> HIDE DEF JobState
<1>3. channel'[j] # <<>> /\ channel'[j][Len(channel'[j])] = entry'[j]
  BY <1>1, <1>2
<1>4. entry'[j] \in Ended => entry[j] = "running" /\ entry'[j] = s
  BY <1>2 DEF Updated, Ended
<1>5. entry[j] = "running" => canceling'[j] = "none"
  BY DEF JobInv, PendingInv
<1> QED
  BY <1>2, <1>3, <1>4, <1>5 DEF EndInv, Ended

\* The last element of a sequence outlives the removal of the first.
LEMMA LastRemains ==
    ASSUME NEW S, NEW s \in Seq(S), s # <<>>
    PROVE  IF Tail(s) = <<>> THEN Head(s) = s[Len(s)] ELSE Tail(s)[Len(Tail(s))] = s[Len(s)]
<1>1. Len(s) \in Nat /\ Len(s) >= 1
  BY EmptySeq, LenProperties
<1>2. Tail(s) \in Seq(S) /\ Len(Tail(s)) = Len(s) - 1
  BY <1>1, HeadTailProperties
<1>3. CASE Len(s) = 1
  <2>1. Tail(s) = <<>>
    <3> DEFINE t == Tail(s)
    <3>1. t \in Seq(S) /\ Len(t) = 0
      BY <1>2, <1>3
    <3> HIDE DEF t
    <3>2. t = <<>>
      BY <3>1, EmptySeq
    <3> QED
      BY <3>2 DEF t
  <2>2. Head(s) = s[Len(s)]
    BY <1>3
  <2> QED
    BY <2>1, <2>2
<1>4. CASE Len(s) # 1
  <2>1. Len(Tail(s)) \in 1 .. Len(Tail(s)) /\ Tail(s) # <<>>
    BY <1>1, <1>2, <1>4, EmptySeq
  <2>2. Tail(s)[Len(Tail(s))] = s[Len(s)]
    BY <1>1, <1>2, <2>1, HeadTailProperties
  <2> QED
    BY <2>1, <2>2
<1> QED
  BY <1>3, <1>4

\* The oldest snapshot is saved; if it was the last, the row has the end.
LEMMA EndSaved ==
    ASSUME TypeOK, NEW j \in Jobs, EndInv(j), SaveSnapshot(j)
    PROVE  EndInv(j)'
<1>1. SUFFICES ASSUME entry[j] \in Ended, "store" \notin Faults
               PROVE  IF channel'[j] = <<>> THEN row'[j] = entry[j]
                      ELSE channel'[j][Len(channel'[j])] = entry[j]
  BY DEF SaveSnapshot, EndInv
<1>2. /\ channel[j] # <<>> /\ channel'[j] = Tail(channel[j])
      /\ row'[j] = Head(channel[j])
      /\ channel[j][Len(channel[j])] = entry[j]
      /\ channel[j] \in Seq(JobState)
  BY <1>1 DEF SaveSnapshot, TypeOK, EndInv
<1> QED
  BY <1>2, LastRemains

LEMMA EndStep ==
    ASSUME TypeOK, NEW j \in Jobs, JobInv(j), EndInv(j), JobStep(j)
    PROVE  EndInv(j)'
<1>1. CASE StartRoute(j)
  <2>1. pc[j] \in Unknown /\ entry'[j] \in {entry[j], "running"}
    BY <1>1 DEF StartRoute, Start, SaveQueued, SaveQueuedFails, HangUp, LateSave, Goto,
                TypeOK, Unknown
  <2>2. entry[j] \in {"running", "absent"}
    BY <2>1 DEF JobInv, StageInv
  <2> QED
    BY <2>1, <2>2 DEF EndInv, Ended
<1>2. CASE Pipeline(j)
  <2>1. /\ pc[j] \in {"spawned", "queued", "inside"}
        /\ entry[j] \in {"running", "canceled"}
    <3>1. pc[j] \in {"spawned", "queued", "inside"}
      BY <1>2 DEF Pipeline, LoadSource, LoadSourceFails, AcquirePermit, StopQueued,
                  ReportProgress, LeavePipeline, Goto
    <3>2. entry[j] \notin Ended /\ entry[j] # "absent"
      BY <3>1 DEF EndInv, JobInv, StageInv, Unknown
    <3> QED
      BY <3>1, <3>2 DEF Ended, TypeOK, JobState
  <2>2. CASE LoadSource(j) \/ ReportProgress(j)
    <3>1. Report(j, entry[j]) /\ UNCHANGED canceling
      BY <2>2 DEF LoadSource, ReportProgress
    <3>2. entry[j] \in JobState /\ entry[j] \notin Ended
      BY <2>1 DEF JobState, Ended
    <3> QED
      BY <2>1, <3>1, <3>2, EndReported
  <2>3. CASE ~ (LoadSource(j) \/ ReportProgress(j))
    <3>1. entry' = entry
      BY <1>2, <2>3 DEF Pipeline, LoadSourceFails, AcquirePermit, StopQueued, LeavePipeline
    <3> QED
      BY <2>1, <3>1 DEF EndInv, Ended
  <2> QED
    BY <2>2, <2>3
<1>3. CASE ReportComplete(j) \/ ReportFailed(j)
  <2>1. pc[j] \in {"put", "ran", "failing"} /\ pc'[j] = "closing" /\ UNCHANGED canceling
    BY <1>3 DEF ReportComplete, ReportFailed, Goto, TypeOK
  <2>2. entry[j] \notin Ended /\ entry[j] # "absent"
    BY <2>1 DEF EndInv, JobInv, StageInv, Unknown
  <2>3. entry[j] \in {"running", "canceled"}
    BY <2>2 DEF Ended, TypeOK, JobState
  <2>4. PICK s \in Ended : Report(j, s)
    BY <1>3 DEF ReportComplete, ReportFailed, Ended
  <2>5. s \in JobState
    BY DEF Ended, JobState
  <2> QED
    BY <2>1, <2>3, <2>4, <2>5, EndReported
<1>4. CASE SaveSnapshot(j)
  BY <1>4, EndSaved
<1>5. CASE /\ Conclusion(j)
           /\ ~ (ReportComplete(j) \/ ReportFailed(j) \/ SaveSnapshot(j))
  <2>1. /\ UNCHANGED <<entry, channel, canceling, row>>
        /\ pc[j] \in {"closing", "done"} => pc'[j] \in {"closing", "done"}
    BY <1>5 DEF Conclusion, OpenResult, WriteResult, WriteFails, PutResult, Finish, Goto,
                TypeOK
  <2> QED
    BY <2>1 DEF EndInv
<1>6. CASE Cancel(j)
  BY <1>6 DEF Cancel, EndInv, OrCanceled, Ended, TypeOK
<1>7. CASE SaveCancel(j)
  BY <1>7 DEF SaveCancel, EndInv, TypeOK
<1> QED
  BY <1>1, <1>2, <1>3, <1>4, <1>5, <1>6, <1>7 DEF JobStep, CancelRoute

\* What a client reads of a diagnostic that completed or failed is in the row
\* once the persistence task has drained its snapshots: cancel requests that
\* came too late write the same end again.
THEOREM EndSettles == Spec => []EndedIsSaved
<1> DEFINE EndsInv == \A j \in Jobs : EndInv(j)
<1>1. Init => EndsInv
  BY DEF Init, EndInv, Ended
<1>2. Invariant /\ EndsInv /\ [Next]_vars => EndsInv'
  <2> SUFFICES ASSUME Invariant, EndsInv, [Next]_vars, NEW j \in Jobs PROVE EndInv(j)'
    OBVIOUS
  <2>1. TypeOK /\ JobInv(j) /\ EndInv(j)
    BY DEF Invariant, JobsInv
  <2>2. ASSUME NEW k \in Jobs, JobStep(k) PROVE EndInv(j)'
    <3>1. CASE k = j
      BY <2>1, <2>2, <3>1, EndStep
    <3>2. CASE k # j
      BY <2>1, <2>2, <3>2, OthersSame DEF Same, EndInv
    <3> QED
      BY <3>1, <3>2
  <2>3. CASE Crash
    BY <2>3 DEF Crash, EndInv, Ended
  <2>4. CASE UNCHANGED vars
    BY <2>1, <2>4 DEF vars, EndInv
  <2> QED
    BY <2>2, <2>3, <2>4 DEF Next, JobStep
<1>3. EndsInv => EndedIsSaved
  BY DEF EndInv, EndedIsSaved
<1> QED
  BY <1>1, <1>2, <1>3, Invariance, PTL DEF Spec

-----------------------------------------------------------------------------
(* Permits.                                                                *)

Within == {j \in Jobs : pc[j] = "inside"}

PermitsKept == permits + Cardinality(Within) = Concurrency

\* A step of one diagnostic takes a permit, gives its own back, or neither.
LEMMA PermitSteps ==
    ASSUME TypeOK, NEW j \in Jobs, JobStep(j)
    PROVE  /\ \A k \in Jobs : k # j => pc'[k] = pc[k]
           /\ \/ pc[j] # "inside" /\ pc'[j] = "inside" /\ permits' = permits - 1
              \/ pc[j] = "inside" /\ pc'[j] # "inside" /\ permits' = permits + 1
              \/ (pc[j] = "inside" <=> pc'[j] = "inside") /\ permits' = permits
<1> USE DEF Goto, TypeOK
<1>1. CASE StartRoute(j)
  BY <1>1 DEF StartRoute, Start, SaveQueued, SaveQueuedFails, HangUp, LateSave
<1>2. CASE Pipeline(j)
  BY <1>2 DEF Pipeline, LoadSource, LoadSourceFails, AcquirePermit, StopQueued,
              ReportProgress, LeavePipeline
<1>3. CASE Conclusion(j)
  BY <1>3 DEF Conclusion, OpenResult, WriteResult, WriteFails, PutResult, ReportComplete,
              ReportFailed, SaveSnapshot, Finish
<1>4. CASE CancelRoute(j)
  BY <1>4 DEF CancelRoute, Cancel, SaveCancel
<1> QED
  BY <1>1, <1>2, <1>3, <1>4 DEF JobStep

\* However a diagnostic leaves run_cookbook, by a result, an error or a cancel,
\* it gives its permit back once: free permits and diagnostics inside always
\* add up to the configured concurrency.
THEOREM PermitsAddUp == Spec => []PermitsKept
<1>1. Init => PermitsKept
  <2> SUFFICES ASSUME Init PROVE PermitsKept
    OBVIOUS
  <2>1. Within = {} /\ permits = Concurrency
    BY DEF Init, Within
  <2>2. permits + Cardinality(Within) = Concurrency
    BY <2>1, FS_EmptySet, DiagnosticsAssumption
  <2> QED
    BY <2>2 DEF PermitsKept
<1>2. Invariant /\ PermitsKept /\ [Next]_vars => PermitsKept'
  <2> SUFFICES ASSUME Invariant, PermitsKept, [Next]_vars PROVE PermitsKept'
    OBVIOUS
  <2>1. /\ IsFiniteSet(Within) /\ Cardinality(Within) \in Nat
        /\ permits \in Nat /\ Concurrency \in Nat
        /\ permits + Cardinality(Within) = Concurrency
    BY DiagnosticsAssumption, FS_Subset, FS_CardinalityType
       DEF Within, Invariant, TypeOK, PermitsKept
  <2>2. ASSUME NEW j \in Jobs, JobStep(j) PROVE PermitsKept'
    <3>1. /\ \A k \in Jobs : k # j => pc'[k] = pc[k]
          /\ \/ pc[j] # "inside" /\ pc'[j] = "inside" /\ permits' = permits - 1
             \/ pc[j] = "inside" /\ pc'[j] # "inside" /\ permits' = permits + 1
             \/ (pc[j] = "inside" <=> pc'[j] = "inside") /\ permits' = permits
      BY <2>2, PermitSteps DEF Invariant
    <3>2. CASE pc[j] # "inside" /\ pc'[j] = "inside" /\ permits' = permits - 1
      <4>1. Within' = Within \cup {j} /\ j \notin Within
        BY <3>1, <3>2 DEF Within
      <4>2. Cardinality(Within') = Cardinality(Within) + 1
        BY <2>1, <4>1, FS_AddElement
      <4> QED
        BY <2>1, <3>2, <4>2 DEF PermitsKept
    <3>3. CASE pc[j] = "inside" /\ pc'[j] # "inside" /\ permits' = permits + 1
      <4>1. Within' = Within \ {j} /\ j \in Within
        BY <3>1, <3>3 DEF Within
      <4>2. Cardinality(Within') = Cardinality(Within) - 1
        BY <2>1, <4>1, FS_RemoveElement
      <4> QED
        BY <2>1, <3>3, <4>2 DEF PermitsKept
    <3>4. CASE (pc[j] = "inside" <=> pc'[j] = "inside") /\ permits' = permits
      <4>1. Within' = Within
        BY <3>1, <3>4 DEF Within
      <4> QED
        BY <3>4, <4>1 DEF PermitsKept
    <3> QED
      BY <3>1, <3>2, <3>3, <3>4
  <2>3. CASE Crash
    <3>1. Within' = {} /\ permits' = Concurrency
      BY <2>3 DEF Within, Crash
    <3> QED
      BY <2>1, <3>1, FS_EmptySet DEF PermitsKept
  <2>4. CASE UNCHANGED vars
    BY <2>4 DEF vars, Within, PermitsKept
  <2> QED
    BY <2>2, <2>3, <2>4 DEF Next, JobStep
<1> QED
  BY <1>1, <1>2, Invariance, PTL DEF Spec

=============================================================================
