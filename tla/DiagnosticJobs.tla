--------------------------- MODULE DiagnosticJobs ---------------------------
(***************************************************************************)
(* Diagnostic jobs: dry runs of the pipeline over a few pages, and the     *)
(* introduction-page diagnostic with its result, which is kept in memory   *)
(* and in a file (http.rs, pipeline.rs, jobs.rs).  Every start makes a new *)
(* job id, so an id names one run and a canceled entry tells that its      *)
(* CancellationSignal is raised.  The stages inside run_cookbook are those *)
(* of ImportJobs; here they are one step that ends.                        *)
(***************************************************************************)
EXTENDS Naturals, Sequences, FiniteSets

CONSTANTS
    Jobs,           \* diagnostic job ids
    Introductions,  \* those of the introduction-page diagnostic
    Concurrency,    \* permits of the pipeline semaphore
    MaxPending,     \* bound: snapshots waiting in one channel
    Faults          \* what may go wrong: "store", "disk", "hangup", "crash"

ASSUME DiagnosticsAssumption ==
    /\ IsFiniteSet(Jobs)
    /\ Introductions \subseteq Jobs
    /\ Concurrency \in Nat \ {0}
    /\ MaxPending \in Nat \ {0}

VARIABLES
    entry,      \* registry: state of the entry, or "absent"
    memory,     \* registry: jobs whose result put_diagnostic has stored
    pc,         \* where the start route and then the task stands
    channel,    \* snapshots reported and not yet persisted
    permits,    \* permits left in the semaphore
    canceling,  \* the snapshot a cancel request is about to persist, or "none"
    row,        \* state column of cookbook_import_jobs, or "none"
    artifact    \* 06-diagnostic-result.json: "none", "torn" or "whole"

vars == <<entry, memory, pc, channel, permits, canceling, row, artifact>>

JobState == {"running", "complete", "failed", "canceled"}
\* The client has not been told the id, and may never be.
Unknown  == {"idle", "begun", "abandoned", "orphaned"}
Pc       == Unknown \cup {"spawned", "queued", "inside", "ran", "writing",
                          "written", "put", "failing", "closing", "done", "gone"}

TypeOK ==
    /\ entry \in [Jobs -> JobState \cup {"absent"}]
    /\ memory \in SUBSET Jobs
    /\ pc \in [Jobs -> Pc]
    /\ channel \in [Jobs -> Seq(JobState)]
    /\ permits \in Nat
    /\ canceling \in [Jobs -> JobState \cup {"none"}]
    /\ row \in [Jobs -> JobState \cup {"none"}]
    /\ artifact \in [Jobs -> {"none", "torn", "whole"}]

Init ==
    /\ entry = [j \in Jobs |-> "absent"]
    /\ memory = {}
    /\ pc = [j \in Jobs |-> "idle"]
    /\ channel = [j \in Jobs |-> <<>>]
    /\ permits = Concurrency
    /\ canceling = [j \in Jobs |-> "none"]
    /\ row = [j \in Jobs |-> "none"]
    /\ artifact = [j \in Jobs |-> "none"]

Goto(j, here, there) ==
    /\ pc[j] = here
    /\ pc' = [pc EXCEPT ![j] = there]

-----------------------------------------------------------------------------
(* pipeline_diagnostic_start_route, introduction_diagnostic_start_route    *)

Start(j) ==
    /\ Goto(j, "idle", "begun")
    /\ entry' = [entry EXCEPT ![j] = "running"]
    /\ UNCHANGED <<memory, channel, permits, canceling, row, artifact>>

SaveQueued(j) ==
    /\ Goto(j, "begun", "spawned")
    /\ row' = [row EXCEPT ![j] = "running"]
    /\ UNCHANGED <<entry, memory, channel, permits, canceling, artifact>>

\* The error is answered and the entry stays as it is.
SaveQueuedFails(j) ==
    /\ "store" \in Faults
    /\ Goto(j, "begun", "orphaned")
    /\ UNCHANGED <<entry, memory, channel, permits, canceling, row, artifact>>

HangUp(j) ==
    /\ "hangup" \in Faults
    /\ Goto(j, "begun", "abandoned")
    /\ UNCHANGED <<entry, memory, channel, permits, canceling, row, artifact>>

LateSave(j) ==
    /\ Goto(j, "abandoned", "orphaned")
    /\ \/ row' = [row EXCEPT ![j] = "running"]
       \/ "store" \in Faults /\ UNCHANGED row
    /\ UNCHANGED <<entry, memory, channel, permits, canceling, artifact>>

-----------------------------------------------------------------------------
(* run_pipeline_diagnostic_job, run_introduction_diagnostic_job            *)

\* Variant: an update overwrites whatever the entry says.
UpdatedAlways(j, s) == s

\* JobRegistry::update: a canceled entry is left alone.
Updated(j, s) == IF entry[j] = "canceled" THEN "canceled" ELSE s

\* The reporter of diagnostic_progress_reporter with an update to state s.
Report(j, s) ==
    /\ Len(channel[j]) < MaxPending
    /\ entry' = [entry EXCEPT ![j] = Updated(j, s)]
    /\ channel' = [channel EXCEPT ![j] = Append(@, Updated(j, s))]

\* The source is read; run_cookbook reports that it waits for a permit.
LoadSource(j) ==
    /\ Goto(j, "spawned", "queued")
    /\ Report(j, entry[j])
    /\ UNCHANGED <<memory, permits, canceling, row, artifact>>

\* No source, none of its pages is the one asked for, or no work directory.
LoadSourceFails(j) ==
    /\ Goto(j, "spawned", "failing")
    /\ UNCHANGED <<entry, memory, channel, permits, canceling, row, artifact>>

AcquirePermit(j) ==
    /\ Goto(j, "queued", "inside")
    /\ permits > 0
    /\ entry[j] # "canceled"
    /\ permits' = permits - 1
    /\ UNCHANGED <<entry, memory, channel, canceling, row, artifact>>

StopQueued(j) ==
    /\ Goto(j, "queued", "closing")
    /\ entry[j] = "canceled"
    /\ UNCHANGED <<entry, memory, channel, permits, canceling, row, artifact>>

ReportProgress(j) ==
    /\ pc[j] = "inside"
    /\ Report(j, entry[j])
    /\ UNCHANGED <<memory, pc, permits, canceling, row, artifact>>

\* run_cookbook returns: past its last check with a run, with Canceled, or
\* with an error, which a canceled signal does not rule out.
LeavePipeline(j) ==
    /\ \/ entry[j] # "canceled" /\ Goto(j, "inside", "ran")
       \/ entry[j] = "canceled" /\ Goto(j, "inside", "closing")
       \/ Goto(j, "inside", "failing")
    /\ permits' = permits + 1
    /\ UNCHANGED <<entry, memory, channel, canceling, row, artifact>>

\* The result file is the last artifact to be written; fs::write empties it
\* before it fills it.
OpenResult(j) ==
    /\ j \in Introductions
    /\ Goto(j, "ran", "writing")
    /\ artifact' = [artifact EXCEPT ![j] = "torn"]
    /\ UNCHANGED <<entry, memory, channel, permits, canceling, row>>

WriteResult(j) ==
    /\ Goto(j, "writing", "written")
    /\ artifact' = [artifact EXCEPT ![j] = "whole"]
    /\ UNCHANGED <<entry, memory, channel, permits, canceling, row>>

\* Variant: an error of the last write is ignored.
WriteErrorIgnored(j) ==
    /\ "disk" \in Faults
    /\ Goto(j, "writing", "written")
    /\ UNCHANGED <<entry, memory, channel, permits, canceling, row, artifact>>

\* An artifact cannot be written.
WriteFails(j) ==
    /\ "disk" \in Faults
    /\ j \in Introductions
    /\ Goto(j, "ran", "failing") \/ Goto(j, "writing", "failing")
    /\ UNCHANGED <<entry, memory, channel, permits, canceling, row, artifact>>

\* Variant: the result is published before its file is written.
PutResultEarly(j) ==
    /\ pc[j] \in {"writing", "written"}
    /\ memory' = memory \cup {j}
    /\ pc' = [pc EXCEPT ![j] = IF pc[j] = "written" THEN "put" ELSE "writing"]
    /\ UNCHANGED <<entry, channel, permits, canceling, row, artifact>>

PutResult(j) ==
    /\ Goto(j, "written", "put")
    /\ memory' = memory \cup {j}
    /\ UNCHANGED <<entry, channel, permits, canceling, row, artifact>>

\* A pipeline diagnostic has no result to keep.
ReportComplete(j) ==
    /\ IF j \in Introductions
       THEN Goto(j, "put", "closing")
       ELSE Goto(j, "ran", "closing")
    /\ Report(j, "complete")
    /\ UNCHANGED <<memory, permits, canceling, row, artifact>>

ReportFailed(j) ==
    /\ Goto(j, "failing", "closing")
    /\ Report(j, "failed")
    /\ UNCHANGED <<memory, permits, canceling, row, artifact>>

\* The persistence task takes the oldest snapshot; a failing write drops it.
SaveSnapshot(j) ==
    /\ channel[j] # <<>>
    /\ \/ row' = [row EXCEPT ![j] = Head(channel[j])]
       \/ "store" \in Faults /\ UNCHANGED row
    /\ channel' = [channel EXCEPT ![j] = Tail(@)]
    /\ UNCHANGED <<entry, memory, pc, permits, canceling, artifact>>

Finish(j) ==
    /\ Goto(j, "closing", "done")
    /\ channel[j] = <<>>
    /\ UNCHANGED <<entry, memory, channel, permits, canceling, row, artifact>>

-----------------------------------------------------------------------------
(* pipeline_diagnostic_cancel_route                                        *)

OrCanceled(s) == IF s = "running" THEN "canceled" ELSE s

\* JobRegistry::cancel, or the row of a job the registry does not know.
Cancel(j) ==
    /\ pc[j] \notin Unknown
    /\ canceling[j] = "none"
    /\ IF entry[j] = "absent"
       THEN canceling' = [canceling EXCEPT ![j] = OrCanceled(row[j])] /\ UNCHANGED entry
       ELSE /\ entry' = [entry EXCEPT ![j] = OrCanceled(@)]
            /\ canceling' = [canceling EXCEPT ![j] = OrCanceled(entry[j])]
    /\ UNCHANGED <<memory, pc, channel, permits, row, artifact>>

\* The request persists its snapshot, fails to, or loses its client first.
SaveCancel(j) ==
    /\ canceling[j] # "none"
    /\ \/ row' = [row EXCEPT ![j] = canceling[j]]
       \/ Faults \cap {"store", "hangup"} # {} /\ UNCHANGED row
    /\ canceling' = [canceling EXCEPT ![j] = "none"]
    /\ UNCHANGED <<entry, memory, pc, channel, permits, artifact>>

\* The process ends and starts again: files and rows stay.
Crash ==
    /\ "crash" \in Faults
    /\ entry' = [j \in Jobs |-> "absent"]
    /\ memory' = {}
    /\ pc' = [j \in Jobs |-> IF pc[j] = "idle" THEN "idle"
                             ELSE IF pc[j] \in Unknown THEN "orphaned" ELSE "gone"]
    /\ channel' = [j \in Jobs |-> <<>>]
    /\ permits' = Concurrency
    /\ canceling' = [j \in Jobs |-> "none"]
    /\ UNCHANGED <<row, artifact>>

StartRoute(j) == Start(j) \/ SaveQueued(j) \/ SaveQueuedFails(j) \/ HangUp(j) \/ LateSave(j)
Pipeline(j)   == \/ LoadSource(j) \/ LoadSourceFails(j) \/ AcquirePermit(j)
                 \/ StopQueued(j) \/ ReportProgress(j) \/ LeavePipeline(j)
Conclusion(j) == \/ OpenResult(j) \/ WriteResult(j) \/ WriteFails(j) \/ PutResult(j)
                 \/ ReportComplete(j) \/ ReportFailed(j) \/ SaveSnapshot(j) \/ Finish(j)
CancelRoute(j) == Cancel(j) \/ SaveCancel(j)

Next == \/ \E j \in Jobs : StartRoute(j) \/ Pipeline(j) \/ Conclusion(j) \/ CancelRoute(j)
        \/ Crash

Spec == Init /\ [][Next]_vars

-----------------------------------------------------------------------------
(* Properties                                                              *)

\* What the progress route answers: the registry, else the row.
Progress(j) == IF entry[j] # "absent" THEN entry[j] ELSE row[j]

\* Whether the result route answers a result: memory, else the file.
Answered(j) == j \in memory \/ artifact[j] = "whole"

\* A client that reads "complete", before or after a restart, can fetch the
\* result: put_diagnostic and the file come before the report.
CompleteHasResult ==
    \A j \in Introductions : Progress(j) = "complete" => Answered(j)

KeepsAnswers == \A j \in Jobs : Answered(j) => Answered(j)'

\* A result that was answered once is answered ever after, although the
\* memory does not survive a restart (load_introduction_diagnostic: "Reloads
\* a persisted introduction diagnostic after an API restart").
ResultStays == [][KeepsAnswers]_vars

NeverConcludes ==
    \A j \in Jobs : Progress(j) = "canceled" => Progress(j)' \in {"canceled", "running"}

\* A diagnostic that reads canceled never reads complete or failed after it,
\* restarts and snapshots still queued included; at worst the row of an
\* earlier snapshot makes it read running again.
CanceledNeverConcludes == [][NeverConcludes]_vars

=============================================================================
