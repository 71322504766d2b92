----------------------------- MODULE ImportJobs -----------------------------
(***************************************************************************)
(* Cookbook import jobs: the in-memory JobRegistry (jobs.rs), the start    *)
(* and cancel routes and the detached job task (http.rs), the stages of    *)
(* PipelineService::run_cookbook that can stop, fail or be cancelled       *)
(* (pipeline.rs), the worker's cancel file, and the row of                 *)
(* cookbook_import_jobs that survives a restart (duckdb_write.rs).         *)
(*                                                                         *)
(* A "run" is one accepted start: the CancellationSignal that begin()      *)
(* creates, the task spawned for it, that task's snapshot channel and the  *)
(* persistence task that drains it.  A step ends where the code awaits or  *)
(* unlocks.  A progress snapshot is abstracted to its state field; stage,  *)
(* message and counters follow pc and decide nothing.                      *)
(***************************************************************************)
EXTENDS Naturals, Sequences, FiniteSets

CONSTANTS
    Imports,        \* cookbook import ids
    Runs,           \* identities of accepted starts; each is used once
    Cancels,        \* cancel requests that can be in flight together
    NoRun,          \* no run
    NoImport,       \* no import
    Concurrency,    \* RECITOPIA_RUST_PIPELINE_CONCURRENCY
    OcrBatches,     \* bound: OCR batches one run may need
    MaxPending,     \* bound: snapshots waiting in one channel
    LlmConfigured,  \* the settings explored: whether an LLM provider is configured
    Faults          \* what may go wrong around the process: progress writes
                    \* that fail, clients that hang up, crashes

ASSUME JobsAssumption ==
    /\ IsFiniteSet(Runs)
    /\ NoRun \notin Runs
    /\ NoImport \notin Imports
    /\ Concurrency \in Nat \ {0}
    /\ OcrBatches \in Nat
    /\ MaxPending \in Nat \ {0}
    /\ LlmConfigured \subseteq BOOLEAN
    /\ Faults \subseteq {"store", "hangup", "crash"}

VARIABLES
    entry,      \* registry: state of the import's entry, or "absent"
    owner,      \* registry: the run whose CancellationSignal the entry holds
    signal,     \* the CancellationSignal of each run
    pc,         \* where the start route and then the task of a run stands
    job,        \* the import a run was started for
    batches,    \* OCR batches a run still has to send
    channel,    \* snapshots reported by a run and not yet persisted
    permits,    \* permits left in the pipeline semaphore
    row,        \* state column of cookbook_import_jobs, or "none"
    marker,     \* whether cookbook-extraction/<import>/cancel exists
    catalogue,  \* the run whose graph was persisted last for the import
    cpc,        \* where a cancel request stands
    cjob,       \* the import a cancel request names
    csnap,      \* the snapshot a cancel request will persist
    disturbed   \* history: imports whose row may lag behind the entry

registryVars == <<entry, owner>>
runVars      == <<signal, pc, job, batches, channel, permits>>
diskVars     == <<row, marker, catalogue>>
cancelVars   == <<cpc, cjob, csnap>>
vars == <<registryVars, runVars, diskVars, cancelVars, disturbed>>

JobState == {"running", "complete", "failed", "canceled"}
Terminal == JobState \ {"running"}

\* Inside run_cookbook with the permit held.
Inside  == {"loading", "ocr", "batch", "mapping", "planned", "preparing",
            "extracting", "extracted", "normalizing"}
\* A task is at work on the import, or the start route is about to spawn one,
\* and its last report is still to come.
Working == {"begun", "spawned", "queued", "sealed", "persisting", "committed",
            "failing"} \cup Inside
\* The start route's future was dropped before it spawned the task.
Orphan  == {"abandoned", "orphaned"}
\* Nothing of the run is left to happen.
Settled == {"idle", "orphaned", "done"}
Pc      == Working \cup Orphan \cup Settled \cup {"closing"}

RunsOf(i) == {r \in Runs : job[r] = i}
Quiet(i)  == /\ \A r \in RunsOf(i) : pc[r] \in Settled
             /\ \A c \in Cancels : cpc[c] # "idle" => cjob[c] # i

TypeOK ==
    /\ entry \in [Imports -> JobState \cup {"absent"}]
    /\ owner \in [Imports -> Runs \cup {NoRun}]
    /\ signal \in [Runs -> BOOLEAN]
    /\ pc \in [Runs -> Pc]
    /\ job \in [Runs -> Imports \cup {NoImport}]
    /\ batches \in [Runs -> 0 .. OcrBatches]
    /\ channel \in [Runs -> Seq(JobState)]
    /\ permits \in Nat
    /\ row \in [Imports -> JobState \cup {"none"}]
    /\ marker \in [Imports -> BOOLEAN]
    /\ catalogue \in [Imports -> Runs \cup {NoRun}]
    /\ cpc \in [Cancels -> {"idle", "read", "mark", "save"}]
    /\ cjob \in [Cancels -> Imports \cup {NoImport}]
    /\ csnap \in [Cancels -> JobState]
    /\ disturbed \in SUBSET Imports

Init ==
    /\ entry = [i \in Imports |-> "absent"]
    /\ owner = [i \in Imports |-> NoRun]
    /\ signal = [r \in Runs |-> FALSE]
    /\ pc = [r \in Runs |-> "idle"]
    /\ job = [r \in Runs |-> NoImport]
    /\ batches = [r \in Runs |-> 0]
    /\ channel = [r \in Runs |-> <<>>]
    /\ permits = Concurrency
    /\ row = [i \in Imports |-> "none"]
    /\ marker = [i \in Imports |-> FALSE]
    /\ catalogue = [i \in Imports |-> NoRun]
    /\ cpc = [c \in Cancels |-> "idle"]
    /\ cjob = [c \in Cancels |-> NoImport]
    /\ csnap = [c \in Cancels |-> "canceled"]
    /\ disturbed = {}

-----------------------------------------------------------------------------
(* JobRegistry::update and the report closure of the job task.             *)

\* Variant: an update overwrites whatever the entry says.
UpdatedAlways(i, s) == s

\* The state an update that asks for s leaves in the entry of i.
Updated(i, s) == IF entry[i] = "canceled" THEN "canceled" ELSE s

Goto(r, here, there) ==
    /\ pc[r] = here
    /\ pc' = [pc EXCEPT ![r] = there]

\* A report without a state: the entry stays, its snapshot is queued.
Report(r) ==
    /\ Len(channel[r]) < MaxPending
    /\ channel' = [channel EXCEPT ![r] = Append(@, entry[job[r]])]
    /\ UNCHANGED registryVars

\* A report that asks for a terminal state.
Conclude(r, s) ==
    /\ Len(channel[r]) < MaxPending
    /\ entry' = [entry EXCEPT ![job[r]] = Updated(job[r], s)]
    /\ channel' = [channel EXCEPT ![r] = Append(@, Updated(job[r], s))]
    /\ UNCHANGED owner

-----------------------------------------------------------------------------
(* cookbook_import_ocr_route                                               *)

\* Variant: begin does not look at the entry that is there.
StartAnyway(i, r) ==
    /\ pc[r] = "idle"
    /\ entry' = [entry EXCEPT ![i] = "running"]
    /\ owner' = [owner EXCEPT ![i] = r]
    /\ job' = [job EXCEPT ![r] = i]
    /\ pc' = [pc EXCEPT ![r] = "begun"]
    /\ disturbed' = IF Quiet(i) THEN disturbed \ {i} ELSE disturbed \cup {i}
    /\ UNCHANGED <<signal, batches, channel, permits, diskVars, cancelVars>>

\* Variant: begin resets the entry and keeps its old cancellation signal.
StartKeepsSignal(i, r) ==
    /\ pc[r] = "idle"
    /\ entry[i] # "running"
    /\ entry' = [entry EXCEPT ![i] = "running"]
    /\ owner' = [owner EXCEPT ![i] = IF @ = NoRun THEN r ELSE @]
    /\ job' = [job EXCEPT ![r] = i]
    /\ pc' = [pc EXCEPT ![r] = "begun"]
    /\ disturbed' = IF Quiet(i) THEN disturbed \ {i} ELSE disturbed \cup {i}
    /\ UNCHANGED <<signal, batches, channel, permits, diskVars, cancelVars>>

\* JobRegistry::begin: a running entry refuses, any other is replaced.
Start(i, r) ==
    /\ pc[r] = "idle"
    /\ entry[i] # "running"
    /\ entry' = [entry EXCEPT ![i] = "running"]
    /\ owner' = [owner EXCEPT ![i] = r]
    /\ job' = [job EXCEPT ![r] = i]
    /\ pc' = [pc EXCEPT ![r] = "begun"]
    /\ disturbed' = IF Quiet(i) THEN disturbed \ {i} ELSE disturbed \cup {i}
    /\ UNCHANGED <<signal, batches, channel, permits, diskVars, cancelVars>>

\* The queued snapshot is persisted and the job task is spawned.
SaveQueued(r) ==
    /\ Goto(r, "begun", "spawned")
    /\ row' = [row EXCEPT ![job[r]] = "running"]
    /\ UNCHANGED <<registryVars, signal, job, batches, channel, permits,
                   marker, catalogue, cancelVars, disturbed>>

\* Variant: the error is answered and the entry left as it is (what the start
\* routes of the diagnostics do).
SaveQueuedFailsSilently(r) ==
    /\ "store" \in Faults
    /\ Goto(r, "begun", "done")
    /\ disturbed' = disturbed \cup {job[r]}
    /\ UNCHANGED <<registryVars, signal, job, batches, channel, permits,
                   diskVars, cancelVars>>

\* Persisting it failed: the entry is failed and the request answers an error.
SaveQueuedFails(r) ==
    /\ "store" \in Faults
    /\ Goto(r, "begun", "done")
    /\ entry' = [entry EXCEPT ![job[r]] = Updated(job[r], "failed")]
    /\ disturbed' = disturbed \cup {job[r]}
    /\ UNCHANGED <<owner, signal, job, batches, channel, permits, diskVars,
                   cancelVars>>

\* The client hangs up: the route's future is dropped at its only await, and
\* the write it had handed to the blocking pool is still to happen.
HangUp(r) ==
    /\ "hangup" \in Faults
    /\ Goto(r, "begun", "abandoned")
    /\ disturbed' = disturbed \cup {job[r]}
    /\ UNCHANGED <<registryVars, signal, job, batches, channel, permits,
                   diskVars, cancelVars>>

LateSave(r) ==
    /\ Goto(r, "abandoned", "orphaned")
    /\ \/ row' = [row EXCEPT ![job[r]] = "running"]
       \/ "store" \in Faults /\ UNCHANGED row
    /\ UNCHANGED <<registryVars, signal, job, batches, channel, permits,
                   marker, catalogue, cancelVars, disturbed>>

-----------------------------------------------------------------------------
(* run_cookbook_import_job and PipelineService::run_cookbook               *)

\* The source is read; run_cookbook reports that it waits for a permit.
LoadSource(r) ==
    /\ Goto(r, "spawned", "queued")
    /\ Report(r)
    /\ UNCHANGED <<signal, job, batches, permits, diskVars, cancelVars,
                   disturbed>>

LoadSourceFails(r) ==
    /\ Goto(r, "spawned", "failing")
    /\ UNCHANGED <<registryVars, signal, job, batches, channel, permits,
                   diskVars, cancelVars, disturbed>>

\* Variant: the pipeline runs without waiting for a free permit.
AcquireWithoutWaiting(r) ==
    /\ Goto(r, "queued", "loading")
    /\ ~signal[r]
    /\ permits' = permits - 1
    /\ UNCHANGED <<registryVars, signal, job, batches, channel, diskVars,
                   cancelVars, disturbed>>

\* The select's permit arm, then ensure_not_canceled.
AcquirePermit(r) ==
    /\ Goto(r, "queued", "loading")
    /\ permits > 0
    /\ ~signal[r]
    /\ permits' = permits - 1
    /\ UNCHANGED <<registryVars, signal, job, batches, channel, diskVars,
                   cancelVars, disturbed>>

\* Variant: the signal is looked at only once a permit has come.
StopAfterPermit(r) ==
    /\ Goto(r, "queued", "closing")
    /\ permits > 0
    /\ signal[r]
    /\ UNCHANGED <<registryVars, signal, job, batches, channel, permits,
                   diskVars, cancelVars, disturbed>>

\* The select's cancellation arm (or the check right after the permit).
StopQueued(r) ==
    /\ Goto(r, "queued", "closing")
    /\ signal[r]
    /\ UNCHANGED <<registryVars, signal, job, batches, channel, permits,
                   diskVars, cancelVars, disturbed>>

\* Loading is reported, and again when OCR starts; the pages without text make the OCR batches.
LoadPages(r) ==
    /\ Goto(r, "loading", "ocr")
    /\ \E n \in 0 .. OcrBatches : batches' = [batches EXCEPT ![r] = n]
    /\ Report(r)
    /\ UNCHANGED <<signal, job, permits, diskVars, cancelVars, disturbed>>

\* ensure_not_canceled, then a batch goes to the OCR server.
SendBatch(r) ==
    /\ Goto(r, "ocr", "batch")
    /\ batches[r] > 0
    /\ ~signal[r]
    /\ batches' = [batches EXCEPT ![r] = @ - 1]
    /\ UNCHANGED <<registryVars, signal, job, channel, permits, diskVars,
                   cancelVars, disturbed>>

\* Its answer, or the page by page fallback that an error (a cancel too)
\* leads to, is reported page by page.
BatchDone(r) ==
    /\ Goto(r, "batch", "ocr")
    /\ Report(r)
    /\ UNCHANGED <<signal, job, batches, permits, diskVars, cancelVars,
                   disturbed>>

\* ensure_not_canceled after the last batch.
OcrDone(r) ==
    /\ Goto(r, "ocr", "mapping")
    /\ batches[r] = 0
    /\ ~signal[r]
    /\ UNCHANGED <<registryVars, signal, job, batches, channel, permits,
                   diskVars, cancelVars, disturbed>>

\* OcrProducedNoText, also when a cancel cut the last batch short.
OcrFails(r) ==
    /\ Goto(r, "ocr", "failing")
    /\ batches[r] = 0
    /\ permits' = permits + 1
    /\ UNCHANGED <<registryVars, signal, job, batches, channel, diskVars,
                   cancelVars, disturbed>>

\* The source map is built; map and plan are reported.
Plan(r) ==
    /\ Goto(r, "mapping", "planned")
    /\ Report(r)
    /\ UNCHANGED <<signal, job, batches, permits, diskVars, cancelVars,
                   disturbed>>

\* extract_cookbook without a provider keeps only the context blocks.
ContextOnly(r) ==
    /\ FALSE \in LlmConfigured
    /\ Goto(r, "planned", "extracted")
    /\ ~signal[r]
    /\ UNCHANGED <<registryVars, signal, job, batches, channel, permits,
                   diskVars, cancelVars, disturbed>>

\* extract_cookbook removes an old cancel file and writes the request.
PrepareWorker(r) ==
    /\ TRUE \in LlmConfigured
    /\ Goto(r, "planned", "preparing")
    /\ ~signal[r]
    /\ marker' = [marker EXCEPT ![job[r]] = FALSE]
    /\ UNCHANGED <<registryVars, signal, job, batches, channel, permits, row,
                   catalogue, cancelVars, disturbed>>

SpawnWorker(r) ==
    /\ Goto(r, "preparing", "extracting")
    /\ Report(r)
    /\ UNCHANGED <<signal, job, batches, permits, diskVars, cancelVars,
                   disturbed>>

\* One more report of the same stage: the second one of LoadPages or Plan, the
\* next page of a batch, or a line that pump_progress_file found.
ReportAgain(r) ==
    /\ pc[r] \in {"ocr", "planned", "extracting"}
    /\ Report(r)
    /\ UNCHANGED <<signal, pc, job, batches, permits, diskVars, cancelVars,
                   disturbed>>

WorkerSucceeds(r) ==
    /\ Goto(r, "extracting", "extracted")
    /\ UNCHANGED <<registryVars, signal, job, batches, channel, permits,
                   diskVars, cancelVars, disturbed>>

\* A directory or an old file of the work directory stands in the way.
PrepareFails(r) ==
    /\ TRUE \in LlmConfigured
    /\ Goto(r, "planned", "failing")
    /\ ~signal[r]
    /\ permits' = permits + 1
    /\ UNCHANGED <<registryVars, signal, job, batches, channel, diskVars,
                   cancelVars, disturbed>>

\* The request cannot be written, the worker cannot be spawned or its output
\* is bad, or it exits with an error: its own, or that it saw the cancel file.
WorkerFails(r) ==
    /\ pc[r] \in {"preparing", "extracting"}
    /\ pc' = [pc EXCEPT ![r] = "failing"]
    /\ permits' = permits + 1
    /\ UNCHANGED <<registryVars, signal, job, batches, channel, diskVars,
                   cancelVars, disturbed>>

\* run_command stops before it spawns the worker, or writes the cancel file
\* and kills it.
WorkerKilled(r) ==
    /\ Goto(r, "extracting", "closing")
    /\ signal[r]
    /\ permits' = permits + 1
    /\ \/ marker' = [marker EXCEPT ![job[r]] = TRUE]
       \/ UNCHANGED marker
    /\ UNCHANGED <<registryVars, signal, job, batches, channel, row,
                   catalogue, cancelVars, disturbed>>

\* Normalizing is reported before the last check.
ReportNormalizing(r) ==
    /\ Goto(r, "extracted", "normalizing")
    /\ Report(r)
    /\ UNCHANGED <<signal, job, batches, permits, diskVars, cancelVars,
                   disturbed>>

\* Variant: this way out forgets the permit.
StopKeepsPermit(r) ==
    /\ pc[r] \in {"ocr", "planned", "normalizing"}
    /\ signal[r]
    /\ pc' = [pc EXCEPT ![r] = "closing"]
    /\ UNCHANGED <<registryVars, signal, job, batches, channel, permits,
                   diskVars, cancelVars, disturbed>>

\* The failing side of ensure_not_canceled inside the permit.
StopIfCanceled(r) ==
    /\ pc[r] \in {"ocr", "planned", "normalizing"}
    /\ signal[r]
    /\ pc' = [pc EXCEPT ![r] = "closing"]
    /\ permits' = permits + 1
    /\ UNCHANGED <<registryVars, signal, job, batches, channel, diskVars,
                   cancelVars, disturbed>>

\* Variant: without the last check.
SealUnchecked(r) ==
    /\ Goto(r, "normalizing", "sealed")
    /\ permits' = permits + 1
    /\ UNCHANGED <<registryVars, signal, job, batches, channel, diskVars,
                   cancelVars, disturbed>>

\* The last check passed; run_cookbook returns and its permit with it.
Seal(r) ==
    /\ Goto(r, "normalizing", "sealed")
    /\ ~signal[r]
    /\ permits' = permits + 1
    /\ UNCHANGED <<registryVars, signal, job, batches, channel, diskVars,
                   cancelVars, disturbed>>

ReportPersisting(r) ==
    /\ Goto(r, "sealed", "persisting")
    /\ Report(r)
    /\ UNCHANGED <<signal, job, batches, permits, diskVars, cancelVars,
                   disturbed>>

\* persist_cookbook_pipeline's transaction.
PersistGraph(r) ==
    /\ Goto(r, "persisting", "committed")
    /\ catalogue' = [catalogue EXCEPT ![job[r]] = r]
    /\ UNCHANGED <<registryVars, signal, job, batches, channel, permits, row,
                   marker, cancelVars, disturbed>>

\* Variant: the transaction's error is only logged.
PersistGraphErrorIgnored(r) ==
    /\ Goto(r, "persisting", "committed")
    /\ UNCHANGED <<registryVars, signal, job, batches, channel, permits,
                   diskVars, cancelVars, disturbed>>

PersistGraphFails(r) ==
    /\ Goto(r, "persisting", "failing")
    /\ UNCHANGED <<registryVars, signal, job, batches, channel, permits,
                   diskVars, cancelVars, disturbed>>

ReportComplete(r) ==
    /\ Goto(r, "committed", "closing")
    /\ Conclude(r, "complete")
    /\ UNCHANGED <<signal, job, batches, permits, diskVars, cancelVars,
                   disturbed>>

\* fail_job
ReportFailed(r) ==
    /\ Goto(r, "failing", "closing")
    /\ Conclude(r, "failed")
    /\ UNCHANGED <<signal, job, batches, permits, diskVars, cancelVars,
                   disturbed>>

\* The persistence task writes the oldest snapshot; an error is only logged.
SaveSnapshot(r) ==
    /\ channel[r] # <<>>
    /\ channel' = [channel EXCEPT ![r] = Tail(@)]
    /\ \/ /\ row' = [row EXCEPT ![job[r]] = Head(channel[r])]
          /\ UNCHANGED disturbed
       \/ /\ "store" \in Faults
          /\ disturbed' = disturbed \cup {job[r]}
          /\ UNCHANGED row
    /\ UNCHANGED <<registryVars, signal, pc, job, batches, permits, marker,
                   catalogue, cancelVars>>

\* Variant: the task does not wait for the persistence task.
FinishUndrained(r) ==
    /\ Goto(r, "closing", "done")
    /\ UNCHANGED <<registryVars, signal, job, batches, channel, permits,
                   diskVars, cancelVars, disturbed>>

\* report was dropped and the persistence task has drained the channel.
Finish(r) ==
    /\ Goto(r, "closing", "done")
    /\ channel[r] = <<>>
    /\ UNCHANGED <<registryVars, signal, job, batches, channel, permits,
                   diskVars, cancelVars, disturbed>>

-----------------------------------------------------------------------------
(* cookbook_import_cancel_route                                            *)

\* Only a canceled snapshot asks for the cancel file.
MarkOrSave(state) == IF state = "canceled" THEN "mark" ELSE "save"

\* JobRegistry::cancel on a running entry.
Cancel(c, i) ==
    /\ cpc[c] = "idle"
    /\ entry[i] = "running"
    /\ signal' = [signal EXCEPT ![owner[i]] = TRUE]
    /\ entry' = [entry EXCEPT ![i] = "canceled"]
    /\ disturbed' = disturbed \cup {i}
    /\ cjob' = [cjob EXCEPT ![c] = i]
    /\ csnap' = [csnap EXCEPT ![c] = "canceled"]
    /\ cpc' = [cpc EXCEPT ![c] = "mark"]
    /\ UNCHANGED <<owner, pc, job, batches, channel, permits, diskVars>>

\* JobRegistry::cancel leaves an entry that is not running as it is.
CancelLate(c, i) ==
    /\ cpc[c] = "idle"
    /\ entry[i] \in Terminal
    /\ cjob' = [cjob EXCEPT ![c] = i]
    /\ csnap' = [csnap EXCEPT ![c] = entry[i]]
    /\ cpc' = [cpc EXCEPT ![c] = MarkOrSave(entry[i])]
    /\ UNCHANGED <<registryVars, runVars, diskVars, disturbed>>

\* No entry: the route falls back to the persisted row.
CancelUnknown(c, i) ==
    /\ cpc[c] = "idle"
    /\ entry[i] = "absent"
    /\ cjob' = [cjob EXCEPT ![c] = i]
    /\ cpc' = [cpc EXCEPT ![c] = "read"]
    /\ UNCHANGED <<registryVars, runVars, diskVars, csnap, disturbed>>

\* A running row is turned into a canceled snapshot.
ReadRow(c) ==
    /\ cpc[c] = "read"
    /\ row[cjob[c]] # "none"
    /\ LET snap == IF row[cjob[c]] = "running" THEN "canceled" ELSE row[cjob[c]]
       IN  /\ csnap' = [csnap EXCEPT ![c] = snap]
           /\ cpc' = [cpc EXCEPT ![c] = MarkOrSave(snap)]
    /\ UNCHANGED <<registryVars, runVars, diskVars, cjob, disturbed>>

\* No row either: the route answers 404.
ReadNoRow(c) ==
    /\ cpc[c] = "read"
    /\ row[cjob[c]] = "none"
    /\ cpc' = [cpc EXCEPT ![c] = "idle"]
    /\ cjob' = [cjob EXCEPT ![c] = NoImport]
    /\ UNCHANGED <<registryVars, runVars, diskVars, csnap, disturbed>>

\* request_cancel; its failure is only a warning.
WriteMarker(c) ==
    /\ cpc[c] = "mark"
    /\ cpc' = [cpc EXCEPT ![c] = "save"]
    /\ \/ marker' = [marker EXCEPT ![cjob[c]] = TRUE]
       \/ UNCHANGED marker
    /\ UNCHANGED <<registryVars, runVars, row, catalogue, cjob, csnap,
                   disturbed>>

\* The snapshot is persisted whatever it says; a failure answers an error.
SaveCancel(c) ==
    /\ cpc[c] = "save"
    /\ \/ row' = [row EXCEPT ![cjob[c]] = csnap[c]]
       \/ "store" \in Faults /\ UNCHANGED row
    /\ cpc' = [cpc EXCEPT ![c] = "idle"]
    /\ cjob' = [cjob EXCEPT ![c] = NoImport]
    /\ csnap' = [csnap EXCEPT ![c] = "canceled"]
    /\ UNCHANGED <<registryVars, runVars, marker, catalogue, disturbed>>

\* The client hangs up before the snapshot is handed to the blocking pool.
CancelHangsUp(c) ==
    /\ "hangup" \in Faults
    /\ cpc[c] \in {"read", "mark"}
    /\ cpc' = [cpc EXCEPT ![c] = "idle"]
    /\ cjob' = [cjob EXCEPT ![c] = NoImport]
    /\ csnap' = [csnap EXCEPT ![c] = "canceled"]
    /\ UNCHANGED <<registryVars, runVars, diskVars, disturbed>>

-----------------------------------------------------------------------------
(* The process dies and comes back: the registry, the tasks, the channels, *)
(* the semaphore and the requests are gone; the row, the cancel file and   *)
(* the catalogue stay.  Nothing resumes an interrupted job.                *)
Crash ==
    /\ "crash" \in Faults
    /\ \E i \in Imports : entry[i] # "absent"
    /\ entry' = [i \in Imports |-> "absent"]
    /\ owner' = [i \in Imports |-> NoRun]
    /\ pc' = [r \in Runs |-> IF pc[r] = "idle" THEN "idle" ELSE "done"]
    /\ channel' = [r \in Runs |-> <<>>]
    /\ permits' = Concurrency
    /\ cpc' = [c \in Cancels |-> "idle"]
    /\ cjob' = [c \in Cancels |-> NoImport]
    /\ csnap' = [c \in Cancels |-> "canceled"]
    /\ UNCHANGED <<signal, job, batches, diskVars, disturbed>>

StartRoute(r) ==
    \/ \E i \in Imports : Start(i, r)
    \/ SaveQueued(r) \/ SaveQueuedFails(r) \/ HangUp(r) \/ LateSave(r)

Task(r) ==
    \/ LoadSource(r) \/ LoadSourceFails(r)
    \/ AcquirePermit(r) \/ StopQueued(r) \/ LoadPages(r)
    \/ SendBatch(r) \/ BatchDone(r) \/ OcrDone(r) \/ OcrFails(r)
    \/ Plan(r) \/ ContextOnly(r) \/ PrepareWorker(r) \/ PrepareFails(r)
    \/ SpawnWorker(r) \/ ReportAgain(r) \/ WorkerSucceeds(r) \/ WorkerFails(r)
    \/ WorkerKilled(r) \/ ReportNormalizing(r) \/ StopIfCanceled(r)
    \/ Seal(r) \/ ReportPersisting(r)
    \/ PersistGraph(r) \/ PersistGraphFails(r)
    \/ ReportComplete(r) \/ ReportFailed(r)
    \/ SaveSnapshot(r) \/ Finish(r)

CancelRoute(c) ==
    \/ \E i \in Imports : Cancel(c, i) \/ CancelLate(c, i) \/ CancelUnknown(c, i)
    \/ ReadRow(c) \/ ReadNoRow(c) \/ WriteMarker(c) \/ SaveCancel(c) \/ CancelHangsUp(c)

Next ==
    \/ \E r \in Runs : StartRoute(r) \/ Task(r)
    \/ \E c \in Cancels : CancelRoute(c)
    \/ Crash

Spec == Init /\ [][Next]_vars

-----------------------------------------------------------------------------
(* Fairness.  The runtime polls every ready task and the blocking pool     *)
(* runs every write, so a task that can move does; tokio's semaphore is a  *)
(* FIFO queue, so a waiter is not passed over for ever.  A cancel ends an  *)
(* OCR call: the HTTP call is dropped, the fallback process is killed.     *)
(* Requests, faults and further reports are under no fairness.             *)

\* What the start route and the task do without waiting for a permit, for an
\* OCR answer nobody cancelled or for the LLM worker's exit.
OwnStep(r) ==
    \/ SaveQueued(r) \/ LoadSource(r) \/ LoadSourceFails(r) \/ StopQueued(r)
    \/ LoadPages(r) \/ SendBatch(r) \/ (signal[r] /\ BatchDone(r)) \/ OcrDone(r)
    \/ OcrFails(r) \/ Plan(r) \/ ContextOnly(r) \/ PrepareWorker(r)
    \/ PrepareFails(r) \/ SpawnWorker(r) \/ WorkerKilled(r) \/ ReportNormalizing(r) \/ StopIfCanceled(r)
    \/ Seal(r) \/ ReportPersisting(r)
    \/ PersistGraph(r) \/ PersistGraphFails(r)
    \/ ReportComplete(r) \/ ReportFailed(r) \/ Finish(r)

RunFairness(r) ==
    /\ WF_vars(OwnStep(r))
    /\ SF_vars(AcquirePermit(r))
    /\ WF_vars(SaveSnapshot(r))

\* The LLM worker and the OCR fallback may hang: nothing in the code bounds the
\* running time of a worker process.
FairSpec == Spec /\ \A r \in Runs : RunFairness(r)

\* Worker processes exit by themselves.
WorkersExit ==
    \A r \in Runs : /\ WF_vars(BatchDone(r))
                   /\ WF_vars(WorkerSucceeds(r) \/ WorkerFails(r))

-----------------------------------------------------------------------------
(* Safety.                                                                 *)

\* jobs.rs begin/update/cancel against the start route and the task: an entry
\* that reads "running" always belongs to a start whose last report is still
\* to come, or to one whose client hung up before the task was spawned; a
\* task never ends and leaves its entry running behind it.
RunningIsBacked ==
    \A i \in Imports : entry[i] = "running" =>
        /\ owner[i] \in RunsOf(i)
        /\ pc[owner[i]] \in Working \cup Orphan

\* jobs.rs cancel: whoever reads "canceled" in the registry knows that the
\* run behind the entry has been told to stop, and a run behind a running
\* entry has not.
SignalMatchesEntry ==
    \A i \in Imports :
        /\ entry[i] = "canceled" => owner[i] \in Runs /\ signal[owner[i]]
        /\ entry[i] = "running" => owner[i] \in Runs /\ ~signal[owner[i]]

\* pipeline.rs permits: every way out of run_cookbook gives the permit back
\* exactly once, so at most Concurrency pipelines work at a time.
PermitsConserved ==
    permits + Cardinality({r \in Runs : pc[r] \in Inside}) = Concurrency

\* jobs.rs begin: as long as nobody cancels a run of the import, at most one
\* accepted start is at work on it; a second one is refused until the first
\* has made its last report.
DuplicateStartSuppressed ==
    \A i \in Imports : (\A r \in RunsOf(i) : ~signal[r]) =>
        \A r, s \in RunsOf(i) : pc[r] \in Working /\ pc[s] \in Working => r = s

\* http.rs run_cookbook_import_job: as long as nobody cancels a run of the
\* import, "complete" means that the catalogue holds the graph of the very
\* run the entry belongs to.
CompleteIsPersisted ==
    \A i \in Imports :
        (entry[i] = "complete" /\ \A r \in RunsOf(i) : ~signal[r]) =>
            catalogue[i] = owner[i]

\* http.rs snapshot channel: once a start and everything around it has
\* settled without a cancel of a running job, a hang-up, a failed progress
\* write or an overlap with another request, the persisted row says what the
\* registry says, so a restart shows clients the same outcome.
SettledRow ==
    \A i \in Imports \ disturbed :
        Quiet(i) /\ entry[i] # "absent" => row[i] = entry[i]

-----------------------------------------------------------------------------
(* Action properties.                                                      *)

\* jobs.rs update: a canceled entry changes only because the process died or
\* because a new start, with a signal of its own, took the id over.
LeavesCanceledByStart ==
    \A i \in Imports : entry[i] = "canceled" /\ entry'[i] # "canceled" =>
        \/ entry'[i] = "absent"
        \/ entry'[i] = "running" /\ owner'[i] # owner[i]

CanceledIsFrozen == [][LeavesCanceledByStart]_vars

\* Every run keeps the contract of JobContract: sealed only if not told to
\* stop, committed only if sealed, decided once.
PhaseOf(p) ==
    CASE p = "idle" -> "idle"
      [] p \in {"begun", "abandoned", "orphaned"} -> "offered"
      [] p \in {"spawned", "queued"} \cup Inside -> "open"
      [] p \in {"sealed", "persisting"} -> "sealed"
      [] p = "committed" -> "committed"
      [] p = "failing" -> "failed"
      [] OTHER -> "closed"

Contract == INSTANCE JobContract
                WITH phase <- [r \in Runs |-> PhaseOf(pc[r])], told <- signal

KeepsContract == Contract!Spec

-----------------------------------------------------------------------------
(* Liveness.                                                               *)

\* http.rs run_cookbook_import_job: every spawned task ends, its channel
\* drained, if worker processes exit by themselves.
TaskEnds == WorkersExit => \A r \in Runs : pc[r] = "spawned" ~> pc[r] = "done"

\* jobs.rs cancelled() and run_command: a task that is told to stop ends even
\* if a worker process hangs, its own or that of a run that holds the last permit.
CancelEndsTask ==
    \A r \in Runs : (signal[r] /\ pc[r] \in Working) ~> pc[r] \in Settled \cup {"abandoned"}

-----------------------------------------------------------------------------
(* Statements of the repository that the code does not keep.               *)

\* README.md of the API: "duplicate-start suppression"; jobs.rs begin:
\* "Starts a job unless the same id is already running": two spawned tasks
\* never work on one import at the same time.
OneTaskPerImport ==
    \A i \in Imports : \A r, s \in RunsOf(i) :
        {pc[r], pc[s]} \subseteq Working \ {"begun"} => r = s

\* README.md of the API: jobs "with persisted progress" and
\* "cancellation-safe terminal state handling": when everything about a
\* canceled import has settled, the persisted row says so too.
CanceledIsPersisted ==
    \A i \in Imports : Quiet(i) /\ entry[i] = "canceled" => row[i] = "canceled"
=============================================================================
