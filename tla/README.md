# Recitopia in TLA+

Recitopia keeps a household's cookbook: scanned books are uploaded page by page,
a Rust API server sends them through OCR and an LLM worker, and what comes out
(sections, blocks of content, recipes) lands in a DuckDB file next to the recipes
people type in, cook, plan and correct. Requests, detached jobs that run for
minutes or hours, worker processes, a cancel file on disk and a restart of the
server all work on the same few tables; a terminal editor keeps copies of the recipes
as files and saves them back. These specifications say what may be
relied on while that happens, and where it may not.

Paths below are relative to the repository; `api-rs` stands for
`apps/api-rs/src`.

1. [The system](#the-system)
2. [The modules](#the-modules)
3. [The runs](#the-runs), their bounds and the fairness assumed
4. [The proofs](#the-proofs)
5. [Where code and documents disagree](#where-code-and-documents-disagree)
6. [What is not modelled](#what-is-not-modelled)
7. [The plan](#the-plan)

To check a run, `tlc -config <run>.cfg <module>`; to check a proof module,
`tlapm <module>.tla`. `PROJECT.json` lists runs with their modules, the source
lines behind every definition, the hazards with the properties that watch them,
and a mutated definition for every property, under which it fails.

## The system

### Components

| component | state | operations | modules |
|---|---|---|---|
| Cancellation signal (`api-rs/jobs.rs`) | an atomic flag and a tokio `Notify` per job | `cancel`, `cancelled` | CancelSignal |
| Job registry (`jobs.rs`) | progress entry and signal per import, the same per diagnostic, results of diagnostics; a mutex around all | `begin`, `update`, `cancel`, `get`, `put_diagnostic` | ImportJobs, DiagnosticJobs |
| Import start, progress and cancel routes, job task (`http.rs`) | one snapshot channel and persistence task per job, the row in `cookbook_import_jobs`, the cancel file | start, progress, cancel, the detached task | ImportJobs |
| Pipeline (`pipeline.rs`): permits, OCR, worker | a semaphore of `RECITOPIA_RUST_PIPELINE_CONCURRENCY` permits | `run_cookbook`, `recognize_batch` with its subprocess fallback, `run_command` | ImportJobs |
| Pipeline: page numbers | `printed_page_number` of each page | validation and interpolation | PageNumbers |
| Pipeline: source map | sections and the section of each block | `build_source_map` | SourceMap |
| Diagnostics (`http.rs`, `pipeline.rs`) | entry, row, memory, result file | start, progress, cancel, result | DiagnosticJobs |
| Catalogue (`duckdb_write.rs`, `duckdb_read.rs`) | imports, pages, sections, blocks, recipes, cook log, pantry, meal plan, drafts | `persist_cookbook_pipeline`, the CRUD routes | Catalogue |
| DuckDB store (`duckdb_store.rs`) | one connection under a mutex | every operation one transaction | the reason for the grain of Catalogue |
| Uploads (`assets.rs`, `http.rs`, `duckdb_write.rs`) | image files named by their hash, AVIF derivatives, the rows of a new import | archive, page-image and image-set routes; the page-image route that serves | Uploads |
| LLM mapper (`tools/ml`), OCR server (`tools/ocr`) | budget and batches of one call | extraction, recognition | a worker of ImportJobs; own module planned |
| Terminal editor, files (`bin/recitopia_hx.rs`) | a directory of `.cook` files, one per recipe, with links to them and index pages | `materialize_workspace` writes all of it; a `.cook` file holds a recipe as text and as JSON | CookDocument, Workspace |
| Terminal editor, language server (same file) | the text of each open document, an index from ids to files | `initialize`, open, change, save, hover, definition | Workspace |
| Web client (`apps/web`) | views | polling, editing | a client of Workspace and Catalogue; its own state is not modelled |

### How they interact

Clients bring scanned pages: a tar archive in one request, or image after image and
then a set that lists them. Either ends in one transaction that makes an import
with its pages; the images are in files named by their hash before that.

A client starts the job of an import. The start route makes the entry in the
registry, awaits the first write of its row and spawns the task. The task loads
the import's pages, waits for a permit, sends OCR batches, runs the LLM worker,
and replaces the import's graph in one transaction. On its way it reports
snapshots: each updates the registry at once and goes into a channel that a
persistence task drains into the row. A cancel marks the entry `canceled`, raises
the job's signal, writes a file the worker polls, and persists the `canceled`
snapshot itself. The progress route answers the entry, or the row when a restart
has emptied the registry. Meanwhile users edit the pages the job holds copies of,
and the recipes it is about to replace.

`recitopia-hx` is a client beside the web client. A run of it reads the catalogue in one
request and writes every recipe into a file, after the links to it; Helix edits the
files with the tool's own language server, which reads them once when it starts. A
save sends the whole recipe read out of the text with `PUT /api/recipes/:id`, over
whatever the store has by then. Nothing tells files or documents that the store has
moved on, and nothing but a later run writes a file anew.

### What is hard

- **Interleaving**: start, task, persistence task and cancel of one import
  interleave at every await; two runs of one import can overlap after a cancel.
- **Atomicity**: the last look at the signal is before the commit; a cancelled
  future may have been between its look at the flag and its sleep.
- **Ordering**: two writers of one row, one of them behind a queue.
- **Stale state**: a run commits pages it loaded long ago; report closures find
  their entry by import id; a cancel file outlives the job it was meant for;
  estimated page numbers are evidence for the next run.
- **Crashes**: rows, files and catalogue stay, the rest is gone, nothing resumes.
- **Partial failure**: progress writes that fail, a recipe that cannot be written,
  a client that hangs up between two awaits.
- **Files and tables**: an image file is written before the transaction that needs
  it and nothing takes it back; a duplicate check answered in one request is stale in
  the next.
- **Copies**: a recipe is in the store, in a file and in the editor, each older than the
  one before; runs stop half way; lines are matched to ingredients by comments the user
  can move or delete.
- **Resources**: a permit must come back on every way out of the pipeline.

`PROJECT.json` has each of these at its line, with the property that catches it.

## The modules

Every module names source functions where it can, and each has one action per
step between two awaits, unlocks or transactions. Definitions marked *Variant* in
a comment are deliberate mistakes; no specification uses them, and each shows that
a property notices it.

### CancelSignal

`canceled` is the `AtomicBool`, `listening` and `woken` the `Notified` futures
that exist and are complete. `Swap` and `NotifyWaiters` are the two halves of
`CancellationSignal::cancel`, `Create`, `Look`, `Sleep`, `Wake` and `Return` the
loop of `cancelled`; `Abandon` is a `select!` whose other branch finished first.
`notify_waiters` stores no permit: it completes the futures that exist, which is
why the future is made *before* the flag is read. The other modules take the
signal as a flag that nobody misses; `NoLostWakeup` and `EverySleeperHears` are
what entitles them to.

### ImportJobs and JobContract

A *run* is one accepted start; `pc[r]` is where its start route, then its task,
stands. `entry` and `owner` are the registry (state, and whose signal the entry
holds), `signal` the flags, `channel` the snapshots reported and not persisted,
`permits` the semaphore, `row`, `marker` and `catalogue` what survives a crash:
the row's state column, the cancel file, and which run's graph is stored. `cpc`,
`cjob` and `csnap` are the cancel requests in flight. `disturbed` is a history
variable: imports whose row may lag behind, because a write failed, a client hung
up, a running job was cancelled, or two requests overlapped.

| actions | code |
|---|---|
| `Start` … `LateSave` | `cookbook_import_ocr_route`, at each of its awaits |
| `LoadSource`, `AcquirePermit`, `StopQueued`, `LoadPages` | the task up to `run_cookbook` and its wait for a permit |
| `SendBatch`, `BatchDone`, `OcrDone`, `OcrFails` | OCR batches, each with its fallback |
| `Plan`, `ContextOnly`, `PrepareWorker`, `SpawnWorker`, `WorkerSucceeds`, `WorkerFails`, `WorkerKilled` | the worker, or the run without an LLM |
| `StopIfCanceled`, `Seal` | the checks for cancellation, and the last of them |
| `PersistGraph`, `ReportComplete`, `ReportFailed`, `SaveSnapshot`, `Finish` | the commit and the last report, with the drained channel |
| `Cancel` … `CancelHangsUp` | `cookbook_import_cancel_route`, for running, concluded and unknown jobs |
| `Crash` | the process ends and starts again |

A snapshot is its state field; stage, percentage and message follow `pc` and decide
nothing. Whether an LLM is configured is chosen when a run plans its extraction:
the code fixes it at start-up, so the model has more behaviours than the program.

`JobContract` is the abstract specification: a run is offered, opened or rejected;
it commits only by passing a seal it cannot pass once told to stop; it is decided
once. `KeepsContract` is the refinement, `phase` being a function of `pc` and
`told` the signals.

### DiagnosticJobs

The same registry for diagnostics, whose ids are new for every start, plus the
result of an introduction diagnostic: in memory, and in the last of the artifacts
to be written (`artifact` is `"torn"` while `fs::write` has emptied the file and
not filled it). A client can cancel only what it knows of; `Unknown` are the
stages before the start route has answered. Permits are shared with imports in
the code; here diagnostics compete with each other only, and since a waiting job
holds nothing else, that loses no behaviour of theirs but a longer wait.

### Catalogue

One action per store operation: the store holds its mutex and transaction from the
first to the last statement. `recipes` maps each id to who wrote the row last, the
import whose generated ids it carries, and `times_made`. `pages` are the text and
review state of each page; `sections` and `blocks` say of every id who wrote its row last (a
run, or for a block the accept and PATCH routes). Ids are sequences of the parts that the
code joins with hyphens, beginning with the import's: `SectionId` and `BlockId` are what
the pipeline builds, `AcceptedId` is the block made of an accepted page. What a run
deletes is decided as in the code, by `like` over ids (`SectionPatterns`, `BlockPatterns`,
`Like`), and what it writes by the ids it builds; nothing in the model says which
blocks are accepted ones, so that these survive is a fact to check. A prefix of parts is a
prefix of the text because import ids end in hexadecimal digits that nobody else's id
goes on from (`generate_id`), and no id holds `%`. A run (`phase`,
`job`, `refresh`, `copy`) is a `Load`, which copies the pages, and a `Commit`,
which is all of `persist_cookbook_pipeline`: pages written back, sections and
blocks replaced, recipes upserted with their old `times_made`, stale ones deleted
with everything that hangs on them, the status computed. Recipes that cannot be
written (`bad`) are skipped and their id cleared, as the code does.

There are no foreign keys, so what a deletion takes along is what the code lists. A recipe
that a user or a draft brings may name a block of any import (`source_block_id`, here
`from`); the next run of that import then counts it among those it generated and takes it
away if it is stale.

### PageNumbers

`number` is what is stored for the pages of one import. A run reads any numbers
off any pages (`Scan`), throws out those that do not fit their predecessor
(`Rejected`), and estimates what is missing between two anchors (`Estimate`,
rounded to the nearest in integers as in the code). Estimates are stored like
numbers that were read, so the state of interest is the one after several runs.

### SourceMap

`build_source_map` as one step over every scan: printed numbers, page kinds,
headings and the contents list are the initial state. `StartOf` finds where a
listed title begins, `SectionsOf` turns starts into ranges with the clamping of
the code. Each title is listed once and heads one page at most.

### Uploads

An image stands for its bytes, hence for its hash and its file. `files` says of each
whether `cookbook-images` has none of it, a part, or all; `derived` the same of its AVIF
file. An upload goes through `pc`: an archive is streamed to disk (`Stream`), walked
entry by entry (`PassOver`, `RefuseEntry`, `RefuseRepeated`), each image written
under its hash (`FindFile`, or `BeginWrite` with `Publish` or `WriteFails`, which are
`atomic_write`), and the pages so found (`listing`) are persisted. A page image stops after the
write with a look at the table (`Check`). An image set lists pages, each with the hash of an
image that was answered *ok* (`Known`) or with none (`NoHash`), which no check compares, and
is persisted at once. That a hash somebody gives is one this server answered, with its path,
is assumed of clients: nothing checks it. `Persist` is `create_cookbook_source_import` with
its own look for duplicates, `RowsOf` what `insert or replace` makes of two pages with
one index. `HangUp` is the client that goes away, which stops a handler at its
next await but not the blocking task it waits for (`Await`). Viewers read a page's
image, and encode its derivative if nobody has.

### CookDocument and Workspace

CookDocument is the format: `Write` lays a recipe out in lines, `Derived` reads one back.
What is read is the JSON at the end of the file, the *base*, overridden by the front
matter and by the lines under the headings Ingredients and Method. Lines are matched to
the base by the directive before them or, where there is none, by place (`Origin`); a
line that is as it was written keeps all of its ingredient, another replaces what it
shows (`ReadItem`). A line is a record of its kind and of what the parser takes from it;
the arithmetic of quantities and the escaping of names are left out, and a step's text
is the sequence of its lines. `IsRecipe` says which values the Rust structs can take, and
`IsText` what a file can hold: any lines, where a block that counts holds a recipe.

Workspace puts the copies together: `db` is the store as far as the tool and its
neighbours see it, `fetched` what the current run has read, `files` the directory,
`documents` the editor's texts, `index` the server's `id_to_uri`. `written` and `scanned`
are history variables: what each file was last written from, and which files carried an
id when the server started.

| actions | code |
|---|---|
| `Create`, `Update`, `Delete`, `MarkMade` | the recipe routes, called by web clients |
| `Fetch`, `LinkCookbooks`, `WriteRecipe`, `LinkCollections` | a run of `materialize_workspace`, in its order: the links come before the files |
| `LinkFails`, `WriteRecipeFails` | an I/O error or a kill; `Torn` is what `fs::write` may leave of a text |
| `Initialize` | a start of the server, with `scan_workspace`: `recipes/` first, directories in any order, the first entry of an id stays |
| `DidOpen`, `DidOpenPage`, `DidChange` | the notifications of Helix, each of which adds to the index |
| `SaveAccepted`, `SaveRefused` | Helix writes the file, then `did_save` sends the recipe |

`FileName` is a function of title and id, not one-to-one: *apple pie* with the id *cake*
and *apple* with the id *pie-cake* are one file, as `slug_file` has it, and titles
without letters all end up in `item.cook`.

## The runs

| run | what it explores | what it shows |
|---|---|---|
| `jobs_safety` | one import, two starts, one permit, one cancel request at a time, OCR batches, with and without a worker, all faults | types; running entries are backed by a start; registry and signals agree; permits add up; duplicate starts are refused while nobody cancels; *complete* means persisted; the row settles on what the registry says; canceled entries are left alone; the contract is kept |
| `jobs_liveness` | two imports over one permit, from a state where the first's worker holds it | every cancelled job ends even if a worker hangs for ever; every spawned task ends if workers exit |
| `jobs_claim_one_task`, `jobs_claim_canceled_row` | the smallest instance each | disagreements 1 and 2 below |
| `diagnostics` | a choice at the start: (jobs) an introduction and a pipeline diagnostic over one permit, all faults; (signal) two cancels, two tasks that call `cancelled` again and again | *complete* always has a result; results stay; *canceled* never becomes *complete* or *failed*; no wake-up is lost; every sleeper hears |
| `catalogue` | a choice at the start, `focus`: (library) two imports whose runs extract the same recipe id, and users who create, edit, cook, plan, delete and draft it; (sources) a page in each of two imports, two overlapping runs of either, with and without refresh, a user who edits and accepts a page and edits generated and accepted blocks | status agrees with recipes; the generated graph is one run's; `times_made` moves with the cook log; history outlives recipes; deleted recipes leave the plan; a draft is committed with its recipe; accepted content survives; edits outlive later runs |
| `catalogue_claim_own_recipes` | two imports, one recipe id, no users | disagreement 3 |
| `uploads` | a choice at the start, `focus`: (uploads) three requests of any kind over two images, with pages that have a hash or none; (viewers) two requests, one after the other, and two viewers of the pages they make; all faults in both | no image has two pages; pages have whole files and viewers whole derivatives; an archive's pages are its images in order; answers agree with the tables; a conflict is one |
| `pages` | a choice at the start: (numbers) four pages, run after run, readable numbers 1, 4, 6, 15; (map) every scan of three pages, every contents list of three titles | estimates rise between anchors; no run rejects an estimate or anything because of one; every page has a section; sections are apart if nothing is listed beyond the scan |
| `sourcemap_claim_apart` | contents that list later pages | disagreement 4 |
| `workspace` | two recipes of which one can be retitled to the other's file name; runs of the tool, requests of web clients, starts of the server, edits and saves | an untouched file, whole or cut short, saves what it was written from; only a POST makes a recipe; saves leave `times_made` alone; a run that ends well leaves a link and a whole file for each recipe; definitions lead to recipe files; lines that keep their directives keep their ingredients |
| `workspace_claim_comment` | one recipe without notes, one run, one start | disagreement 5 |

### Bounds and why they are enough

- **ImportJobs**: one import in the safety run, because only permits couple imports
  and two runs of one import compete for a permit as two imports do. Two runs are
  what a duplicate, an overlap and a replacement need; runs beyond them repeat
  these. `MaxPending = 2` lets one snapshot be queued behind a stale one;
  the code's channel is unbounded. `OcrBatches = 1`: every batch ends in the same
  four ways. The proofs need none of these bounds.
- `jobs_liveness` starts from a reachable state (`WorkerBusyInit`) and without
  faults, since the graph from `Init` is too large for a liveness check; two imports
  are needed for one to wait behind the other.
- **Catalogue**: two runs suffice for an overlap; `MaxMade` bounds what is cooked.
  All of it at once is too much for TLC, so `MCCatalogue` chooses a `focus` first: the users
  then do only what touches recipes (`LibraryNext`), or review the page and the blocks of one
  import while runs of it and of the other import go on (`SourcesNext`; two of the review
  states stand for all that users can set, since no step tells them apart). The two meet in
  `Commit` alone, and both have it. One slot is one id of each kind and import, of which a
  run may bring any. The theorems are about all of it at once.
- **Uploads**: three requests are what it takes for an image that was checked to be listed
  in a set while somebody else gets it into the catalogue. Two viewers are what it takes for
  one to look for a derivative while another encodes it, or to fail and find the other's; two
  requests make them up to four pages to look at, and what uploads do to each other is the
  other focus. Two images and archives of two entries give
  the order, a repetition, an entry that is passed over and an archive without an image.
- **PageNumbers**: 1, 4, 6 and 15 lie on both sides of every threshold: a step back,
  the largest accepted leap (`4 * distance + 4`), slopes 1 to 4 of an anchor pair
  and just beyond.
- **SourceMap**: three entries are the least from which the contents are used at
  all, three pages the least with an inner one. Numbers 2 and 5 lie in and beyond
  the scan, so that numbers and places get mixed.
- **Workspace**: a behaviour begins with one of five budgets (`Plans`): two edits of
  one recipe's file, of any of its lines or of its front matter; one edit, with a web
  client's request; or no edit but two runs, or a run and a fault, or both. Two edits
  move a line away from its directive and give it another; two runs with a request in
  between write over an older catalogue, and over what a fault left. Two recipes are
  what a shared file name takes. The theorems have no budget.
- **Symmetry** is used for `Runs`, and for the uploads and images of Uploads, in runs that
  check only safety.
- **Deadlock** is checked in the runs of ImportJobs, where someone can always go on; it is
  switched off where everything may be over: each call of `cancel` ends, each diagnostic,
  each of the catalogue's runs and each upload is used once, the source map is built
  once, and a workspace's budget is spent.
- **Types**: `jobs_safety` checks a type invariant; those of the other modules are
  theorems for every instance, and no run repeats them.

### Fairness

Users, faults and clients have none. A task that can take a step of its own takes
it (`WF` on `OwnStep`): the runtime polls every ready task and the blocking pool
runs every write. A persistence task drains (`WF` on `SaveSnapshot`). Acquiring a permit has `SF`,
because tokio's semaphore is a FIFO queue, so a waiter is not passed over for ever
although the permit comes and goes. An OCR call or a worker may hang: `BatchDone`
is fair only for a cancelled run, whose call is dropped and whose fallback process
is killed. That workers exit by themselves is an explicit antecedent
(`WorkersExit`) of the one property that needs it, `TaskEnds`; `CancelEndsTask`
does without. In CancelSignal a call of `cancel` that raised the flag goes on to
notify, and a task that can go on is polled.

## The proofs

TLAPS proves, for every value of the constants allowed by the `ASSUME` of each
module (finite sets where things are counted, at least one permit, distinct
sentinels, well-formed recipes and files to write them to; nothing else), every safety and
action property of the passing runs.

| module | theorems | the argument |
|---|---|---|
| CancelSignalProofs | `TypeCorrect`, `NothingLost`, `WokenCanceled` | inductive with one addition: whoever has looked still has its future, so the notification that follows the flag completes it |
| ImportJobsProofs | `TypeCorrect`, `RunningBacked`, `SignalsMatch`, `CanceledFrozen`, `StartsSuppressed`, `CompletePersisted`, `PermitsAddUp`, `RowSettles`, `ContractKept` | below |
| CatalogueProofs | `TypeCorrect`, `OneRun`, `StatusTells`, `MadeTracks`, `HistoryIsKept`, `DeletedUnplanned`, `DraftCommits`, `AcceptedKeeps`, `EditsOutlive` | every action is a step on the library, on the sources, a quiet step of a run, or a commit; each class is shown once to keep the invariant |
| PagesProofs | `TypeCorrect`, `Rise`, `Fit`, `NumbersSettle`, `EveryPage`, `SectionsApart` | numbers: arithmetic of the estimate, between 1 and 4 per page and never reaching the anchor, then the neighbours of an estimate are estimates or its anchors, and no gap is left to fill (`NoGapsLeft`); sections: least and greatest elements of finite sets of numbers, the section of a page is the one with the largest start not after it |
| DiagnosticJobsProofs | `TypeCorrect`, `CompleteBacked`, `ResultKept`, `CanceledFinal`, `EndSettles`, `PermitsAddUp` | below |
| UploadsProofs | `TypeCorrect`, `PagesKept`, `ArchiveOrdered`, `DerivativesFinished`, `AnswersTrue`, `Unique`, `ConflictsTrue` | below |
| CookDocumentProofs | `RoundTrip`, `TextIdentifies`, `SaveSettles` | induction over the lines of a file, below |
| WorkspaceProofs | `TypeCorrect`, `PostCreates`, `HistoryStays`, `CompleteWritten`, `GotoFinds`, `UneditedKept`, `DirectivesKept` | below |

**ImportJobs.** `TypeInv` adds to the types that a started run has its import
and the import an entry (`Placed`). `RegistryInv` couples entries and signals. Neither
says anything about two runs of one import; `AloneInv` does, under the
condition that no run of the import was cancelled: each working run then owns the
entry and the entry is running, so `begin` refuses another start, and what is
committed and reported is the owner's. `RowInv` strengthens `SettledRow` to states
in mid-flight: the newest waiting snapshot, or else the row, says what the entry
says, as long as the import is undisturbed. The task's two dozen steps are first sorted into a few
kinds (`TaskKinds`: going on, withdrawing, concluding, saving), so that the
invariants need one argument per kind. `ContractKept` maps each step to a step of
JobContract or to a stutter (`RunMoves`, `CancelContract`).

**Catalogue.** To the type invariant and the two state properties the invariant adds that
the block of an accepted page is absent or the user's (`AcceptedByUser`). For sections and
generated blocks the proof needs what a run's patterns match: all that its import may have
generated (`SectionsLike`, `BlocksLike`), so nothing older stays (`OneRun`), and no accepted
block of any import, nor does a run build the id of one (`AcceptedUnlike`), so the user's stays
(`AcceptedKeeps`). With the import's bare id for a pattern the latter fails, and so does the mutant.

**DiagnosticJobs.** The invariant holds per job (`JobInv`), and a step of one job is
shown to leave the others' variables alone once and for all (`OthersSame`).
`ResultInv`: a result is in memory, and *complete* is anywhere (entry, row, queue,
pending cancel), only if the file is whole. `PendingInv` bounds what may still be
written over the row: behind a running entry only *running* is queued, behind a
canceled one *running* and *canceled*. That is why no delayed write can make a
canceled diagnostic read *complete*, even when a crash drops the entry. `EndInv` is the
counterpart for diagnostics that end by themselves: the end is the last snapshot on its way
to the row, and late cancel requests write the same end, so the row settles on it unless the
store fails (`EndSettles`; for a canceled one it does not, see 2 below).

**Uploads.** `Standing` says what each `pc` entails: how far the walk is and of which kind the
request may be. `Kept`: no file is ever partial, and whatever a request is done with, or a
page has, is in a whole file; files never go back (`FilesStep`), so what holds of one
request survives the steps of the others (`SameStands`, `SameKept`). `Owned` ties rows to imports
and imports to requests that are over, so a refused or failed request has left nothing.
`Unique` needs of it only that a request persists once, and the duplicate check *inside* the
transaction: with the one at upload alone the proof fails, and so does the mutant.

An archive is walked entry by entry, and `Counted` is the walk's invariant: the images met
so far are the pages made so far, each at the number of images up to its entry. A whole walk
makes that the whole archive, so `ArchiveOrdered` holds of archives of any length.

**CookDocument.** What is read is a recursive function over lines, and what is written is
flattened lists, so both are reasoned about line by line. The library's induction theorems
are out of reach (they take an operator), but its `NatLessThanWellFounded` and `WFMin` are
not: a set of numbers has a least one (`LeastNumber`), so a set with 0 and every successor is
all of them (`Induct`). From this follow that the two readers are what their equations say
(`IngredientsRead`, `StepsRead`) and that flattening pieces is walking along them
(`AlongPieces`).
`RoundTrip` goes through the written lines in order, with a statement for the middle of the
walk: after the lines of `i` ingredients, the first `i` of the base are read, each with its
place and what no line shows (`ReadAlready`, and `AtRest` for steps); lines of
the other kind leave a reader as it was (`Left`, `OutOf`); notes close the last step and move
the reader out of the method before the block comes (`ThreeMore`). Without notes that fails,
the JSON being read as one more step (5 below), so `Plain` asks for them.
`TextIdentifies` holds of any lines: after `n` of them the list has one entry for each
line read, and each entry is what its directive names (`ReadSoFar`); later lines only
append (`EntryStays`).
`SaveSettles` puts the two directions together: whatever is read of a text stands in its
place, and each step of it is a paragraph (`ReadIngredientList`, `ReadStepList`, kept by
every line), so what a save stores is plain, and the next run's file reads as just that.

**Workspace.** `PostCreates` and `HistoryStays` need nothing of how a document is read: `Put`
is the only way from a document to the store, and it needs a row and keeps its count.
`CompleteWritten` needs what holds in the middle of a run: a recipe the run has dealt with has
its link, and the file of its name was last written, whole, from a recipe the run has dealt
with, or saved since. `GotoFinds` rests on the first entry of an id staying: after a start the
entry is among the files scanned, and no later event replaces an entry.
`TypeCorrect` is more than types here. Every file and every document a client holds is a
text (`Texts`), in which a block that counts holds a well-formed recipe; whatever is derived
of a text is well formed again (`DerivedIsRecipe`), so the store, and the files the next run
writes of it, stay so. With it `UneditedKept` comes from `RoundTrip` and from `FilesAsWritten`:
a file that is neither absent nor saved is, as a run left it, all of what was written or a
beginning without the block (`TornHoldsNone`), and the latter has no base to read. `DirectivesKept`
is `TextIdentifies` at each document. The proofs assume of the constants that the
library's recipes are well formed and that a block a user types holds such a recipe,
as `serde_json` refuses any other. Well formed includes that no step has a line that opens
a block: what the editor reads never has, since the lines of a step are joined by spaces
and such a line stands alone, but no code checks it of what another client posts.

Model-checked only: the liveness properties `TaskEnds`, `CancelEndsTask` and
`EverySleeperHears`; fairness and `ENABLED` are beyond the proof system.

## Where code and documents disagree

1. **Two tasks on one import** (`jobs_claim_one_task`). `api-rs/jobs.rs` says
   "Starts a job unless the same id is already running", the API's README
   "duplicate-start suppression". A cancel turns the entry to `canceled` at once,
   while the task works on until its next look at the signal; a start in between is
   accepted. Both then load, recognise and, if the first had passed its last check,
   commit. `DuplicateStartSuppressed` is what does hold.
2. **A canceled row reads running after a restart** (`jobs_claim_canceled_row`).
   The API's README promises "persisted progress" and "cancellation-safe terminal
   state handling". The cancel route writes its snapshot beside the channel; a running
   snapshot queued before is written after it. `SettledRow` is what does hold.
3. **A run replaces other imports' recipes** (`catalogue_claim_own_recipes`).
   `docs/pipeline-test-strategy.md` says "stale import rows removed only for the
   target import". Recipe ids are slugs of titles shared by all; the later import
   takes over the row, and its next run may delete it.
4. **Sections overlap** (`sourcemap_claim_apart`). The test
   `source_map_uses_contents_order_and_never_overlaps_sections` names the property.
   Contents that list pages after the last one scanned are clamped to the last page,
   which the section before ends with. `ScannedSectionsApart` is what does hold.

5. **The JSON is read as a step** (`workspace_claim_comment`). The server calls the JSON
   at the end of a file a "block comment" (`bin/recitopia_hx.rs`, line 1451). Without
   notes it follows the last step, under the heading Method, and the parser of the steps
   skips only lines that begin with `--`: every save of such a file stores the JSON as a
   further step, and the next file shows it. `UneditedSaveKeeps` is what does hold, of recipes
   with notes.

Further behaviours the models have and no document speaks about:

- A cancel file left behind, or written late, stops the worker of the next run.
- A cancelled run's task reports into the entry of the run that replaced it, and may
  turn it *complete*; hence the "nobody cancelled" in `CompleteIsPersisted`.
- A run writes back the copies of all its pages, so an edit made while it was under way is
  lost (`EditsOutliveLaterRuns` speaks of runs that begin after the edit).
- A hang-up between `begin` and the spawn leaves an entry running that no task will
  conclude; a cancel frees it.
- Numbers read as 1, 15, 15 become 1, –, 15 and, in the next run, 1, –, –: validation is
  not idempotent on numbers that were read; on estimates it is (`EstimatesFit`), and where
  nothing is rejected the second time, nothing ever changes again (`NumbersSettle`).
- An upload that failed, conflicted or was cut off leaves image files without a page;
  nothing removes them, nor `upload.tar` and the extracted copies of an archive. They
  never block a retry (`ConflictIsTrue`), which finds the files and writes nothing.
- A client that loses the answer to an import that was made and tries again is told
  *conflict*, for its images are in the catalogue. The routes have no other way to recognise a
  retry.
- An image set that gives two images one index is accepted, and the later one replaces
  the earlier: the answer counts two pages, the catalogue has one.
- An edit of a generated block lasts until the next run of its import, which replaces the
  block (`GraphIsOneRun`); an edit of the page, or of accepted content, lasts.
- A restart leaves the row of an interrupted job at *running*; nothing resumes or concludes
  it, as the API's README says.
- A draft that was committed can be edited and committed again, over the recipe.
- A meal can be planned for a recipe that was deleted in between: a reader shows the
  entry without it.
- A refresh that finds no number on a page keeps the number of an earlier run.
- A save from Helix puts its whole recipe over what web clients changed since the file
  was written; the API has no conditional PUT. The answer of the PUT is not written back,
  so the file's base is older than the store from then on.
- A file cannot show everything: a step of two paragraphs comes back as two steps with one
  id or with a neighbour's, which the store refuses; a page range with one end comes back
  closed; "optional" can be added but not taken away; deleting every ingredient line
  changes nothing (`Plain` names the recipes a file can show).
- Recipes that share a file name overwrite each other in `recipes/`; files and links of
  recipes that were deleted or retitled stay, and a server goes on finding them.

## What is not modelled

- What OCR, the LLM and the parsers make of a page: image and language processing.
- The section a block lies in. An accepted block keeps the one it was given, also when a later
  run of the import no longer has a section of that id.
- Reads, serialisation, configuration, logging, packaging: no behaviour over time.
- Titles that head several pages, page ranges of recipes inside a section, and the
  merging of OCR entries: data that the properties so far do not tell apart.
- Power loss: a crash in Uploads is one of the process, after which every rename holds.
  The directory is not synced after the rename, so a power loss may do worse.
- What the tar reader, the image size limits and the base64 decoder refuse is one refusal;
  HTTP headers and ETags of the image route.
- Of `recitopia-hx`: the texts of index, meal-plan, history and source pages, which nobody
  reads back; the older form of a document with a fenced JSON block; diagnostics and
  document symbols; how a slug is spelled; notes of several lines; the start of Helix. It
  is taken for granted that every recipe belongs to a cookbook that is listed, and that
  Helix opens a file under one path.
- Pantry items that no cooked recipe left: they touch nothing else.
- The mapper's parallel batches, retries and budget (Python, one process per run): ImportJobs
  takes the mapper as a worker that succeeds, fails or is killed.
- The web client's own state. Its requests are actions of Catalogue, Uploads and Workspace.

## The plan

1. **Done**: ImportJobs with JobContract (the core), CancelSignal under it,
   Catalogue, PageNumbers, SourceMap, DiagnosticJobs, Uploads, CookDocument and Workspace;
   their runs and proofs.
2. **Source map**: titles that several pages head, recipe ranges inside a section.
3. **Mapper**: parallel batches, merge order, budget, cancel file between batches;
   abstract specification: the result is that of the batches in order.
4. **Client**: polling of progress and answers that come after the user moved to
   another import, composed with ImportJobs' progress route as an abstract server.
5. **OCR detail**: which pages a batch holds, counts reported, fallback per batch.
6. **Proofs**: those of 2 to 5. An abstract specification of Catalogue would say little that
   its invariants do not: each of its transactions is one step already.

To keep the number of runs small, modules without common state share one: CancelSignal runs
beside DiagnosticJobs, and SourceMap beside PageNumbers, each behaviour being about one of the two.
