---------------------------- MODULE MCImportJobs ----------------------------
(* Small instances of ImportJobs.  Runs are interchangeable: no action and *)
(* no safety property names one, so safety runs may use RunSymmetry.       *)
EXTENDS ImportJobs, TLC

RunSymmetry == Permutations(Runs)

CONSTANTS First, Held

\* A reachable state to start from when the whole space is too large for a
\* liveness check: run First holds a permit while its LLM worker extracts
\* import Held; its earlier snapshots have all been persisted.
WorkerBusyInit ==
    /\ entry = [i \in Imports |-> IF i = Held THEN "running" ELSE "absent"]
    /\ owner = [i \in Imports |-> IF i = Held THEN First ELSE NoRun]
    /\ signal = [r \in Runs |-> FALSE]
    /\ pc = [r \in Runs |-> IF r = First THEN "extracting" ELSE "idle"]
    /\ job = [r \in Runs |-> IF r = First THEN Held ELSE NoImport]
    /\ batches = [r \in Runs |-> 0]
    /\ channel = [r \in Runs |-> <<>>]
    /\ permits = Concurrency - 1
    /\ row = [i \in Imports |-> IF i = Held THEN "running" ELSE "none"]
    /\ marker = [i \in Imports |-> FALSE]
    /\ catalogue = [i \in Imports |-> NoRun]
    /\ cpc = [c \in Cancels |-> "idle"]
    /\ cjob = [c \in Cancels |-> NoImport]
    /\ csnap = [c \in Cancels |-> "canceled"]
    /\ disturbed = {}

WorkerBusySpec ==
    /\ WorkerBusyInit
    /\ [][Next]_vars
    /\ \A r \in Runs : RunFairness(r)
=============================================================================
