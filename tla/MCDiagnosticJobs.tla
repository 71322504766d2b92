-------------------------- MODULE MCDiagnosticJobs --------------------------
(***************************************************************************)
(* A TLC instance of DiagnosticJobs: an introduction-page diagnostic and a *)
(* pipeline diagnostic over one permit; and of CancelSignal, of which each *)
(* of the jobs has one.  DiagnosticJobs takes the signal as one flag, so a *)
(* behaviour is about the jobs or about a signal.                          *)
(***************************************************************************)
EXTENDS DiagnosticJobs, CancelSignal

VARIABLE focus  \* what the behaviour is about

allVars == <<vars, signalVars, focus>>

FocusedInit == Init /\ SignalInit /\ focus \in {"jobs", "signal"}

FocusedNext ==
    /\ \/ focus = "jobs" /\ Next /\ UNCHANGED signalVars
       \/ focus = "signal" /\ SignalNext /\ UNCHANGED vars
    /\ UNCHANGED focus

FocusedSpec ==
    /\ FocusedInit
    /\ [][FocusedNext]_allVars
    /\ SignalFairness

=============================================================================
