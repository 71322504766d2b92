---------------------------- MODULE JobContract ----------------------------
(***************************************************************************)
(* What an import run promises, whatever its stages are: it is decided     *)
(* once.  A run is offered by the start route and either rejected or       *)
(* opened; an open run may be told to stop; it commits its graph only by   *)
(* passing a seal it cannot pass once told; after that, telling it to stop *)
(* no longer matters.  Nothing leaves "closed".                            *)
(***************************************************************************)
CONSTANT Runs

VARIABLES phase, told
vars == <<phase, told>>

Phase == {"idle", "offered", "open", "sealed", "committed", "failed",
          "closed"}

Init ==
    /\ phase = [r \in Runs |-> "idle"]
    /\ told = [r \in Runs |-> FALSE]

Move(r, from, to) ==
    /\ phase[r] \in from
    /\ phase' = [phase EXCEPT ![r] = to]
    /\ UNCHANGED told

Offer(r)    == Move(r, {"idle"}, "offered")
Open(r)     == Move(r, {"offered"}, "open")
Reject(r)   == Move(r, {"offered"}, "closed")
Withdraw(r) == told[r] /\ Move(r, {"open"}, "closed")
Seal(r)     == ~told[r] /\ Move(r, {"open"}, "sealed")
Fail(r)     == Move(r, {"open", "sealed"}, "failed")
Commit(r)   == Move(r, {"sealed"}, "committed")
Close(r)    == Move(r, {"committed", "failed"}, "closed")

\* A stop request reaches a run that is offered and not yet closed.
Tell(r) ==
    /\ phase[r] \notin {"idle", "closed"}
    /\ told' = [told EXCEPT ![r] = TRUE]
    /\ UNCHANGED phase

\* The process dies with every run in it.
Die ==
    /\ phase' = [r \in Runs |-> IF phase[r] = "idle" THEN "idle"
                                ELSE "closed"]
    /\ UNCHANGED told

Next ==
    \/ \E r \in Runs :
          \/ Offer(r) \/ Open(r) \/ Reject(r) \/ Withdraw(r) \/ Seal(r)
          \/ Fail(r) \/ Commit(r) \/ Close(r) \/ Tell(r)
    \/ Die

Spec == Init /\ [][Next]_vars
=============================================================================
