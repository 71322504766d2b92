----------------------------- MODULE CancelSignal -----------------------------
(***************************************************************************)
(* CancellationSignal (jobs.rs): an atomic flag and a tokio Notify, shared *)
(* by the routes that cancel a job and by every place of the job that      *)
(* waits for something else and for the cancellation at once.  cancel sets *)
(* the flag and then wakes; cancelled makes the future, then looks at the  *)
(* flag, then sleeps.  The steps of both sides interleave freely, and a    *)
(* select! may drop a sleeper whose other branch was faster.               *)
(*                                                                         *)
(* ImportJobs takes the signal as one atomic flag that nobody misses; this *)
(* module is the reason it may.                                            *)
(***************************************************************************)
EXTENDS Naturals

CONSTANTS
    Cancellers, \* calls of cancel
    Waiters     \* tasks that call cancelled, again and again

VARIABLES
    canceled,   \* the AtomicBool
    caller,     \* where each call of cancel stands
    waiter,     \* where each task stands in cancelled
    listening,  \* waiters with a Notified future
    woken       \* waiters whose Notified future is complete

signalVars == <<canceled, caller, waiter, listening, woken>>

\* A future lives in the frame of its task.
SignalTypeOK ==
    /\ canceled \in BOOLEAN
    /\ caller \in [Cancellers -> {"idle", "set", "done"}]
    /\ waiter \in
         [Waiters -> {"away", "called", "created", "seen", "asleep", "returned"}]
    /\ listening = {w \in Waiters : waiter[w] \in {"created", "seen", "asleep"}}
    /\ woken \in SUBSET listening

SignalInit ==
    /\ canceled = FALSE
    /\ caller = [c \in Cancellers |-> "idle"]
    /\ waiter = [w \in Waiters |-> "away"]
    /\ listening = {}
    /\ woken = {}

-----------------------------------------------------------------------------
(* cancel                                                                  *)

\* swap: only the call that finds the flag down goes on to wake.
Swap(c) ==
    /\ caller[c] = "idle"
    /\ canceled' = TRUE
    /\ caller' = [caller EXCEPT ![c] = IF canceled THEN "done" ELSE "set"]
    /\ UNCHANGED <<waiter, listening, woken>>

\* notify_waiters: every future that exists by now completes, polled or not.
NotifyWaiters(c) ==
    /\ caller[c] = "set"
    /\ caller' = [caller EXCEPT ![c] = "done"]
    /\ woken' = woken \cup listening
    /\ UNCHANGED <<canceled, waiter, listening>>

-----------------------------------------------------------------------------
(* cancelled                                                               *)

Call(w) ==
    /\ waiter[w] = "away"
    /\ waiter' = [waiter EXCEPT ![w] = "called"]
    /\ UNCHANGED <<canceled, caller, listening, woken>>

\* Variant: the future exists only once it is awaited.
CreateLate(w) ==
    /\ waiter[w] = "called"
    /\ waiter' = [waiter EXCEPT ![w] = "created"]
    /\ UNCHANGED <<canceled, caller, listening, woken>>

\* notified(), at the head of the loop.
Create(w) ==
    /\ waiter[w] = "called"
    /\ waiter' = [waiter EXCEPT ![w] = "created"]
    /\ listening' = listening \cup {w}
    /\ UNCHANGED <<canceled, caller, woken>>

\* Variant: a task that listens need not look at the flag.
LookAway(w) ==
    /\ waiter[w] = "created"
    /\ waiter' = [waiter EXCEPT ![w] = "seen"]
    /\ UNCHANGED <<canceled, caller, listening, woken>>

\* The flag is down.
Look(w) ==
    /\ waiter[w] = "created"
    /\ ~canceled
    /\ waiter' = [waiter EXCEPT ![w] = "seen"]
    /\ UNCHANGED <<canceled, caller, listening, woken>>

\* Await the future.
Sleep(w) ==
    /\ waiter[w] = "seen"
    /\ waiter' = [waiter EXCEPT ![w] = "asleep"]
    /\ listening' = listening \cup {w}
    /\ UNCHANGED <<canceled, caller, woken>>

\* The future goes with the frame that held it.
Drop(w) == /\ listening' = listening \ {w}
           /\ woken' = woken \ {w}

\* The flag is up.
Return(w) ==
    /\ waiter[w] = "created"
    /\ canceled
    /\ waiter' = [waiter EXCEPT ![w] = "returned"]
    /\ Drop(w)
    /\ UNCHANGED <<canceled, caller>>

\* The future is complete: around the loop.
Wake(w) ==
    /\ waiter[w] = "asleep"
    /\ w \in woken
    /\ waiter' = [waiter EXCEPT ![w] = "called"]
    /\ Drop(w)
    /\ UNCHANGED <<canceled, caller>>

\* The other branch of the select! is done first.
Abandon(w) ==
    /\ waiter[w] = "asleep"
    /\ waiter' = [waiter EXCEPT ![w] = "away"]
    /\ Drop(w)
    /\ UNCHANGED <<canceled, caller>>

-----------------------------------------------------------------------------
CancelCall(c) == Swap(c) \/ NotifyWaiters(c)
Poll(w)   == Create(w) \/ Look(w) \/ Sleep(w) \/ Return(w) \/ Wake(w)

SignalNext ==
    \/ \E c \in Cancellers : CancelCall(c)
    \/ \E w \in Waiters : Call(w) \/ Poll(w) \/ Abandon(w)

SignalSpec == SignalInit /\ [][SignalNext]_signalVars

\* A call of cancel runs to its end and tokio polls a task that can go on;
\* nobody has to cancel, and no other branch has to be done.
SignalFairness ==
    /\ \A c \in Cancellers : WF_signalVars(NotifyWaiters(c))
    /\ \A w \in Waiters : WF_signalVars(Poll(w))

-----------------------------------------------------------------------------
(* Properties                                                              *)

\* No wake-up is lost: whoever sleeps, or has made up its mind to, although
\* the flag is up has been woken, or the call that raised the flag has still to
\* wake.
NoLostWakeup ==
    \A w \in Waiters :
        waiter[w] \in {"seen", "asleep"} /\ canceled =>
            w \in woken \/ \E c \in Cancellers : caller[c] = "set"

\* A cancellation reaches every sleeper, however the wake-up falls between its
\* look at the flag and its sleep; a worker process is killed only thanks to
\* that (pipeline.rs, run_command).
EverySleeperHears ==
    \A w \in Waiters : (waiter[w] = "asleep" /\ canceled) ~> waiter[w] \in {"returned", "away"}

\* Nobody is woken for nothing: a woken task finds the flag up when it looks
\* again, so cancelled returns after at most one sleep.
WokenMeansCanceled == woken # {} => canceled

=============================================================================
