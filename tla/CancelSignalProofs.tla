-------------------------- MODULE CancelSignalProofs --------------------------
(***************************************************************************)
(* Proofs about CancelSignal, for any number of cancel calls and tasks.    *)
(***************************************************************************)
EXTENDS CancelSignal, TLAPS

\* The flag goes up before anybody wakes: a call that has still to wake, or
\* has nothing left to do, means that the flag is up.
FlagFirst == \A c \in Cancellers : caller[c] # "idle" => canceled

Inv == SignalTypeOK /\ FlagFirst /\ NoLostWakeup /\ WokenMeansCanceled

LEMMA InitInv == ASSUME SignalInit PROVE Inv
BY DEF SignalInit, Inv, SignalTypeOK, FlagFirst, NoLostWakeup, WokenMeansCanceled

\* The flag changes nothing but the flag; the call that raises it wakes later.
LEMMA SwapKeepsInv ==
    ASSUME Inv, NEW c \in Cancellers, Swap(c)
    PROVE  Inv'
<1> USE DEF Inv, Swap
<1>1. SignalTypeOK'
  BY DEF SignalTypeOK
<1>2. FlagFirst' /\ WokenMeansCanceled'
  BY DEF FlagFirst, WokenMeansCanceled
<1>3. NoLostWakeup'
  <2>1. CASE canceled
    <3>1. \A d \in Cancellers : caller[d] = "set" => caller'[d] = "set"
      BY DEF SignalTypeOK
    <3> QED
      BY <2>1, <3>1 DEF NoLostWakeup
  <2>2. CASE ~canceled
    <3>1. caller'[c] = "set"
      BY <2>2 DEF SignalTypeOK
    <3> QED
      BY <3>1 DEF NoLostWakeup
  <2> QED
    BY <2>1, <2>2
<1> QED
  BY <1>1, <1>2, <1>3

\* Whoever sleeps has a future, and every future completes.
LEMMA NotifyKeepsInv ==
    ASSUME Inv, NEW c \in Cancellers, NotifyWaiters(c)
    PROVE  Inv'
<1> USE DEF Inv, NotifyWaiters
<1>1. SignalTypeOK'
  BY DEF SignalTypeOK
<1>2. FlagFirst' /\ WokenMeansCanceled'
  BY DEF FlagFirst, WokenMeansCanceled, SignalTypeOK
<1>3. NoLostWakeup'
  <2>1. \A w \in Waiters : waiter'[w] \in {"seen", "asleep"} => w \in woken'
    BY DEF SignalTypeOK
  <2> QED
    BY <2>1 DEF NoLostWakeup
<1> QED
  BY <1>1, <1>2, <1>3

\* A task that makes up its mind to sleep has just seen the flag down; between
\* that and its sleep it keeps what it was woken with.
LEMMA WaiterKeepsInv ==
    ASSUME Inv, NEW w \in Waiters, Call(w) \/ Poll(w) \/ Abandon(w)
    PROVE  Inv'
<1> USE DEF Inv
<1>1. /\ UNCHANGED <<canceled, caller>>
      /\ \A v \in Waiters : v # w => waiter'[v] = waiter[v] /\ (v \in woken => v \in woken')
      /\ woken' \subseteq woken
      /\ waiter'[w] = "seen" => ~canceled
      /\ waiter'[w] = "asleep" => waiter[w] = "seen" /\ woken' = woken
  BY DEF Call, Poll, Create, Look, Sleep, Return, Wake, Abandon, Drop, SignalTypeOK
<1>2. SignalTypeOK'
  <2>1. CASE Call(w) \/ Create(w) \/ Look(w) \/ Sleep(w)
    BY <2>1 DEF SignalTypeOK, Call, Create, Look, Sleep
  <2>2. CASE Return(w) \/ Wake(w) \/ Abandon(w)
    BY <2>2 DEF SignalTypeOK, Return, Wake, Abandon, Drop
  <2> QED
    BY <2>1, <2>2 DEF Poll
<1>3. FlagFirst' /\ WokenMeansCanceled'
  BY <1>1 DEF FlagFirst, WokenMeansCanceled
<1>4. NoLostWakeup'
  BY <1>1 DEF NoLostWakeup
<1> QED
  BY <1>2, <1>3, <1>4

THEOREM Invariance == SignalSpec => []Inv
<1>1. Inv /\ [SignalNext]_signalVars => Inv'
  <2> SUFFICES ASSUME Inv, [SignalNext]_signalVars PROVE Inv'
    OBVIOUS
  <2>1. CASE UNCHANGED signalVars
    BY <2>1 DEF signalVars, Inv, SignalTypeOK, FlagFirst, NoLostWakeup, WokenMeansCanceled
  <2> QED
    BY <2>1, SwapKeepsInv, NotifyKeepsInv, WaiterKeepsInv DEF SignalNext, CancelCall
<1> QED
  BY <1>1, InitInv, PTL DEF SignalSpec

\* Every future lives in the frame of its task, and nothing else is woken.
THEOREM TypeCorrect == SignalSpec => []SignalTypeOK
<1>1. Inv => SignalTypeOK
  BY DEF Inv
<1> QED
  BY <1>1, Invariance, PTL

\* No wake-up is lost between a look at the flag and the sleep that follows.
THEOREM NothingLost == SignalSpec => []NoLostWakeup
<1>1. Inv => NoLostWakeup
  BY DEF Inv
<1> QED
  BY <1>1, Invariance, PTL

\* A wake-up means a cancellation.
THEOREM WokenCanceled == SignalSpec => []WokenMeansCanceled
<1>1. Inv => WokenMeansCanceled
  BY DEF Inv
<1> QED
  BY <1>1, Invariance, PTL

=============================================================================
