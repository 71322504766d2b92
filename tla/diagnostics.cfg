SPECIFICATION FocusedSpec
CONSTANTS
    Jobs = {intro, plain}
    Introductions = {intro}
    Concurrency = 1
    MaxPending = 2
    Faults = {"store", "disk", "hangup", "crash"}
    Cancellers = {c1, c2}
    Waiters = {w1, w2}
INVARIANTS CompleteHasResult NoLostWakeup
PROPERTIES ResultStays CanceledNeverConcludes EverySleeperHears
CHECK_DEADLOCK FALSE
