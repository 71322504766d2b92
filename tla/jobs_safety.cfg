SPECIFICATION Spec
CONSTANTS
  Imports = {i1}
  Runs = {r1, r2}
  Cancels = {c1}
  NoRun = NoRun
  NoImport = NoImport
  Concurrency = 1
  OcrBatches = 1
  MaxPending = 2
  LlmConfigured = {TRUE, FALSE}
  First = r1
  Held = i1
  Faults = {"store", "hangup", "crash"}
SYMMETRY RunSymmetry
INVARIANTS
  TypeOK
  RunningIsBacked
  SignalMatchesEntry
  PermitsConserved
  DuplicateStartSuppressed
  CompleteIsPersisted
  SettledRow
PROPERTIES
  CanceledIsFrozen
  KeepsContract
