SPECIFICATION Spec
CONSTANTS
  Imports = {i1}
  Runs = {r1, r2}
  Cancels = {c1}
  NoRun = NoRun
  NoImport = NoImport
  Concurrency = 2
  OcrBatches = 0
  MaxPending = 2
  LlmConfigured = {TRUE}
  First = r1
  Held = i1
  Faults = {}
INVARIANT OneTaskPerImport
