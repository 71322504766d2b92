SPECIFICATION WorkerBusySpec
CONSTANTS
  Imports = {i1, i2}
  Runs = {r1, r2}
  Cancels = {c1}
  NoRun = NoRun
  NoImport = NoImport
  Concurrency = 1
  OcrBatches = 1
  MaxPending = 1
  LlmConfigured = {TRUE}
  First = r1
  Held = i1
  Faults = {}
PROPERTIES TaskEnds CancelEndsTask
