SPECIFICATION Spec
CONSTANTS
  a = a
  b = b
  None = None
  Lost = Lost
  Value <- TwoValues
  GenerationLimit = 3
  Setup <- CrashproofSetup
INVARIANT NothingUnsaved
INVARIANT InterruptedWriteRetains
PROPERTY AtomicUpdate
PROPERTY GenerationAdvances
