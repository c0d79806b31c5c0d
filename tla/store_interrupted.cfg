SPECIFICATION Spec
CONSTANTS
  a = a
  b = b
  None = None
  Lost = Lost
  Value <- TwoValues
  GenerationLimit = 3
  Setup <- RegistrySetup
INVARIANT InterruptedWriteRetains
