SPECIFICATION LiveSpec
CONSTANTS
  Sender = {s1}
  Leader = ld
  None = None
  Ttl = 3
  Window = 2
  Burst = 3
  Hold = 1
  Delay = 1
  Down = 2
  Setup <- FaultSetup
INVARIANT TypeOK
INVARIANT InOrder
INVARIANT SourceFresh
INVARIANT NotLimited
INVARIANT InScopeTracks
PROPERTY Heard
