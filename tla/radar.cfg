SPECIFICATION LiveSpec
CONSTANTS
  Threshold = {low}
  Factory = factory
  None = None
  Setup <- RadarSetup
INVARIANT OneOwner
PROPERTY AppliedTrue
PROPERTY StreamReturns
PROPERTY SessionEnds
