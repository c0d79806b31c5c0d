SPECIFICATION Spec
CONSTANTS
  None <- Nobody
  TermLimit = 4
  Node <- Three
  Eligible <- Three
  GroupLeaders <- OneGroup
  Roster <- TrioRoster
  Setup <- BootSetup
  Fence <- FirstFence
  LeaseTicks = 3
  ProbeInterval = 5
  Owner = 1
INVARIANT LeaseBacked
PROPERTY TermsGrow
PROPERTY NewLeaderNewTerm
