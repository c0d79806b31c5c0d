SPECIFICATION LiveSpec
CONSTANTS
  None <- Nobody
  TermLimit = 6
  Node <- Two
  Eligible <- Two
  GroupLeaders <- OneGroup
  Roster <- PairRosters
  Setup <- TwoSetup
  Fence <- ForkFences
  LeaseTicks = 3
  ProbeInterval = 5
  Owner = 1
INVARIANT SingleLeader
INVARIANT LeaderAhead
PROPERTY ResumesTerm
PROPERTY Settles
PROPERTY MinorityStandsDown
PROPERTY RosterKeepsLeader
