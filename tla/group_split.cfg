SPECIFICATION LiveSpec
CONSTANTS
  None <- Nobody
  TermLimit = 6
  Node <- Two
  Eligible <- Two
  Owner <- Nobody
  Roster <- TwoRosters
  Assignment <- Entries
  Setup <- SplitSetup
  LeaseTicks = 3
  ProbeInterval = 5
PROPERTY OneGivesWay
ACTION_CONSTRAINT RosterLast
