SPECIFICATION LiveSpec
CONSTANTS
  None <- Nobody
  TermLimit = 6
  Node <- Two
  Eligible <- Two
  Owner <- Nobody
  Roster <- TwoRosters
  Assignment <- Entries
  Setup <- GroupSetup
  LeaseTicks = 3
  ProbeInterval = 5
INVARIANT TypeOK
PROPERTY NewLeaderEndorsed
PROPERTY GroupSettles
PROPERTY LeaderKept
