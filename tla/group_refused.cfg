SPECIFICATION LiveSpec
CONSTANTS
  None <- Nobody
  TermLimit = 6
  Node <- Two
  Eligible <- Two
  Owner = 1
  Roster <- TwoRosters
  Assignment <- Entries
  Setup <- PairedSetup
  LeaseTicks = 3
  ProbeInterval = 5
PROPERTY GroupSettles
