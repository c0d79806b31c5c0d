SPECIFICATION Spec
CONSTANTS
  Node <- Nodes
  Satellite <- Satellites
  Self <- Me
  Unresolved <- NoOwner
  Nobody <- NoOne
  PeerSite <- Away
  OwnSite <- OwnSites
  Setup <- Setups
CHECK_DEADLOCK FALSE
INVARIANT ActiveHasProfile
INVARIANT CredentialsFollow
INVARIANT AloneOwns
PROPERTY RefusedRestores
PROPERTY NobodyOrphaned
PROPERTY RosterFollows
