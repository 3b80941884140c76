SPECIFICATION FairUpgradeSpec
CONSTANTS
  o1 = o1
  o2 = o2
  m1 = m1
  m2 = m2
  m3 = m3
  Orgs = {o1, o2}
  Members = {m1, m2, m3}
  MemberOrg <- MCMemberOrg
  MaxMishaps = 2
INVARIANTS
  UpgradedAreOwned
  OwnersAreFormerOwners
  VersionTellsSchema
PROPERTIES
  UpgradeEnds
CHECK_DEADLOCK FALSE
