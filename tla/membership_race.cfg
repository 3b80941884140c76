SPECIFICATION Spec
CONSTANTS
  c1 = c1
  c2 = c2
  c3 = c3
  c4 = c4
  alice = alice
  mallory = mallory
  k1 = k1
  k2 = k2
  k3 = k3
  s1 = s1
  s2 = s2
  red = red
  blue = blue
  Call = {c1, c2, c3, c4}
  Caller <- MCCaller
  Key <- MCKey
  Subject <- MCSubject
  Slug <- MCSlug
  Name <- MCName
  Trim <- MCTrim
  AdminCallers <- MCAdmins
  MembershipAdminCallers <- MCAdmins
  Offered <- MembershipRace
  PoolSize = 3
  MaxTime = 0
INVARIANTS
  TypeOK
  OneActiveMembership
  OwnerKept
  ReceiptsSound
  EffectsHaveReceipts
  RetriesAgree
  ConfirmedIsDurable
  InsertFindsIndexFree
  RemovalMeetsItsRow
  CommitsToActiveOrganization
PROPERTIES
  NeverTakenBack
  ImplementsService
CHECK_DEADLOCK FALSE
