SPECIFICATION ToolSpec
CONSTANTS
  c1 = c1
  c2 = c2
  c3 = c3
  c4 = c4
  get = get
  alice = alice
  mallory = mallory
  k1 = k1
  k2 = k2
  k3 = k3
  s1 = s1
  s2 = s2
  red = red
  blue = blue
  Call = {c1, c2, c3, c4}
  Caller <- MCCaller
  Key <- MCKey
  Subject <- MCSubject
  Slug <- MCSlug
  Name <- MCName
  Trim <- MCTrim
  AdminCallers <- MCAdmins
  MembershipAdminCallers <- MCAdmins
  DirectoryCallers <- MCAdmins
  Offered <- MCOffered
  Read = {get}
  Reading <- MCReading
  Earlier <- MCEarlier
  Faults <- MCFaults
  Forgotten <- MCForgotten
INVARIANTS
  ErrorsMeanNothingDone
  CausesAreTrue
  AcknowledgedIsFound
PROPERTIES
  IntentsTakeEffectOnce
CHECK_DEADLOCK FALSE
