\* The sessions: two requests at a time, any number one after the other.  No
\* symmetry, as DeletionTakesHold is a liveness property.
SPECIFICATION FairSpec
CONSTANTS
  Requests = {r1, r2}
  Passwords = {p1}
  Profiles = {f1, f2}
  Statuses = {active, suspended}
  Active = active
  Jtis = {j1, j2}
  NoJti = NoJti
  NoEntry = NoEntry
INVARIANTS
  TypeOK
  RevocationReachesEveryone
  StaleIdentityExcusedEverywhere
  CurrentAuthorityIsOfActiveAccount
  UnverifiedNeverAuthenticated
PROPERTIES
  ImplementsRefreshSlot
  DeletionTakesHold
