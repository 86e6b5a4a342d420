\* Two accounts, two addresses, two tokens, two requests at a time.
SPECIFICATION Spec
CONSTANTS
  Users = {u1, u2}
  Emails = {e1, e2}
  Tokens = {t1, t2}
  Requests = {r1, r2}
  None = None
SYMMETRY Symmetry
INVARIANTS
  TypeOK
  UniqueLiveEmail
  MailedTokenIsCommitted
  VerifiedThroughOwnLink
PROPERTIES
  OnlyOverlappingUses
