\* Two mails, two workers; three attempts and one recovery, as configured; one failed job is kept.
SPECIFICATION FairSpec
CONSTANTS
  Mails = {m1, m2}
  Workers = {w1, w2}
  Attempts = 3
  MaxStalls = 1
  KeepFailed = 1
  None = None
INVARIANTS TypeOK TriesBounded DuplicateForCause GivenUpLeavesTrace
PROPERTY CommittedIsSettled
\* Mails are bounded: all are settled in the end.
CHECK_DEADLOCK FALSE
