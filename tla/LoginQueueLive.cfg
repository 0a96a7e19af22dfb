\* Two session objects and two accounts under a fair world thread.
SPECIFICATION FairSpec
CONSTANTS
  s1 = s1
  s2 = s2
  s3 = s3
  alice = alice
  bob = bob
  gm = gm
  Session = {s1, s2}
  Account = {alice, bob}
  Staff = {}
  InitialLimit = 1
  Limits = {0, 2}
  TimeOut = 2
  Backlog = 1
  Tolerance = FALSE
  NoAccount = NoAccount
  NoSession = NoSession
PROPERTIES ConnectionIsAnswered ClosedIsDeleted StopCompletes
CHECK_DEADLOCK FALSE
