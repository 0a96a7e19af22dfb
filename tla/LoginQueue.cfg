\* Three session objects; an operator may raise the limit from 1 to 2, and
\* clients that disconnected recently pass the queue.
SPECIFICATION Spec
CONSTANTS
  s1 = s1
  s2 = s2
  s3 = s3
  alice = alice
  bob = bob
  gm = gm
  Session = {s1, s2, s3}
  Account = {alice, bob, gm}
  Staff = {gm}
  InitialLimit = 1
  Limits = {2}
  TimeOut = 2
  Backlog = 1
  Tolerance = TRUE
  NoAccount = NoAccount
  NoSession = NoSession
SYMMETRY Symmetry
INVARIANTS QueueSound WaitingLeavesNoTrace
PROPERTIES LimitHolds PlacesAreHandedOn NoOvertaking
CHECK_DEADLOCK FALSE
