\* Every selection from up to three groups against two.
SPECIFICATION Spec
CONSTANTS
  MinPlayersPerTeam = 2
  MaxPlayersPerTeam = 5
  InvitationType = 1
  MaxAlliance = 3
  MaxHorde = 2
  Sizes = {1, 2, 4}
  MaxFree = 4
INVARIANTS PoolsSound FillFair MatchFair
CHECK_DEADLOCK FALSE
