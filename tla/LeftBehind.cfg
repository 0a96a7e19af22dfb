SPECIFICATION LiveSpec
CONSTANTS
  a1 = a1
  a2 = a2
  h1 = h1
  Player = {a1, h1}
  TeamOf <- MCTeamOf
  Parties = {}
  MinPlayersPerTeam = 1
  MaxPlayersPerTeam = 2
  InvitationType = 1
  MaxInstances = 1
  MaxRemovals = 1
  Wrap = 5
PROPERTY LeftIsDeleted
