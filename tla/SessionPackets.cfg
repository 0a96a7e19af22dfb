\* Two characters and four packets of every kind but "data".
SPECIFICATION FairSpec
CONSTANTS
  Kinds = {"enum", "voice", "login", "warden", "game", "place", "cancel", "ack"}
  MaxPackets = 4
  MaxLogins = 2
INVARIANTS PacketsSound ForTheRightCharacter
PROPERTIES QueueDrains
CHECK_DEADLOCK FALSE
