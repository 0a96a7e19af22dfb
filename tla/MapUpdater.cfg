\* Three map threads and five maps, three of them base maps; the queue holds two
\* requests, fewer than the base maps, so that base maps and instances can be refused.
SPECIFICATION FairSpec
CONSTANTS
  w1 = w1
  w2 = w2
  w3 = w3
  dungeon = dungeon
  continent = continent
  isles = isles
  i1 = i1
  i2 = i2
  Worker = {w1, w2, w3}
  World = World
  BaseMap = {dungeon, continent, isles}
  Instance = {i1, i2}
  InstancesOf <- MCInstancesOf
  QueueBound = 2
  NoThread = NoThread
  NoMap = NoMap
INVARIANTS BarrierHolds
PROPERTIES ImplementsBarrier TickEnds UnloadEnds
CHECK_DEADLOCK FALSE
