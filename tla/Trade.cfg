\* Two players, two items and a purse of one unit that cannot hold more.
SPECIFICATION Spec
CONSTANTS
  ann = ann
  ben = ben
  cat = cat
  sword = sword
  ring = ring
  Player = {ann, ben}
  Item = {sword, ring}
  Slot = {0, 6}
  NonTraded = 6
  Eligible <- Anyone
  Purse = 1
  MaxMoney = 1
  Capacity = 1
  NoItem = NoItem
  NoTrade = NoTrade
SYMMETRY Symmetry
INVARIANTS TradesPaired OneOwner
PROPERTIES NoMoneyFromNothing  BoundItemsStay
CHECK_DEADLOCK FALSE
