\* Four characters roll for one item.
SPECIFICATION Spec
CONSTANTS
  wolf = wolf
  Player = {ann, ben, cat, dan}
  Corpse = {wolf}
  Item = {sword}
  CorpseOf <- OneCorpse
  Nobody = Nobody
 
PROPERTIES   RollEnds
CHECK_DEADLOCK FALSE
