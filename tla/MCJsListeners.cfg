SPECIFICATION FairSpec
CONSTANTS
  w1 = w1
  w2 = w2
  Labels = {w1, w2}
  Listens <- MCListens
  Emits <- MCEmits
  Bounds <- MCBounds
  MaxPages <- MCMaxPages
INVARIANTS
  TypeOK
  NothingMissed
  CloseHeard
  RightListener
  NoDeafListener
PROPERTIES
  UnlistenTakesEffect
CHECK_DEADLOCK FALSE
