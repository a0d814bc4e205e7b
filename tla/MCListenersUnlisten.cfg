SPECIFICATION Spec
CONSTANTS
  Threads = {t1, t2}
  Events = {e1}
  Any = Any
  w1 = w1
  w2 = w2
  Targets = {Any}
  Filters <- MCAny
  IdModulus = 8
  MaxCalls = 4
  Free = Free
  Poisoned = Poisoned
  NoCall = NoCall
INVARIANT
  UnlistenIsFinal
CHECK_DEADLOCK FALSE
