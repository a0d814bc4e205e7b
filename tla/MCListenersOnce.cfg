SPECIFICATION Spec
CONSTANTS
  Threads = {t1}
  Events = {e1}
  Any = Any
  w1 = w1
  w2 = w2
  Targets <- MCTargets
  Filters <- MCFilters
  IdModulus = 8
  MaxCalls = 3
  Free = Free
  Poisoned = Poisoned
  NoCall = NoCall
INVARIANT
  OnceHandlerCalledOnce
CHECK_DEADLOCK FALSE
