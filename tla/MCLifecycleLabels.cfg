SPECIFICATION Spec
CONSTANTS
  t1 = t1
  t2 = t2
  a = a
  b = b
  Threads = {t1, t2}
  Labels = {a, b}
  MayUse <- MCSameLabel
  MainLabels = {}
  NoWindow = NoWindow
  MaxWindows = 2
  MaxRequests = 0
INVARIANT
  LabelsAreUnique
CHECK_DEADLOCK FALSE
