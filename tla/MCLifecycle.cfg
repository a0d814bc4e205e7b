SPECIFICATION FairSpec
CONSTANTS
  t1 = t1
  t2 = t2
  a = a
  b = b
  Threads = {t1}
  Labels = {a, b}
  MayUse <- MCOwnLabel
  MainLabels = {b}
  NoWindow = NoWindow
  MaxWindows = 2
  MaxRequests = 1
INVARIANTS
  TypeOK
  LabelsAreUnique
  OpenWindowsAreManaged
  EntriesHaveWindows
  EventsAreHeard
PROPERTIES
  EntriesAreNotTaken
  PanicsOnlyIfDestroyed
  DestroyTakesEffect
  EndsWithLastWindow
CHECK_DEADLOCK FALSE
