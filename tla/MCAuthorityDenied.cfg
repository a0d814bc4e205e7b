SPECIFICATION Spec
CONSTANTS
  v1 = v1
  v2 = v2
  v3 = v3
  v4 = v4
  main = main
  side = side
  url = url
  T1 = T1
  T2 = T2
  t1 = t1
  t2 = t2
  Values = {v1, v2, v3, v4}
  Acl <- MCAcl
  Plugin <- MCPlugin
  Base <- MCBase
  Files <- MCFiles
  Requests <- MCRequests
  Types = {T1, T2}
  Parses <- MCParses
  Threads = {t1, t2}
  MaxAdds = 2
SYMMETRY Symmetric
INVARIANT
  DenialsHaveContext
CHECK_DEADLOCK FALSE
