SPECIFICATION FairSpec
CONSTANTS
  c1 = c1
  c2 = c2
  Commands = {c1, c2}
  Sends <- MCSends
  Answers <- MCAnswers
  Bounds <- MCBounds
INVARIANTS
  TypeOK
  CallbacksPaired
  RunsOncePerTransport
  ResponderTakenOnce
  ResolvedBySuccess
  BodyFetched
PROPERTIES
  Settles
  ImplementsRemoteCall
CHECK_DEADLOCK FALSE
