SPECIFICATION Spec
CONSTANTS
  BundleIds <- MCTwoIds
  Legacy <- MCNoLegacy
  NoBundle = NoBundle
  s1 = s1
  s2 = s2
  c1 = c1
  c2 = c2
  r1 = r1
  Senders <- MCTwoSenders
  Readers <- MCNone
  Cleaners <- MCNone
  Retention = 1
  LifecycleLimit = 2
  ObjectLimit = 2
  Horizon = 0
  MaxTime = 0
  MaxRevision = 3
  MayAbort = FALSE
SYMMETRY MCSymmetry
CHECK_DEADLOCK FALSE
INVARIANT
  ReplacedObjectDeleted
