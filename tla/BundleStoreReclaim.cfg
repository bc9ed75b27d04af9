SPECIFICATION FairSpec
CONSTANTS
  BundleIds <- MCThreeIds
  Legacy <- MCLegacy
  NoBundle = NoBundle
  s1 = s1
  s2 = s2
  c1 = c1
  c2 = c2
  r1 = r1
  Senders <- MCOneSender
  Readers <- MCNone
  Cleaners <- MCOneCleaner
  Retention = 1
  LifecycleLimit = 2
  ObjectLimit = 2
  Horizon = 1
  MaxTime = 2
  MaxRevision = 4
  MayAbort = TRUE
PROPERTIES
  StorageReclaimed
