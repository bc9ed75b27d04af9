SPECIFICATION MCSpec
CONSTANTS
  BundleIds <- MCTwoIds
  Legacy <- MCNoLegacy
  NoBundle = NoBundle
  s1 = s1
  s2 = s2
  c1 = c1
  c2 = c2
  r1 = r1
  x = x
  y = y
  plain = plain
  d1 = d1
  d2 = d2
  Senders <- MCTwoSenders
  Readers <- MCOneReader
  Cleaners <- MCTwoCleaners
  Device = r1
  Contents <- MCContents
  ContentOf <- MCContentOf
  Manifests <- MCManifests
  ManifestOf <- MCManifestOf
  NoContent = NoContent
  Generations <- MCGenerations
  NoGeneration = NoGeneration
  Retention = 1
  LifecycleLimit = 2
  ObjectLimit = 2
  Horizon = 1
  MaxTime = 2
  MaxRevision = 3
  MayAbort = TRUE
SYMMETRY MCSymmetry
INVARIANTS
  CurrentIsServable
  FreshUploadSurvives
  RevisionNamesState
  RevisionNamesLibrary
PROPERTIES
  ImplementsInbox
  ReaderFailsOnlyWhenReplaced
  MetadataOutlivesObject
