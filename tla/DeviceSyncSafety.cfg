SPECIFICATION FairSpec
CONSTANTS
  NoBundle = NoBundle
  NoContent = NoContent
  NoGeneration = NoGeneration
  b1 = b1
  b2 = b2
  b3 = b3
  x = x
  y = y
  z = z
  plain = plain
  other = other
  d1 = d1
  d2 = d2
  d3 = d3
  Contents <- MCContents
  Manifests <- MCManifests
  ManifestOf <- MCManifestOf
  Bundles <- MCBundles
  ContentOf <- MCContentOf
  Generations <- MCTwoGenerations
  MaxRevision = 3
INVARIANTS
  GenerationsInUseExist
  SnapshotDescribesLibrary
PROPERTIES
  UnchangedIsCurrent
  AttemptEnds
  HandOffHappens
