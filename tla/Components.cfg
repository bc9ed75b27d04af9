SPECIFICATION MCSpec
CONSTANTS
  Sockets = 2
  AssociationPolls = 2
  DhcpPolls = 2
  StopPolls = 2
  TouchPoints <- MCPoints
  Status = Status
  Page = Page
  FastTurnsBeforeCleanup = 2
  MaxHistoryEntries = 2
  CachedDocuments = 2
  FrameworkPolls = 1
  Unsettled = 2
  PageHeights = {5, 6}
  Spacings <- MCSpacings
  Blocks <- MCBlocks
  PaddingTop = 1
  PaddingBottom = 1
  MaxBlocks = 3
  Deliveries <- MCDeliveries
  ArchiveOf <- MCArchiveOf
  MaxDelivered = 3
INVARIANTS
  MCTypeOK
  LeftOnIsReported
  HistoryIsPath
  DeliberateActivation
  RequestsAreCarriedOut
  WakeIsNotDropped
  DrawnIsShown
  GhostingBounded
  SettingsAgree
  PagesAreWellBroken
PROPERTIES
  OperationEnds
  MappingStable
  LinkIsUndone
  UnchangedIsShown
CHECK_DEADLOCK FALSE
