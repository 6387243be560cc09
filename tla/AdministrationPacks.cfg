SPECIFICATION AdminSpec
\* Requests and runs are bounded: a behaviour stops where the bound does.
CHECK_DEADLOCK FALSE
CONSTANTS
  UserNames = {"root", "ops"}
  Requests = {r1, r2}
  MaxUsers = 2
  MaxRequests = 7
  Slots = {okta, falcon}
  VaultWorkers = {w1, w2}
  Keys = {k1, k2, k3}
  FirstKey = k1
  MaxVaultWrites = 2
  MaxRestarts = 2
  FeedOrder <- SmallFeeds
  Indicators = {x, y}
  Syncers = {timer, reload}
  MaxSyncs = 3
  MaxFeedEdits = 2
  RowIds = {1, 2, 3}
  Chunk = 2
  MaxAssetVersion = 1
  MaxGeoVersion = 1
  MaxRuns = 2
  MaxBackfillRestarts = 1
  AssetIds = {"db1", "web1"}
  Aliases = {"10.0.0.1", "10.0.0.2"}
  Importers = {i1, i2}
  Files <- SmallFiles
  MaxImports = 3
  Items = {"r", "p"}
  PackDocs <- SmallDocs
  Releases <- SmallReleases
  BaseControls <- ShippedControls
  PackRequests = {q1, q2}
  AppVersion <- ThisVersion
  ByHand = "by hand"
  NoPlan = NoPlan
  MaxPackWrites = 3
  GateWorkers = {w1, w2}
  BoundRules = {"rule"}
  Revisions = {1, 2}
  Broken = Broken
  NoRegistry = NoRegistry
  Wall = 2
  LoadTicks = 1
  MaxClock = 8
  MaxFileEdits = 2
  MaxReloads = 1
  ModelNames = {"auth", "web"}
  ModelFiles <- SmallModelFiles
  Garbled = Garbled
  BadColumns = {"bad"}
  PackMembers <- SmallPackMembers
  EventShapes = {"proxy"}
  Clickers = {c1, c2}
  WalkChunkSize = 1
  MaxStored = 2
  MaxCimEdits = 2
  MaxCimStarts = 3
  MaxCimFaults = 1
PROPERTIES
  ImportSparesOthers
