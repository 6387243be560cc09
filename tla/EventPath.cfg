SPECIFICATION SourcesSpec
\* A stream comes to an end, and the bounds stop the sources.
CHECK_DEADLOCK FALSE
CONSTANTS
    TextCols <- MCTextCols
    InetCols <- MCInetCols
    IntCols <- MCIntCols
    Embeds <- MCEmbeds
    LongWords <- MCLongWords
    HashOf <- MCHashOf
    PseudoOf <- MCPseudoOf
    PercentScale = 100
    NumericKeys <- MCNumericKeys
    Networks <- MCNetworks
    Numbers <- MCNumbers
    Bucket <- MCBucket
    FieldAliases <- MCFieldAliases
    ProductVendors <- MCProductVendors
    Variants <- MCVariants
    KvPairs <- MCKvPairs
    Stripped <- MCStripped
    TermColumns = {"log_type"}
    FieldKinds = {"column"}
    Containers = {}
    Deliveries <- MCDeliveries
    ActionFiles <- MCActionFiles
    ParserDefs <- MCParserDefs
    DetectionRules <- MCDetectionRules
    Models <- MCModels
    Iocs <- MCIocs
    Suppressions <- MCSuppressions
    Chunk = 2
    FaultBound = 2
    Notices <- MCNotices
    Objects <- MCObjects
    Unquoted <- MCUnquoted
    Unreadable3 = {"bad"}
    MaxReceives = 2
    ReceiveMax = 2
    ObjectBudget = 4
    SqsFaultBound = 1
    Bodies <- MCBodies
    Dated = {"l1"}
    MaxPosts = 3
    StoreFaults = 1
    GeoSettings = {1,2}
    BinaryFiles = {2}
    Covers <- MCCovers
    Addresses = {"a","b"}
    Contents = {0,1,2}
    MaxSideLoads = 1
    MaxGeoRows = 2
    MaxGeoStarts = 2
    MaxReloads = 1
    MaxMemo = 1
    LoadFaults = 1
    CorrelationRules <- MCCorrelationRules
    RuleOrder <- MCRuleOrder
    BrokenRules = {"bad"}
    Keys = {"k"}
    Values = {"u", "v"}
    NoValue = "none"
    Skews <- MCSkews
    Silence = 1
    LearnFor = 4
    MinEvents = 1
    RepeatAfter = 3
    MaxClock = 4
    MaxArrivals = 2
    WatchFaults = 1
    Findings = {"f", "g"}
    ChunkBudget = 1
    ExportMaxAge = 1
    PullFloor = 1
    LastChange = 1
    LastSecond = 3
    ExportFaults = 1
    Assets = {1, 2, 3}
    Check <- MCCheck
    GoneChecks = {"old"}
    DayLength = 2
    AssetPage = 1
    MaxVulnLookups = 1
    CacheLimit = 1
    ScansUntil = 1
    LastHour = 1
    WalkFaults = 1
    Removals = 1
    Feeds = {"p", "q"}
    MaxFeeds = 2
    BatchBudget = 1
    TokenLife = 3
    TokenSkew = 1
    FetchTime = 1
    MaxOffset = 2
    LastMinute = 4
    StreamFaults = 1
    Exporters = {"e1", "e2", "e3"}
    TemplateIds = {1}
    Shapes = {"a"}
    OptionsShape = "options"
    MaxTemplates = 2
    MaxPackets = 3
    MaxRedefinitions = 1
INVARIANTS
    StreamIsFaithful
    
    
    
    GeoIsTrue
    FindingsAlertOnce
    ListingsAreWhole
    PartitionsAreWhole
PROPERTIES
    NothingMovesBack
    WorkGoesOn
