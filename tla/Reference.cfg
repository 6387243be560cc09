SPECIFICATION ReferenceSpec
\* Each input is looked at once, and a query has MaxStages stages.
CHECK_DEADLOCK FALSE
CONSTANTS
    FieldAliases <- MCEmpty
    ProductVendors <- MCEmpty
    Variants <- MCEmpty
    Networks <- MCEmpty
    Numbers <- MCEmpty
    TermColumns = {"vendor"}
    FieldKinds = {"column", "raw"}
    Containers = {"o"}
    Stripped <- MCStripped
    Blank = "none"
    V4Bits = 2
    V6Bits = 4
    MappedPrefix <- MCPrefix
    MaxDepth = 8
    MaxNesting = 8
    MaxFields = 4
    Nibble = 4
    Missing = Missing
    Unreadable = Unreadable
    NetworkOf <- MCNetworkOf
    BaseCols <- MCBaseCols
    ColumnAliases <- MCAliases
    Passthru <- MCPassthru
    ModelCols <- MCModelCols
    Names = {"_time", "user_name", "key"}
    Lists <- MCLists
    Labels = {"event_time", "raw", "vendor"}
    Renamings <- MCRenamings
    AggLists <- MCAggLists
    Exprs <- MCExprs
    MaxStages = 3
    Arity <- MCArity
    Varying = 99
    Escape = 2
    ByteBase = 4
    Enterprise = 50
    FirstDataId = 20
    MaxTemplateFields = 3
    MaxTemplateLen = 12
    IpfixVersion = 10
    HeaderSize = 2
    MaxBacklog = 4
    MinTime = 0
    MaxTime = 8
    NoTime = NoTime
    EnvelopeLimit = 3
    JsonDepth = 9
    NeedsText = {"cef"}
    NeedsJson = {"generic_json", "zeek_json", "sysmon"}
    Exact <- MCExact
    Within <- MCWithin
    Prefixed <- MCPrefixed
    Available = {"cef", "generic_json", "zeek_json", "sysmon", "nutanix"}
    NoFormat = "none"
    MaxMsg = 14
    ParserFormats = {"cef", "generic_syslog"}
    SyslogFormat = "auto"
    Detects <- MCDetects
INVARIANTS
    MatchingIsTrue
    
    QueriesMeanTheirText
    WireReadsBack
