SPECIFICATION Spec
CONSTANTS
    StringTest <- MCStringTest
    DateOf <- MCDateOf
    VersionOf <- MCVersionOf
    LeadingV <- MCLeadingV
    Hash <- MCHash
    NoDate = NoDate
    NoVersion = NoVersion
    Null = Null
    Undefined = Undefined
    Builtins = {"key", "email"}
    FlagKey <- MCFlagKey
    SegmentKey = {"s", "t"}
    Catalog <- MCCatalog
    Datasets <- MCDatasets
    Changes <- MCChanges
    Calls <- MCCalls
    MaxChanges = 1
    Pending = Pending
    Rejected = Rejected
    Crashed = Crashed
INVARIANTS
    TypeOK
    MatchesReference
    EventsExplain
PROPERTIES
    EveryCallSettles
CHECK_DEADLOCK FALSE
