CONSTANTS
    None = None
    Lower <- MCLower
    Blocks <- MCBlocks
    Groups <- MCGroups
    GatewayPorts <- MCGatewayPorts
    ProxyPort <- MCProxyPort
    Definitions <- MCDefinitions
    Hosts <- MCHosts
    Addresses <- MCAddresses
    Creatable <- MCCreatable
    Dependencies <- MCDependencies
    MaxEdits = 2
    Absent = Absent
    Redacted = Redacted
    OverlayInputs <- MCOverlayInputs
    SourceNames = {"a", "b"}
    HomeName = "a"
    SourceClients = {s1, s2}
    SshHosts = {g1, g2}
    HostKeys = {1, 2, 3}
    MaxCommits = 1
    MaxRequests = 2
    MaxTasks = 4
    MaxChanges = 3
    ProfileSources = {"s"}
    Malformed = Malformed
    MaxManifestEdits = 1
    Authors = {a1, a2}
    ProfileBodies = {1, 2}
    ProjectBody = 0
    MaxJobs = 3
    ActionNames = {act}
    Structured = {up}
    Shell = {sh}
    Targets = {t1, t2}
    Clients = {c1}
    Truncated = Truncated
    MaxSaves = 2
    MaxDaemons = 2
    Terminals = {m1, m2}
    Recorders = {m2}
    DeviceNames = {n1}
    DeviceHosts = {h1}
    Projects = {p1}
    Here = here
    Observers = {o1, o2}
    Latest = 2
    MaxFailures = 1
    Workers = {w1, w2}
    Owners = {x1, x2}
    Domains = {"a", "b"}
    MaxFiles = 4
    LegacyDocuments <- MCLegacyDocuments
SPECIFICATION WorkspaceSpec
CHECK_DEADLOCK FALSE
INVARIANTS
    ComposeCanStart
    AddressesReachTheirOwners
    PageCallsStayInTheirGroup
    LastLayerWins
    ReviewedBeforeUse
    GateIsNotStuck
    ExecutedWasPreviewed
    CommandsRunOnce
    MigrationKeepsConnections
PROPERTIES
    ReuseIsSound
    WorktreesAreKept
    ApprovalsAreHonoured
    EditsAreGuarded
    LostDevicesKeepTheirRecords
    UserIdentitiesAreKept
