CONSTANTS
    None = None
    Lower <- MCLower
    Blocks <- MCBlocks
    Groups <- MCGroups
    GatewayPorts <- MCGatewayPorts
    ProxyPort <- MCProxyPort
    Definitions <- MCDefinitions
    Hosts <- MCHosts
    Addresses <- MCAddresses
    Creatable <- MCCreatable
    Dependencies <- MCDependencies
    MaxEdits = 2
    Absent = Absent
    Redacted = Redacted
    OverlayInputs <- MCOverlayInputs
SPECIFICATION PlannerSpec
CHECK_DEADLOCK FALSE
INVARIANT
    BrowserRoutesFollowMembership
