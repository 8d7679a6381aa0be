CONSTANTS
    Requests = {r1, r2}
    Scopes = {"mcp", "other"}
    DefaultScope = "mcp"
    CodeTTL = 1
    AccessTTL = 1
    RefreshTTL = 2
    SessionTTL = 1
    MaxClients = 1
    MaxCodes = 2
    MaxTime = 2
    MaxTokens = 2
SPECIFICATION Spec
SYMMETRY RequestSymmetry
INVARIANTS
    IInv
    AccessIsRecent
    CodesAreSingleUse
    TokensAreGranted
PROPERTIES
    StaysConnected
