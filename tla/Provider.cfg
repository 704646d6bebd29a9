\* Size 3 and Threshold 2 let the ring leave a member, leave the next one and
\* come back; two callers overlap a call with a rotation.  Two requests and two
\* dials are a resend over a redialled socket.  Two blocks of two pieces are an
\* interleaving; four messages are a call, its result and the reply to it.
SPECIFICATION Spec
CONSTANTS
    c1 = c1
    c2 = c2
    Callers = {c1, c2}
    Size = 3
    Threshold = 2
    Cooldown = 2
    MaxTime = 4
    Conversations = {c1, c2}
    MaxRequests = 2
    MaxDials = 2
    ModeOf <- MCModes
    TransportsOf <- MCTransports
    HybridHttp = TRUE
    Indices = {0, 1}
    MaxPieces = 2
    Routes <- MCRoutes
    Tools <- MCTools
    MaxMessages = 4
    MaxBlocks = 2
    None = None
    Failed = Failed
    ProviderIds = {"openai", "ollama"}
    BuiltinWire <- MCBuiltinWire
    BuiltinEmbeds = {"openai", "ollama"}
    Instances <- MCInstances
    ScopedAgents = {ag1, ag2}
    ModelLists <- MCModelLists
    Transports = {"Undecided", "WebSocket"}
    StateModes = {"Undecided", "ReplayOnly", "Hybrid"}
    NotSet = NotSet
    Undecided = "Undecided"
    Departed = Departed
    MaxScopes = 3
    Sources = {src1, src2}
    KeyCallers = {c1, c2}
    TokenStores = {"File", "Keychain", "None"}
    NoTokens = NoTokens
    Torn = Torn
    RefreshSkew = 1
    Lifetime = 2
    MaxTokenTime = 1
    MaxGrants = 2
    MaxTroubled = 1
    ToolNames_ = {"x"}
    Owners = {aud, ag}
    Agents_ = {ag}
    SkillPaths = {root}
    MaxTools = 2
    NoTool = NoTool
    Global = Global
SYMMETRY MCSymmetry
INVARIANT ConnectionsAreShared
INVARIANT ResponsesAreFaithful
INVARIANT RequestsAreFaithful
INVARIANT OfferedIsRegistered
CHECK_DEADLOCK FALSE
