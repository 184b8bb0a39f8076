SPECIFICATION Spec
CONSTANTS
    Configs <- MCConfigs
    Replies <- MCReplies
    RelayBytes = {10, 13}
    MaxRelay = 2
    MaxHead = 9
    ReadLimit = 2
    Chunk = 2
INVARIANTS StreamIntact OutcomeIsTrue
PROPERTIES ImplementsTunnelClient ConnectEnds
