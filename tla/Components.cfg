\* Everything that can be asked has been asked at the end of a behaviour: the inputs
\* are bounded, so a behaviour may stop.
SPECIFICATION Spec
CHECK_DEADLOCK FALSE
CONSTANTS
    CryptoFeatures = {"sha2", "ed25519", "aes-gcm", "gost-cipher"}
    Client = {c1, c2}
    LogIds = {l1, l2}
    NewRecords = {9}
    Sizes = {6}
    Positions = {3, 6}
    MaxAppends = 1
    MaxDropped = 1
    MaxAnchored = 1
    Seeds <- MCSeeds
    Keys <- MCKeys
    Nonces <- MCNonces
    Texts = {"x", "y"}
    MaxSealed = 1
    Bytes = {"LF", "CR", "Colon", "Space", "data", "event", "Bad"}
    MaxBytes = 6
    MaxChunk = 2
    Tokens <- MCAllTokens
    MaxDepth = 3
    RunRequests <- MCRequests
    Lookups <- MCLookups
    Policies <- MCPolicies
    WireEvents <- MCWireEvents
    ToolCalls <- MCToolCalls
SYMMETRY Symmetry
INVARIANTS
    ServedProofsVerify
    AnswersAreTrue
    
    
    
    
