SPECIFICATION ConversationSpec
CONSTANTS
    Agents = {a1, a2}
    Legacy = {a2}
    Named = {1}
    NoAgent = NoAgent
    DefaultClient = a1
    GrantTtl = 1
    MaxMsgs = 3
    MaxFaults = 1
INVARIANTS
    
    SessionsCoherent
    
CHECK_DEADLOCK FALSE
