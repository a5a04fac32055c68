SPECIFICATION Spec
CONSTANTS
    a1 = a1
    a2 = a2
    Agents = {a1, a2}
    Allowed <- Mutual
    Serving = {a1}
    Routed = a2
    Sessions <- FreshSession
    GrantTtl = 1
    MaxDepth = 1
    MaxCalls = 2
    MaxUserMsgs = 1
    MaxFaults = 1
INVARIANTS
    CallsAnswered
    DepthBounded

    
