SPECIFICATION Spec
CONSTANTS
    EnvTokens = {"none", "good"}
    ChannelSize = 1
    MaxAttempts = 1
    ReloginCap = 1
    MaxMsgs = 2
    MaxCodes = 1
    MaxClicks = 2
    MaxFaults = 1
INVARIANTS
    InboundExact
    
    ShutdownNotStuck

    
CHECK_DEADLOCK FALSE
