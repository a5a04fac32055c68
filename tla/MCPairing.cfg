SPECIFICATION PairingSpec
CONSTANTS
    Clients = {c1}
    ConfirmRequests = {r1, r2}
    Names = {1}
    PairingTtl = 3
    ScannedTtl = 1
    ConfirmedTtl = 3
    ClaimWindow = 1
    PairingDeadline = 2
    MaxQrRefresh = 2
    MaxSessions = 1
    MaxCodes = 4
    MaxFaults = 2
INVARIANTS
    PairingSound
    NoLostScan
PROPERTIES
    PairingEnds
