SPECIFICATION AdmissionSpec
CONSTANTS
    Requests = {r1, r2, r3, r4}
    Vtokens = {v1}
    HubCap = 3
    MaxPerVtoken = 2
SYMMETRY AdmissionSymmetry
INVARIANTS
    CapsHold
    CountersExact
    
