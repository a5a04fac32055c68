SPECIFICATION Spec
CONSTANTS
    Names = {1, 2}
    Vtokens = {v1, v2, v3, v4}
    Users = {alice}
    Tasks = {t1}
    None = None
    MaxFaults = 1
    MaxCrashes = 1
SYMMETRY VtokenSymmetry
INVARIANTS
    RegistryOneToOne
    
    StoresAgree

    
