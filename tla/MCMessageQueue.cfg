SPECIFICATION Spec
CONSTANTS
    Clients = {c1, c2}
    MaxQueueSize = 2
    MaxArrivals = 3
    MaxFaults = 1
    MaxRestarts = 1
SYMMETRY ClientSymmetry
INVARIANTS
    NoLossWithinProcess
    NoLostWakeup
    BatchIsRunOfLog
PROPERTIES
    DrainedMeansDelivered
