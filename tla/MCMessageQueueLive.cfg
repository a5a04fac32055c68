SPECIFICATION FairSpec
CONSTANTS
    Clients = {c1, c2}
    MaxQueueSize = 1
    MaxArrivals = 2
    MaxFaults = 1
    MaxRestarts = 0
PROPERTIES
    AcceptedEventuallyDelivered
    ImplementsAtLeastOnce
