SPECIFICATION Spec
CONSTANTS
    Threads = {t1, t2}
    Keys = {k1, k2, k3}
    Capacity = 2
    Rates = {0, 2}
    Bursts = {0, 4}
    One = 3
    Second = 2
    Window = 3
    QrMax = 2
    MaxDelay = 1
    MaxOverdraft = 0
    Tables = {"bucket", "confirm", "qr", "ticket"}
SYMMETRY LimiterSymmetry
INVARIANTS
    
    WindowsKept
    TicketsKept
