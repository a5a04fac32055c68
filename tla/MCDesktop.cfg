SPECIFICATION Spec
CONSTANTS
    Ports = {1, 2}
    DefaultPort = 1
    Starts <- MCStarts
    MaxCmds = 2
    MaxHubs = 3
    MaxCommands = 2

    
    
PROPERTIES
    SenderKept
    
