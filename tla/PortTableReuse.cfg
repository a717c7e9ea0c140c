SPECIFICATION PortSpec
CONSTANTS
    Byte = 2
    Owners = {0}
    NoPort = none
    PortDepth = 1
    ListenPorts = {0, 1, 2, 3}
    WirePorts = {1, 2}
INVARIANTS
    PortHandedOutIsFree
