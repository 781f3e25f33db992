SPECIFICATION Spec
CONSTANTS
    SwitchId = {1, 2}
    Ip = {ip1, ip2}
    ip1 = ip1
    ip2 = ip2
    Method = {snmp, telnet}
    Supported = {snmp}
    DemoMethod = demo
    Name = {}
    PortName = {p}
    p = p
    PortData <- MCReadings
    Summary <- MCReading
    Counter <- MCReading
    Retention = 1
    NULL = NULL
    NoSwitch = NoSwitch
    Task = {a, b}
    Twice = {TRUE, FALSE}
    MaxClock = 2
SYMMETRY MCSymmetry
INVARIANTS
    OwnData
    OnlineIsSampled
    HistoryMatchesLive
    NeverStuck
PROPERTIES
    CountersMoveForward
