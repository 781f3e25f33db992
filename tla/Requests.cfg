SPECIFICATION Spec
CONSTANTS
    Client = {a, b}
    SwitchId = {1, 2, 3, 4}
    Ip = {ip1, ip2, ip3}
    ip1 = ip1
    ip2 = ip2
    ip3 = ip3
    Region = {apac, emea}
    apac = apac
    emea = emea
    Method = {"demo", "snmp", "telnet"}
    Supported = {"demo", "snmp"}
    DemoMethod = "demo"
    Demo <- MCDemo
    Creates <- MCCreates
    Updates <- MCUpdates
    User = {kim}
    Role = {"viewer", "root"}
    RuleId = {1, 2, 3}
    Asked = {1, 2}
    MaxRequests = 3
    NULL = NULL
    NoSwitch = NoSwitch
INVARIANTS
    TypeOK
    FailuresExplained
    AuditTrail
    CreatedApart
    EdgesStartAtNodes
PROPERTIES
    NothingInherited
    
    EveryRequestAnswered
