SPECIFICATION Spec
CONSTANTS
    SwitchId = {1}
    Ip = {ip1, ip2}
    Method = {demo}
    Name = {n1}
    PortName = {p1, p2}
    PortData = {before, after}
    Summary = {sum}
    Counter = {1, 2}
    Retention = 1
    NULL = NULL
    NoSwitch = NoSwitch
    Thread = {t1, t2}
    PortLists <- MCPortListsTwice
    CounterLists <- MCCounterLists
    NoThread = NoThread
    p1 = p1
    p2 = p2
    before = before
    after = after
INVARIANTS
    DiskListsWhole
