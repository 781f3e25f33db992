SPECIFICATION Spec
CONSTANTS
    SwitchId <- MCSwitchId
    Ip = {ip1, ip2}
    Method = {demo}
    Name = {}
    PortName = {p1, p2}
    PortData = {before, after}
    Summary = {sum}
    Counter = {1, 2}
    Retention = 1
    NULL = NULL
    NoSwitch = NoSwitch
    Thread = {t1, t2}
    PortLists <- MCPortLists
    CounterLists <- MCCounterLists
    NoThread = NoThread
    p1 = p1
    p2 = p2
    before = before
    after = after
INVARIANTS
    IInv
    CleanWhenUnlocked
    AnswerOfOnePoll
PROPERTIES
    StoreSpec
