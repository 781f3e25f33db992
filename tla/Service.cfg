SPECIFICATION ServiceSpec
CONSTANTS
    Configurations <- MCConfigurations
    Defaults <- MCDefaults
    Request = {r1}
    MaxFaults = 1
    admin = admin
    rule = rule
    demo1 = demo1
    demo2 = demo2
PROPERTIES
    DeletedStaysDeleted
    PolledAgain
    ShutdownEnds
