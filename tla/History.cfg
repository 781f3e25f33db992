SPECIFICATION ReportsSpec
CONSTANTS
    SwitchId = {1, 2}
    Dc = {seoul, busan}
    PortLists <- MCPortLists
    Retention = 2
    Limits <- MCLimits
    MaxMinute = 2
    MaxSamples = 2
    MaxChanges = 2
    NoSwitch = NoSwitch
    EOL_TABLE <- MCEolTable
    NULL = NULL
SYMMETRY Symmetry
INVARIANTS
    TypeOK
    RollupsCountOnce
    BucketsNotInflated
    NewestBucketIsLive
    RowsWereTrue
    ReportAddsUp
