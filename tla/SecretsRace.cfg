SPECIFICATION Spec
CONSTANTS
    Thread = {a, b}
    SwitchId = {1, 2}
    Plain = {pw}
    Field = {}
    EnvKeys = {NULL}
    MaxKeys = 2
    NULL = NULL
    Absent = Absent
    Empty = Empty
INVARIANTS
    AnyRoundTrip
