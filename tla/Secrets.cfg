SPECIFICATION Spec
CONSTANTS
    Thread = {a, b}
    SwitchId = {1, 2}
    Plain = {pw, pw2}
    Field = {}
    EnvKeys = {env, NULL}
    MaxKeys = 2
    NULL = NULL
    Absent = Absent
    Empty = Empty
INVARIANTS
    RoundTrip
    OpensAfterRestart
