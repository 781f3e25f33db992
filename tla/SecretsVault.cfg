SPECIFICATION Spec
CONSTANTS
    Thread = {a}
    SwitchId = {1}
    Plain = {pw}
    Field = {field}
    EnvKeys = {NULL}
    MaxKeys = 1
    NULL = NULL
    Absent = Absent
    Empty = Empty
INVARIANTS
    VaultResolved
