SPECIFICATION Spec
CONSTANTS
    Evaluation = {x, y}
    SwitchId = {1}
    RuleId = {1}
    Window = 1
    MaxClock = 3
    NoRow = NoRow
    Nobody = Nobody
INVARIANTS
    DedupWindow
    
PROPERTIES
    EvaluationEnds
