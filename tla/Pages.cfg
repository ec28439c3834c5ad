SPECIFICATION Spec
CONSTANTS
    NULL = NULL
CHECK_DEADLOCK FALSE
INVARIANTS
    TypeOK
    Shown
    SendsItsOwn
    
    
    
    InRange
PROPERTIES
    ControlsMove
