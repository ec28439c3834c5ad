SPECIFICATION Spec
CONSTANTS
    None = None
INVARIANTS
    TypeOK
    
    Renewable
PROPERTIES
    ListsInOrder
    
    
