SPECIFICATION Spec
CONSTANTS
    Configs <- Shapes
    MAX_POS = 2
    MAX_BAD = 1
CHECK_DEADLOCK FALSE
INVARIANTS Completeness AcceptsOnlyTheMade BindingOrder
PROPERTY Decides
