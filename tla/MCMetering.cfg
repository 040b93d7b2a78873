SPECIFICATION Spec
CONSTANTS
    Menu <- MCMenu
    Shapes <- MCShapes
    Locals <- MCLocals
    GasLimit = 2
    MaxDepth = 4
    Grows <- MCGrows
PROPERTY CallEnds
CHECK_DEADLOCK FALSE
