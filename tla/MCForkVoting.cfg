SPECIFICATION Spec
CONSTANTS
    n1 = n1
    n2 = n2
    n3 = n3
    n4 = n4
    n5 = n5
    b1 = b1
    b2 = b2
    x = x
    y = y
    Voters = {n1, n2, n3, n4, n5, b1, b2}
    Byzantine = {b1, b2}
    Quorums <- MCQuorums
    Siblings = {x, y}
    None = None
SYMMETRY MCSymmetry
INVARIANTS IInv UniquePolka Agreement
CHECK_DEADLOCK FALSE
