SPECIFICATION Spec
CONSTANTS
    a = a
    b = b
    c = c
    w1 = w1
    r1 = r1
    p = p
    q = q
    x = x
    None = None
    Nodes <- MCNodes
    Ways = {w1}
    Rels = {r1}
    Positions = {p, q, x}
    Inside = {p, q}
    Shapes <- MCShapes
    Members <- MCMembers
    Worlds <- MCWorlds
    MaxEdits = 2
    MaxDiffs = 2
    MaxCrashes = 1
CHECK_DEADLOCK FALSE
INVARIANT SameDiffPositionUsed
