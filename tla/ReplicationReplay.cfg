SPECIFICATION Spec
CONSTANTS
    n1 = n1
    n2 = n2
    w1 = w1
    Nodes <- MCNodes
    Ways <- MCWays
    Refs <- MCRefs
    NChanges = 5
    Ent <- MCEnt
    Untagged <- MCUntagged
    MaxSeq = 3
    End <- MCEnd
    MaxFaults = 0
INVARIANTS
    ReplayIsHarmless
