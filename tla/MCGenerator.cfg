SPECIFICATION Spec
CONSTANTS
    a = a
    b = b
    Domains = {a, b}
    Own = a
    Cycles = 2
    TailYield = FALSE
    MayStop = TRUE
    MaxEdges = 6
INVARIANT OneValuePerEdge
 
