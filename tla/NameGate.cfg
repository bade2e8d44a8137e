SPECIFICATION GateSpec
SYMMETRY Symmetry
CONSTANTS
    Node = {n1, n2}
    EOA = {e1}
    Contract = {c1}
    Registry = {r1, r2}
    InTx = inTx
    NotEOA = notEOA
    IndexOff = indexOff
    BadMode = badMode
    MaxHeight = 2
INVARIANTS
    Agreement
    
