CONSTANTS
    p1 = p1
    p2 = p2
    p3 = p3
    m = m
    x = x
    PhiSeq <- Phis
    Other <- SomeOther
    Shadow <- SomeShadow
    Untracked <- None
    Val = {0, 1}
    NoLit = NoLit

SPECIFICATION Spec

INVARIANTS
    PhiInv

PROPERTY
    ImplementsParallelCopy

CHECK_DEADLOCK FALSE
