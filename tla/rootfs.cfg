SPECIFICATION Spec
CONSTANTS
    r1 = r1  r2 = r2  u1 = u1  drop = drop  pass = pass
    Runs = {r1, r2}
    Ups = {u1}
    Programs <- BothPrograms
    Missing = Missing
SYMMETRY Sym
INVARIANTS
    TypeOK
    CloneBoots
    ObjectIsItself
    DoneIsComplete
