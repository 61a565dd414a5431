SPECIFICATION Spec
CONSTANTS
    e1 = e1
    e2 = e2
    e3 = e3
    f1 = f1
    f2 = f2
    NULL = NULL
    Elem = {e1, e2, e3}
    Father = {f1, f2}
    FatherOf <- MCFatherOf
INVARIANT FatherPointersValid
