CONSTANTS
    NULL = NULL
    Node = {n1, n2, n3, n4}
    List = {a, b}
    Tidy = {}
SPECIFICATION Spec
INVARIANT
    TailHasNoNext
