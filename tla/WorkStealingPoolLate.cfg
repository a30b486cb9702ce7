SPECIFICATION Spec
CONSTANTS
    main = main
    other = other
    parent = parent
    child = child
    sibling = sibling
    second = second
    NoTask = NoTask
    Workers = {w1, w2}
    Clients = {main, other}
    Closers = {main}
    Tasks = {parent, child, sibling, second}
    Program <- NestedProgram
    Children <- NestedChildren
    LateSubmits = TRUE
INVARIANTS
    DrainedAtExit
