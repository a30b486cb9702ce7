\* One worker and one task more than there are slots.
SPECIFICATION Spec
CONSTANTS
    main = main
    other = other
    r1 = r1
    r2 = r2
    r3 = r3
    plain = plain
    NoTask = NoTask
    Workers = {w1, w2, w3}
    Clients = {main, other}
    Tasks = {r1, r2, r3, plain}
    Guarded = {r1, r2, r3}
    Slots = 2
    Scripts <- DemoScripts
INVARIANTS
    TypeOK
    ResourceLimited
PROPERTIES
    ImplementsTaskPool
