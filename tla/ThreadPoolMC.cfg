SPECIFICATION Spec
CONSTANTS
    main = main
    other = other
    outer = outer
    inner = inner
    third = third
    NoTask = NoTask
    Workers = {w1, w2}
    Clients = {main, other}
    Tasks = {outer, inner, third}
    Body <- NestedBody
    Scripts <- DemoScripts
INVARIANTS
    TypeOK
    NoWorkerForgotten
    DrainedWhenJoined
PROPERTIES
    ClosedQueueDrains
    ScriptsEnd
    ImplementsTaskPool
