SPECIFICATION Spec
CONSTANTS
    main = main
    other = other
    k1 = k1
    k2 = k2
    k3 = k3
    NoTask = NoTask
    Clients = {main, other}
    Owner = main
    Tasks = {k1, k2, k3}
    Scripts <- DemoScripts
INVARIANTS
    TypeOK
    NoTaskSleptOn
    DrainedBeforeStop
PROPERTIES
    SleeperStops
    TasksTaken
