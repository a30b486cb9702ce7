SPECIFICATION DemoSpec
CONSTANTS
    Main = Main
    Worker1 = Worker1
    Worker2 = Worker2
    Threads = {Main, Worker1, Worker2}
    NoValue = NoValue
    Values <- ThreeValues
    Calls <- AllCalls
    Capacity = 2
INVARIANTS
    ExactlyOnce
    TakenInOrder
    DrainedAsPrinted
PROPERTIES
    DemosFinish
