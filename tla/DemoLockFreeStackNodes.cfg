SPECIFICATION Spec
CONSTANTS
    producer1 = producer1
    producer2 = producer2
    consumer = consumer
    Threads = {producer1, producer2, consumer}
    Nodes = {n1, n2, n3, n4, n5}
    Null = Null
    Program <- DemoProgram
INVARIANTS
    NodesRetained
