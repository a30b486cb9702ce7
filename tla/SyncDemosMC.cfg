\* Rounds: 2 iterations stand for the long loops (100000, 10000, 1000, 100);
\* with 2, every pair of iterations of two threads interleaves.
SPECIFICATION Spec
CONSTANTS
    Main = main
    A = a
    B = b
    C = c
    D = d
    Rounds = 2
INVARIANTS RaceFree AsPrinted WithinLimits NoLineEarly
PROPERTIES DemosEnd
