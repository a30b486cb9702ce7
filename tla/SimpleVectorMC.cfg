\* Three elements: the third makes a vector grow with two objects in it, of
\* which the second may throw.
SPECIFICATION Spec
CONSTANTS
    Vectors = {a, b}
    Temp = temp
    Values = {x, y}
    Raw = raw
    Moved = moved
    Blocks = {1, 2, 3}
    MaxSize = 3
INVARIANTS ObjectsAccounted
PROPERTIES ExceptionGuarantee
