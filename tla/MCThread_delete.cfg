\* What a destructor does to the thread of another object.
SPECIFICATION Spec
CONSTANTS
    Objects = {o1, o2, o3}
    NoObject = NoObject
    Ids = {i1}
    NoId = NoId
INVARIANTS
    CurrentThreadIsRight
CHECK_DEADLOCK FALSE
