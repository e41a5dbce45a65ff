CONSTANTS
    Entry = {e1}
    Blank = Blank
    Noise = Noise
    Pages = 3
    Reserved = 2
    Radix = 2
    Arguments <- SomePages
    Garbage <- SomeGarbage
SPECIFICATION Spec
INVARIANTS LogInv 
PROPERTIES ImplementsRingLog OnlyNegativePagesStray
