CONSTANTS
    Entry = {e1}
    Blank = Blank
    Noise = Noise
    Pages = 3
    Reserved = 2
    Radix = 2
    Arguments = {0, 3, 4}
    Garbage <- SomeNegative
SPECIFICATION Spec
PROPERTIES StaysInLog
