CONSTANTS
    red = red
    green = green
    Lamp = {red, green}
    Timeout <- TwoTimeouts
    Modulus = 10
    MaxLag = 1
    Message = {m}
    NoMessage = NoMessage
    MaxQueue = 1
SPECIFICATION FairSpec
INVARIANTS KernelInv NeverLate
PROPERTIES NeverEarly EveryLampBlinks MessagesHandled
