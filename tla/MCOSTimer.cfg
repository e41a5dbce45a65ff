CONSTANTS
    Modulus = 8
    Timeouts = {0, 3, 7}
SPECIFICATION Spec
INVARIANTS ExpiryExact TimerInv
