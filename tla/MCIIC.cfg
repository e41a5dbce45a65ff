CONSTANTS
    Byte = {b0, b1}
    Lengths = {1, 2, 3}
SPECIFICATION FairSpec
INVARIANTS IICInv BusReleased
PROPERTIES ImplementsTransfer TransferReturns
