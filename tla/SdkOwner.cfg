SPECIFICATION Spec
CONSTANTS
    Cap = 2
    MaxService = 1
    MaxSerial = 2
    MaxCharge = 2
    MaxLost = 1
INVARIANT OneOwner
