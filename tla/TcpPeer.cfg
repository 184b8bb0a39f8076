SPECIFICATION Spec
CONSTANTS
    Jobs <- AllJobs
    Modulus = 4
    Noise <- Strangers
    MaxNoise = 1
    MaxData = 2
    MaxLen = 1
    Lossy = TRUE
INVARIANTS InStep HandshakeSeen
