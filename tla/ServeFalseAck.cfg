SPECIFICATION Spec
CONSTANTS
    Jobs = {"tcp-serve"}
    Modulus = 4
    Noise <- Strangers
    MaxNoise = 1
    MaxData = 1
    MaxLen = 1
    Lossy = FALSE
INVARIANT ServedMeansEstablished
