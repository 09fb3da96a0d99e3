\* Every word of up to 14 bits; those of 11 bits as data of the Hamming code.
CONSTANT MAX_BITS = 14
SPECIFICATION Spec
INVARIANTS DecodeInverts SingleErrorsCorrected DoubleErrorsRejected
