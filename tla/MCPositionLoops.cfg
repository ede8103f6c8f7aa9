\* All pairs of keys of up to four digits over a radix of four, and all
\* sibling sets that renormalize to keys of up to three digits.
CONSTANTS
    Base = 4
    MaxLen = 4
    MaxCount = 30
    Bounds <- MCBounds
SPECIFICATION Spec
INVARIANTS
    TypeOK
    LoopsComputeClosedForms
    StrictlyBetween
    TheCapIsTheLimit
    RenormalizedKeysAscendWithRoom
PROPERTY
    Returns
