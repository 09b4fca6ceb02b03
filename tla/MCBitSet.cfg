CONSTANTS
    x = x
    y = y
    z = z
    p = p
    q = q
    None = None
    Vars <- MCVars
    Ids <- MCIds
    ByteBits = 2
    WordBytes = 2
    Sizes <- MCSizes
    Streams <- MCStreams
    Strings <- MCStrings
    MaxBit = 9
    MaxTotal = 9
SPECIFICATION Spec
SYMMETRY Symmetry
INVARIANT TypeOK
PROPERTY ActsAsSharedBits
