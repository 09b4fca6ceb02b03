CONSTANTS
    Party = {alice, bob}
    Secrets <- MCSecrets
    ByteBits = 4
    Limbs = 2
    Prime19 = 19
    C121665 <- MC121665
    Base9 <- MC9
SPECIFICATION X25519Spec
INVARIANTS LimbsStaySmall NeighboursDiffer SharedKeysAgree
PROPERTY KeysAreMultiples
CHECK_DEADLOCK FALSE
