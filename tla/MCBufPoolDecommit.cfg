CONSTANTS
    Getters = {g1, g2}
    Givers = {v1}
    Buffers = {b1}
    NoBuf = NoBuf
SPECIFICATION PoolFairSpec
PROPERTIES DecommitDeblocks
