SPECIFICATION Spec
CONSTANTS
    k1 = k1
    k2 = k2
    w1 = w1
    w2 = w2
    w3 = w3
    Keys = {k1, k2}
    Files = {1, 2}
    Names = {w1, w2, w3}
    MaxVersion = 1
    MayCrash = FALSE
    MayQuarantine = TRUE
    MayLoseResult = TRUE
SYMMETRY StoreSymmetry
INVARIANTS
    QuarantinedIsRetried
