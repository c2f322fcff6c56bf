SPECIFICATION Spec
CONSTANTS
    k1 = k1
    k2 = k2
    w1 = w1
    w2 = w2
    w3 = w3
    Keys = {k1}
    Files = {1, 2}
    Names = {w1, w2}
    MaxVersion = 1
    MayCrash = TRUE
    MayQuarantine = TRUE
    MayLoseResult = FALSE
SYMMETRY StoreSymmetry
INVARIANTS
    QuarantinedIsRetried
