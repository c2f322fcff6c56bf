\* None of these holds: TLC stops at the first, and shows another when the
\* ones before it are left out.
SPECIFICATION Spec
CONSTANTS
    Slots = {s1, s2, s3}
    Signatures = {binding, timeout}
    NoSignature = none
    RestartBudget = 2
    SlotThreshold = 2
    binding = binding
    timeout = timeout
    none = none
    s1 = s1
    s2 = s2
    s3 = s3
SYMMETRY SlotSymmetry
CHECK_DEADLOCK FALSE
INVARIANTS
    SelfHealsOnce
    SameSignature
