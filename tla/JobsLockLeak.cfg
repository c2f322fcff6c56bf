SPECIFICATION Spec
CONSTANTS
    r1 = r1
    r2 = r2
    j1 = j1
    j2 = j2
    j3 = j3
    e1 = e1
    e2 = e2
    Repos = {r1, r2}
    JobIds = {j1, j2}
    EmbedIds = {e1, e2}
    EmbedRepos = {r1, r2}
    MaxRetries = 1
    MaxPipelines = 2
    Disturbances = {}
SYMMETRY JobSymmetry
INVARIANTS
    LockIsOwned
