SPECIFICATION Spec
CONSTANTS
    s1 = s1
    s2 = s2
    r1 = r1
    r2 = r2
    i1 = i1
    i2 = i2
    m1 = m1
    m2 = m2
    Sandboxes = {s1, s2}
    Images = {i1, i2}
    Manifests = {m1, m2}
    Roots = {r1, r2}
    None = None
    NoRow = NoRow
    NoBox = NoBox
    RootOf <- MCRootOf
    Plans <- MCAbortPlans
    MaxOps = 3
INVARIANTS
    StartNeverAborts
