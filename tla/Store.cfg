CONSTANTS
    Sandboxes = {s1, s2}
    Roots = {r1, r2}
    Images = {i1}
    Manifests = {m1}
    NoRow = NoRow
    None = None
    Rows <- MCRows
    Kinds = {"Create", "Destroy", "Start"}
    Details <- MCDetails
    MaxOps = 2
    MaxEvents = 3
SPECIFICATION StoreSpec
SYMMETRY SandboxSymmetry
INVARIANTS
    StoreConsistent
PROPERTIES
    JournalAppendOnly
    LiveNeverVanishes
