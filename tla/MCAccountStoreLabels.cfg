SPECIFICATION Spec
CONSTANTS
    a1 = a1
    a2 = a2
    a3 = a3
    NoId = NoId
    NoFile = NoFile
    Ids <- MCIds
    Secrets = {"zai", "plan"}
    MaxSaved = 2
    MaxOrder = 3
SYMMETRY MCSymmetry
INVARIANTS
    LabelsDistinct
