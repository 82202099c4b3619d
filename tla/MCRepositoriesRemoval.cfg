SPECIFICATION LiveSpec
CONSTANTS
    n1 = n1  n2 = n2  l1 = l1  l2 = l2  p1 = p1  p2 = p2  v1 = v1  v2 = v2
    None = None
    Names = {n1}
    LakeNames = {l1, l2}
    PolicyNames = {p1}
    DefaultName = p1
    Contents = {v1, v2}
    DefaultContent = v1
    Manifests <- Renamed
    Policies <- Empty
    MaxInputs = 3
    MaxLosses = 0
PROPERTIES DeletedEventually
