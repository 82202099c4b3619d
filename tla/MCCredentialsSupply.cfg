SPECIFICATION Spec
CONSTANTS
    u1 = u1  u2 = u2  n1 = n1  n2 = n2  ak1 = ak1  ak2 = ak2  sk1 = sk1  sk2 = sk2
    None = None
    Operator = op
    Users = {u1}
    AccessKeys = {ak1}
    Names = {n1}
    CredentialName <- SharedName
    SuppliedKeys = {sk1, sk2}
    GeneratedKeys = {g1, g2}
    Handlers = {h1}
    Requests <- RivalRequests
    Manifests <- Empty
    LooseSecrets <- Empty
    MaxInputs = 3
    MaxLosses = 0
PROPERTIES HonorsProvidedSecret
