SPECIFICATION Spec
CONSTANTS
    u1 = u1  u2 = u2  n1 = n1  n2 = n2  ak1 = ak1  ak2 = ak2  sk1 = sk1  sk2 = sk2
    None = None
    Operator = op
    Users = {u1}
    AccessKeys = {ak1, ak2}
    Names = {n1, n2}
    CredentialName <- OwnNames
    SuppliedKeys = {sk1}
    GeneratedKeys = {g1, g2}
    Handlers = {}
    Requests <- Empty
    Manifests <- SharedSecretManifests
    LooseSecrets <- BlankSecrets
    MaxInputs = 3
    MaxLosses = 1
SYMMETRY Symmetry
INVARIANTS IInv
PROPERTIES KeysStay
