SPECIFICATION LiveSpec
CONSTANTS
    u1 = u1  u2 = u2  n1 = n1  n2 = n2  ak1 = ak1  ak2 = ak2  sk1 = sk1  sk2 = sk2
    None = None
    Operator = op
    Users = {u1}
    AccessKeys = {ak1}
    Names = {n1}
    CredentialName <- SharedName
    SuppliedKeys = {sk1}
    GeneratedKeys = {g1}
    Handlers = {h1}
    Requests <- LiveRequests
    Manifests <- ExpiringManifests
    LooseSecrets <- Empty
    MaxInputs = 2
    MaxLosses = 0
PROPERTIES ServedEventually InvalidEventually
