SPECIFICATION Spec
CONSTANTS
    u1 = u1  u2 = u2  g1 = g1  r1 = r1  c1 = c1  id1 = id1  id2 = id2  idg = idg
    b1 = b1  b2 = b2  bg = bg  by = by  star = star  repo = repo  p1 = p1  pr = pr  x1 = x1  x2 = x2
    None = None
    Users = {u1, u2}
    Groups = {g1}
    Roles = {r1}
    Bindings = {b1, bg, by}
    GCPolicies = {}
    Ids = {id1, id2, idg, g1}
    Qualified <- QualifiedNames
    UserName <- UserNames
    GroupName <- GroupNames
    RoleName <- RoleNames
    BindingName <- CutBinding
    Repositories = {star}
    Everywhere = star
    Templates = {p1}
    PolicyNames = {p1}
    Rendered <- SamePolicy
    Texts = {x1, x2}
    Handlers = {h1, h2}
    Operators = {}
    Requests <- RightsRequests
    Manifests <- RightsManifests
    Removable = {g1, by}
    Installed <- RightsInstalled
    MaxInputs = 2
INVARIANTS IInv AnswersAgree
PROPERTIES ImplementsGrants OwnGrants
SYMMETRY Symmetry
