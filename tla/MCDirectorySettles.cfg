SPECIFICATION LiveSpec
CONSTANTS
    u1 = u1  u2 = u2  g1 = g1  r1 = r1  c1 = c1  id1 = id1  id2 = id2  idg = idg
    b1 = b1  b2 = b2  bg = bg  by = by  star = star  repo = repo  p1 = p1  pr = pr  x1 = x1  x2 = x2
    None = None
    Users = {u1}
    Groups = {g1}
    Roles = {r1}
    Bindings = {b1, b2, bg, by}
    GCPolicies = {c1}
    Ids = {id1, id2, idg, g1}
    Qualified <- QualifiedNames
    UserName <- UserNames
    GroupName <- GroupNames
    RoleName <- RoleNames
    BindingName <- ScopedBinding
    Repositories = {star, repo}
    Everywhere = star
    Templates = {p1}
    PolicyNames = {p1, pr}
    Rendered <- ScopedPolicy
    Texts = {x1, x2}
    Handlers = {h1}
    Operators = {op}
    Requests <- SettlingRequests
    Manifests <- SettlingManifests
    Removable = {u1, g1}
    Installed <- SettlingInstalled
    MaxInputs = 1
INVARIANTS AnswersAgree
PROPERTIES RightsEventually MembersEventually StatusEventually
