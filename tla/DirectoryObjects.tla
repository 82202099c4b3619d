---------------------------- MODULE DirectoryObjects ----------------------------
(***************************************************************************)
(* The objects behind lakeFS users, groups and policies: the LakeFSUsers,   *)
(* LakeFSGroups, LakeFSRoles, LakeFSRoleBindings and LakeFSGCPolicies of    *)
(* one namespace, each process's cached view of them, the watch events      *)
(* that bring a view up to date, and kubectl.                               *)
(*                                                                         *)
(* As in CredentialObjects, every process reads from caches that lag the    *)
(* API server by any amount, a step ends at each write to the API server,   *)
(* an update succeeds only while the stored object equals the copy that     *)
(* was read, and every write may fail without effect.                       *)
(***************************************************************************)
EXTENDS Naturals, FiniteSets

CONSTANTS
    Users, Groups, Roles, Bindings, GCPolicies,  \* object names, kind by kind
    Ids,           \* what requests and spec.externalId call users and groups
    Qualified,     \* "namespace:name" of a user or group
    UserName,      \* objectName(username)
    GroupName,     \* objectName("group-" + id)
    RoleName,      \* objectName("lakefs-policy-" + policy)
    BindingName,   \* roleBindingName
    Repositories,  \* repository scopes
    Everywhere,    \* the scope "*"
    Templates,     \* names of policy templates
    PolicyNames,   \* names of policies
    Rendered,      \* renderRepositoryTemplate(template, repository)
    Texts,         \* policy statements; also what a GC policy says
    Handlers,      \* concurrent requests of the auth-server replicas
    Operators,     \* the operator, or nobody where status plays no part
    Requests,      \* the requests lakeFS may send
    Manifests,     \* the objects kubectl may apply ...
    Removable,     \* ... and those it may delete
    Installed,     \* the directories there may be at the start
    MaxInputs,     \* bound: requests and kubectl commands in a behaviour
    None           \* an absent object or value

Accounts == Users \cup Groups
Objects == Accounts \cup Roles \cup Bindings \cup GCPolicies
Processes == Handlers \cup Operators

(* The specs.  The kind of a role binding's subject goes with its name.     *)
Policy == [name: Templates, text: Texts]
Grant == [subject: Accounts, role: Roles, repository: Repositories]
UserSpec == [externalId: Ids \cup {None}]
GroupSpec == [externalId: Ids \cup {None}, users: SUBSET Users]
RoleSpec == [policies: SUBSET Policy]
GCPolicySpec == [text: Texts]
AnySpec == UserSpec \cup GroupSpec \cup RoleSpec \cup Grant \cup GCPolicySpec

(* ready is the reason of the Ready condition, current says that            *)
(* status.observedGeneration is the generation of the spec.                 *)
Object == [spec: AnySpec, ready: {"Resolved", "Unavailable", None}, current: BOOLEAN]

Fits(n, spec) ==
    /\ n \in Users => spec \in UserSpec
    /\ n \in Groups => spec \in GroupSpec
    /\ n \in Roles => spec \in RoleSpec
    /\ n \in Bindings => spec \in Grant
    /\ n \in GCPolicies => spec \in GCPolicySpec

(* A directory: at most one object of its kind under every name.            *)
IsDirectory(d) ==
    /\ d \in [Objects -> Object \cup {None}]
    /\ \A n \in Objects : d[n] # None => Fits(n, d[n].spec)

(* The requests that write, one kind per route of the auth server.          *)
Request ==
    [op: {"createUser"}, username: Ids, externalId: Ids]
    \cup [op: {"deleteUser"}, user: Ids]
    \cup [op: {"createGroup", "deleteGroup"}, group: Ids]
    \cup [op: {"join", "leave"}, group: Ids, user: Ids]
    \cup [op: {"attachToUser", "attachToGroup", "detachFromUser", "detachFromGroup"},
          subject: Ids, policy: PolicyNames, repository: Repositories]
    \cup [op: {"writePolicy"}, policy: Policy]
    \cup [op: {"deletePolicy"}, policy: PolicyNames]
Manifest == [name: Objects, spec: AnySpec]

(* What a request comes down to once its ids are resolved: an object to     *)
(* create, to put (create or overwrite), to delete or, for a binding, to    *)
(* detach, or a member that joins or leaves a group of which it holds a     *)
(* copy.                                                                    *)
Job == [op: {"create", "put", "join", "leave", "detach", "delete"}, name: Objects,
        spec: AnySpec \cup {None}, member: Users \cup {None},
        copy: Object \cup {None}]

(* A request in progress: its first write is next; or the user or group or  *)
(* role it deletes is gone and the cascade lists groups next, takes the     *)
(* user out of the listed groups, deletes the listed role bindings.         *)
HandlerState == [pc: {"idle", "write", "groups", "leave", "revoke"},
                 job: Job \cup {None},
                 copies: SUBSET [name: Groups, copy: Object],
                 todo: SUBSET Bindings]

ASSUME KindsAssumption ==
    /\ Users \cap Groups = {}
    /\ Roles \cap Accounts = {}
    /\ Bindings \cap (Accounts \cup Roles) = {}
    /\ GCPolicies \cap (Accounts \cup Roles \cup Bindings) = {}
ASSUME NamesAssumption ==
    /\ UserName \in [Ids -> Users]
    /\ GroupName \in [Ids -> Groups]
    /\ RoleName \in [Templates -> Roles]
    /\ BindingName \in [Grant -> Bindings]
    /\ Rendered \in [Templates \X Repositories -> PolicyNames]
    /\ Everywhere \in Repositories
ASSUME InputsAssumption ==
    /\ Requests \subseteq Request
    /\ Manifests \subseteq Manifest
    /\ \A m \in Manifests : Fits(m.name, m.spec)
    /\ Removable \subseteq Objects
    /\ \A d \in Installed : IsDirectory(d)
    /\ MaxInputs \in Nat
ASSUME NoneAssumption == None \notin Ids \cup Users \cup Object \cup AnySpec \cup Job

VARIABLES
    objects,   \* the directory
    seen,      \* each process's cached view of it
    queue,     \* the work queues of the operator's reconcilers
    handler,   \* the request each handler is serving
    inputs     \* requests and kubectl commands so far

vars == <<objects, seen, queue, handler, inputs>>

Idle == [pc |-> "idle", job |-> None, copies |-> {}, todo |-> {}]

(* Every variable holds what the code can put there, under names of the     *)
(* right kind, and a job carries what its operation needs.                  *)
JobOK(job) ==
    /\ job.op \in {"create", "put"} =>
          job.spec # None /\ Fits(job.name, job.spec)
    /\ job.op = "create" =>
          job.name \in Accounts /\ (job.name \in Groups => job.spec.users = {})
    /\ job.op = "put" => job.name \in Roles \cup Bindings
    /\ job.op = "detach" => job.name \in Bindings /\ job.spec \in Grant
    /\ job.op = "delete" => job.name \in Accounts \cup Roles
    /\ job.op \in {"join", "leave"} =>
          /\ job.name \in Groups
          /\ job.member # None
          /\ job.copy # None /\ job.copy.spec \in GroupSpec

HandlerOK(st) ==
    /\ st.pc # "idle" => st.job # None /\ JobOK(st.job)
    /\ st.pc \in {"groups", "leave", "revoke"} => st.job.op = "delete"
    /\ st.pc = "groups" \/ st.copies # {} => st.job.name \in Users
    /\ st.copies # {} => st.pc = "leave"
    /\ st.todo # {} => st.pc = "revoke"
    /\ \A c \in st.copies : c.copy.spec \in GroupSpec

HandlersOK ==
    /\ handler \in [Handlers -> HandlerState]
    /\ \A h \in Handlers : HandlerOK(handler[h])

TypeOK ==
    /\ IsDirectory(objects)
    /\ seen \in [Processes -> [Objects -> Object \cup {None}]]
    /\ \A p \in Processes : IsDirectory(seen[p])
    /\ queue \in SUBSET Objects
    /\ HandlersOK
    /\ inputs \in Nat

Stored(S) == {n \in S : objects[n] # None}
Known(p, S) == {n \in S : seen[p][n] # None}

Init ==
    /\ objects \in Installed
    /\ seen = [p \in Processes |-> objects]
    /\ queue = Stored(Objects)
    /\ handler = [h \in Handlers |-> Idle]
    /\ inputs = 0

-----------------------------------------------------------------------------
(* Helpers.  Beside some of them stand faulty variants, which nothing uses:  *)
(* they show that the properties of Directory depend on the helper.         *)

New(spec) == [spec |-> spec, ready |-> None, current |-> FALSE]
Respecified(object, spec) ==
    [object EXCEPT !.current = @ /\ object.spec = spec, !.spec = spec]

(* The API server's check of an update's resourceVersion.                   *)
Overwrites(stored, copy) == stored # None /\ copy # None
SameVersion(stored, copy) == stored # None /\ stored = copy

(* A request or a kubectl command: the bound on behaviours.                 *)
Input == inputs < MaxInputs /\ inputs' = inputs + 1

-----------------------------------------------------------------------------
(* Watch events; a reconciler is triggered by objects of its own kind.      *)

Sync(p, n) ==
    /\ seen[p][n] # objects[n]
    /\ seen' = [seen EXCEPT ![p][n] = objects[n]]
    /\ queue' = IF p \in Operators THEN queue \cup {n} ELSE queue
    /\ UNCHANGED <<objects, handler, inputs>>

(* kubectl.                                                                 *)
Apply(m) ==
    /\ Input
    /\ IF objects[m.name] = None
       THEN objects' = [objects EXCEPT ![m.name] = New(m.spec)]
       ELSE objects' = [objects EXCEPT ![m.name] = Respecified(@, m.spec)]
    /\ UNCHANGED <<seen, queue, handler>>

Remove(n) ==
    /\ n \in Removable
    /\ Input
    /\ objects[n] # None
    /\ objects' = [objects EXCEPT ![n] = None]
    /\ UNCHANGED <<seen, queue, handler>>
================================================================================
