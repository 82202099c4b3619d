----------------------------- MODULE DirectoryProofs -----------------------------
(***************************************************************************)
(* Machine-checked proofs about Directory, for every set of users, groups,  *)
(* roles, role bindings, policies, handlers, requests and manifests and     *)
(* every bound: its invariant, and that it implements Grants.               *)
(***************************************************************************)
EXTENDS Directory, TLAPS

-----------------------------------------------------------------------------
(* Specs, objects and directories.                                          *)

(* A spec that fits a name is the spec of some object.                      *)
LEMMA FitsAny ==
    ASSUME NEW n \in Objects, NEW spec, Fits(n, spec)
    PROVE  spec \in AnySpec
  BY DEF Objects, Accounts, Fits, AnySpec

(* No object is the absent object.                                          *)
LEMMA ObjectPresent == ASSUME NEW o \in Object PROVE o # None
  BY NoneAssumption

(* What Create stores is an object with the spec it was given.              *)
LEMMA NewType ==
    ASSUME NEW n \in Objects, NEW spec, Fits(n, spec)
    PROVE  New(spec) \in Object /\ New(spec).spec = spec
  BY FitsAny DEF New, Object

(* So is what Update stores.                                                *)
LEMMA RespecifiedType ==
    ASSUME NEW n \in Objects, NEW spec, Fits(n, spec), NEW o \in Object
    PROVE  Respecified(o, spec) \in Object /\ Respecified(o, spec).spec = spec
  BY FitsAny DEF Respecified, Object

(* Storing a fitting object, or removing one, keeps a directory well formed. *)
LEMMA StoreType ==
    ASSUME NEW d, IsDirectory(d), NEW n \in Objects, NEW o \in Object \cup {None},
           o # None => Fits(n, o.spec)
    PROVE  IsDirectory([d EXCEPT ![n] = o])
  BY DEF IsDirectory

(* What a directory holds under a name fits that name.                      *)
LEMMA StoredFits ==
    ASSUME NEW d, IsDirectory(d), NEW n \in Objects, d[n] # None
    PROVE  d[n] \in Object /\ Fits(n, d[n].spec)
  BY DEF IsDirectory

(* The new spec of a group that a user joins or leaves.                     *)
LEMMA MembersType ==
    ASSUME NEW g \in Groups, NEW u \in Users, NEW copy \in Object, copy.spec \in GroupSpec
    PROVE  /\ With(copy, u) \in Object /\ Without(copy, u) \in Object
           /\ Fits(g, With(copy, u).spec) /\ Fits(g, Without(copy, u).spec)
           /\ With(copy, u).spec.users = copy.spec.users \cup {u}
           /\ Without(copy, u).spec.users = copy.spec.users \ {u}
  <1> DEFINE joined == [copy.spec EXCEPT !.users = @ \cup {u}]
             left == [copy.spec EXCEPT !.users = @ \ {u}]
  <1>1. /\ joined \in GroupSpec /\ joined.users = copy.spec.users \cup {u}
        /\ left \in GroupSpec /\ left.users = copy.spec.users \ {u}
    BY DEF GroupSpec
  <1>2. Fits(g, joined) /\ Fits(g, left)
    BY <1>1, KindsAssumption DEF Fits, Accounts
  <1>3. g \in Objects
    BY DEF Objects, Accounts
  <1> HIDE DEF joined, left
  <1>4. /\ Respecified(copy, joined) \in Object /\ Respecified(copy, joined).spec = joined
        /\ Respecified(copy, left) \in Object /\ Respecified(copy, left).spec = left
    BY <1>2, <1>3, RespecifiedType
  <1>5. With(copy, u) = Respecified(copy, joined) /\ Without(copy, u) = Respecified(copy, left)
    BY DEF With, Without, joined, left
  <1> QED
    BY <1>1, <1>2, <1>4, <1>5

-----------------------------------------------------------------------------
(* Handlers and their jobs.                                                 *)

(* An idle handler is well formed.                                          *)
LEMMA IdleType == Idle \in HandlerState /\ HandlerOK(Idle)
  BY DEF Idle, HandlerState, HandlerOK

(* The jobs requests come down to.                                          *)
LEMMA ToWriteType ==
    ASSUME NEW op \in {"create", "put"}, NEW n \in Objects, NEW spec, Fits(n, spec),
           op = "create" => n \in Accounts /\ (n \in Groups => spec.users = {}),
           op = "put" => n \in Roles \cup Bindings
    PROVE  ToWrite(op, n, spec) \in Job /\ JobOK(ToWrite(op, n, spec))
  <1>1. spec \in AnySpec /\ spec # None
    BY FitsAny, NoneAssumption
  <1>2. ToWrite(op, n, spec) \in Job
    BY <1>1 DEF ToWrite, Job
  <1> QED
    BY <1>1, <1>2 DEF ToWrite, JobOK

LEMMA ToDeleteType ==
    ASSUME NEW n \in Accounts \cup Roles
    PROVE  ToDelete(n) \in Job /\ JobOK(ToDelete(n))
  BY DEF ToDelete, ToWrite, Job, JobOK, Objects

LEMMA ToChangeType ==
    ASSUME TypeOK, NEW op \in {"join", "leave"}, NEW h \in Handlers,
           NEW g \in Groups, NEW u \in Users, seen[h][g] # None
    PROVE  ToChange(op, h, g, u) \in Job /\ JobOK(ToChange(op, h, g, u))
  <1>1. g \in Objects /\ h \in Processes
    BY DEF Objects, Accounts, Processes
  <1>2. seen[h][g] \in Object /\ seen[h][g].spec \in GroupSpec
    BY <1>1, StoredFits DEF TypeOK, Fits
  <1>3. ToChange(op, h, g, u) \in Job
    BY <1>1, <1>2 DEF ToChange, Job
  <1>4. u # None /\ seen[h][g] # None
    BY NoneAssumption
  <1> QED
    BY <1>1, <1>2, <1>3, <1>4 DEF ToChange, JobOK

LEMMA ToBindType ==
    ASSUME NEW op \in {"put", "detach"}, NEW subject \in Accounts, NEW role \in Roles,
           NEW repository \in Repositories
    PROVE  /\ ToBind(op, subject, role, repository) \in Job
           /\ JobOK(ToBind(op, subject, role, repository))
  <1> DEFINE grant == [subject |-> subject, role |-> role, repository |-> repository]
             n == BindingName[grant]
  <1>1. grant \in Grant
    BY DEF Grant
  <1>2. n \in Bindings /\ n \in Objects
    BY <1>1, NamesAssumption DEF Objects
  <1>3. Fits(n, grant)
    BY <1>1, <1>2, KindsAssumption DEF Fits, Accounts
  <1> HIDE DEF grant, n
  <1>4. grant \in AnySpec /\ grant # None
    BY <1>2, <1>3, FitsAny, NoneAssumption
  <1>5. ToBind(op, subject, role, repository) = ToWrite(op, n, grant)
    BY DEF ToBind, n, grant
  <1>6. ToWrite(op, n, grant) \in Job
    BY <1>2, <1>4 DEF ToWrite, Job
  <1> QED
    BY <1>1, <1>2, <1>3, <1>4, <1>5, <1>6 DEF ToWrite, JobOK

(* Who may mean which grant by the name of a role binding.                  *)
LEMMA MakersFacts ==
    /\ \A grant \in Grant : <<BindingName[grant], grant>> \in Makers
    /\ \A m \in Manifests : m.name \in Bindings => <<m.name, m.spec>> \in Makers
    /\ \A d \in Installed, b \in Bindings : d[b] # None => <<b, d[b].spec>> \in Makers
  BY DEF Makers

LEMMA MeantFacts ==
    ASSUME NEW b \in Bindings
    PROVE  /\ Meant[b] \subseteq Grant
           /\ \A grant \in Grant : <<b, grant>> \in Makers => grant \in Meant[b]
           /\ \A n : b \in MeantFor(n) <=> \E grant \in Meant[b] : Mentions(grant, n)
  BY DEF Meant, MeantFor

(* A role binding's job is for a grant its name may mean.                   *)
NamedJob(job) ==
    job.op \in {"put", "detach"} /\ job.name \in Bindings => <<job.name, job.spec>> \in Makers

(* Attaching and detaching do.                                              *)
LEMMA ToBindNamed ==
    ASSUME NEW op \in {"put", "detach"}, NEW subject \in Accounts, NEW role \in Roles,
           NEW repository \in Repositories
    PROVE  NamedJob(ToBind(op, subject, role, repository))
  <1> DEFINE grant == [subject |-> subject, role |-> role, repository |-> repository]
  <1>1. <<BindingName[grant], grant>> \in Makers
    BY MakersFacts DEF Grant
  <1> QED
    BY <1>1 DEF ToBind, ToWrite, NamedJob

(* Ids resolve to what the handler's cache holds.                           *)
LEMMA ResolveType ==
    ASSUME NEW h, NEW id
    PROVE  UsersFor(h, id) \subseteq Known(h, Users) /\ GroupsFor(h, id) \subseteq Known(h, Groups)
  BY DEF UsersFor, GroupsFor, Resolved, FirstMatch, Known

(* Every request comes down to a well-formed job.                           *)
LEMMA ReceiveType ==
    ASSUME NEW h \in Handlers, NEW req \in Requests, Receive(h, req), TypeOK
    PROVE  \E job \in Job : JobOK(job) /\ NamedJob(job) /\ Accept(h, req, job)
  <1> DEFINE Goal == \E job \in Job : JobOK(job) /\ NamedJob(job) /\ Accept(h, req, job)
  <1>1. req \in Request
    BY InputsAssumption
  <1>2. \A id : UsersFor(h, id) \subseteq Users /\ GroupsFor(h, id) \subseteq Groups
    BY ResolveType DEF Known
  <1>3. CASE CreateUser(h, req)
    <2>1. req.username \in Ids /\ req.externalId \in Ids
      BY <1>1, <1>3 DEF CreateUser, Request
    <2> DEFINE n == UserName[req.username]
               spec == [externalId |-> req.externalId]
    <2>2. n \in Users /\ n \in Objects /\ n \in Accounts /\ n \notin Groups
      BY <2>1, NamesAssumption, KindsAssumption DEF Objects, Accounts
    <2>3. Fits(n, spec)
      BY <2>1, <2>2, KindsAssumption DEF Fits, UserSpec, Accounts
    <2>4. Accept(h, req, ToWrite("create", n, spec))
      BY <1>3 DEF CreateUser
    <2>5. NamedJob(ToWrite("create", n, spec))
      BY DEF NamedJob, ToWrite
    <2> HIDE DEF n, spec
    <2>6. ToWrite("create", n, spec) \in Job /\ JobOK(ToWrite("create", n, spec))
      BY <2>2, <2>3, ToWriteType
    <2> QED
      BY <2>4, <2>5, <2>6
  <1>4. CASE CreateGroup(h, req)
    <2>1. req.group \in Ids
      BY <1>1, <1>4 DEF CreateGroup, Request
    <2> DEFINE n == GroupName[req.group]
               spec == [externalId |-> req.group, users |-> {}]
    <2>2. n \in Groups /\ n \in Objects /\ n \in Accounts
      BY <2>1, NamesAssumption DEF Objects, Accounts
    <2>3. Fits(n, spec) /\ spec.users = {}
      BY <2>1, <2>2, KindsAssumption DEF Fits, GroupSpec, Accounts
    <2>4. Accept(h, req, ToWrite("create", n, spec))
      BY <1>4 DEF CreateGroup
    <2>5. NamedJob(ToWrite("create", n, spec))
      BY DEF NamedJob, ToWrite
    <2> HIDE DEF n, spec
    <2>6. ToWrite("create", n, spec) \in Job /\ JobOK(ToWrite("create", n, spec))
      BY <2>2, <2>3, ToWriteType
    <2> QED
      BY <2>4, <2>5, <2>6
  <1>5. CASE WritePolicy(h, req)
    <2>1. req.policy \in Policy
      BY <1>1, <1>5 DEF WritePolicy, Request
    <2> DEFINE n == RoleName[req.policy.name]
               spec == [policies |-> {req.policy}]
    <2>2. n \in Roles /\ n \in Objects
      BY <2>1, NamesAssumption DEF Objects, Policy
    <2>3. Fits(n, spec)
      BY <2>1, <2>2, KindsAssumption DEF Fits, RoleSpec, Accounts
    <2>4. Accept(h, req, ToWrite("put", n, spec))
      BY <1>5 DEF WritePolicy, RoleFromPolicy
    <2>5. NamedJob(ToWrite("put", n, spec))
      BY <2>2, KindsAssumption DEF NamedJob, ToWrite
    <2> HIDE DEF n, spec
    <2>6. ToWrite("put", n, spec) \in Job /\ JobOK(ToWrite("put", n, spec))
      BY <2>2, <2>3, ToWriteType
    <2> QED
      BY <2>4, <2>5, <2>6
  <1>6. CASE DeleteUser(h, req) \/ DeleteGroup(h, req) \/ DeletePolicy(h, req)
    <2>1. PICK n \in Accounts \cup Roles : Accept(h, req, ToDelete(n))
      BY <1>2, <1>6 DEF DeleteUser, DeleteGroup, DeletePolicy, RolesFor, Known, Accounts
    <2>2. NamedJob(ToDelete(n))
      BY DEF NamedJob, ToDelete, ToWrite
    <2> QED
      BY <2>1, <2>2, ToDeleteType
  <1>7. CASE AddGroupMembership(h, req) \/ RemoveGroupMembership(h, req)
    <2>1. PICK op \in {"join", "leave"}, g \in GroupsFor(h, req.group), u \in UsersFor(h, req.user) :
              Accept(h, req, ToChange(op, h, g, u))
      BY <1>7 DEF AddGroupMembership, RemoveGroupMembership
    <2>2. g \in Groups /\ u \in Users /\ seen[h][g] # None
      BY <2>1, ResolveType DEF Known
    <2>3. NamedJob(ToChange(op, h, g, u))
      BY DEF NamedJob, ToChange
    <2>4. ToChange(op, h, g, u) \in Job /\ JobOK(ToChange(op, h, g, u))
      BY <2>2, ToChangeType
    <2> QED
      BY <2>1, <2>3, <2>4
  <1>8. CASE \/ AttachPolicyToUser(h, req) \/ AttachPolicyToGroup(h, req)
             \/ DetachPolicyFromUser(h, req) \/ DetachPolicyFromGroup(h, req)
    <2>1. req.repository \in Repositories
      BY <1>1, <1>8 DEF Request, AttachPolicyToUser, AttachPolicyToGroup,
                        DetachPolicyFromUser, DetachPolicyFromGroup
    <2>2. PICK op \in {"put", "detach"}, s \in Accounts, r \in Roles :
              Accept(h, req, ToBind(op, s, r, req.repository))
      BY <1>2, <1>8 DEF AttachPolicyToUser, AttachPolicyToGroup, DetachPolicyFromUser,
                        DetachPolicyFromGroup, RolesFor, Known, Accounts
    <2> QED
      BY <2>1, <2>2, ToBindType, ToBindNamed
  <1> QED
    BY <1>3, <1>4, <1>5, <1>6, <1>7, <1>8 DEF Receive

-----------------------------------------------------------------------------
(* Facts.                                                                   *)

(* What an object says, kind by kind.                                       *)
LEMMA SaysCases ==
    ASSUME NEW o
    PROVE  /\ \A n : Says(n, None) = {}
           /\ o # None => \A n \in Users : Says(n, o) = {<<"account", n>>}
           /\ o # None => \A n \in Groups :
                 Says(n, o) = {<<"account", n>>} \cup {<<"member", n, u>> : u \in o.spec.users}
           /\ o # None => \A n \in Roles :
                 Says(n, o) = {<<"policy", n, p>> : p \in o.spec.policies}
           /\ o # None => \A n \in Bindings : Says(n, o) = {<<"grant", o.spec>>}
           /\ \A n \in GCPolicies : Says(n, o) = {}
  <1>1. \A n : Says(n, None) = {}
    BY DEF Says
  <1>2. o # None => \A n \in Users : Says(n, o) = {<<"account", n>>}
    BY KindsAssumption DEF Says, Accounts
  <1>3. o # None => \A n \in Groups :
            Says(n, o) = {<<"account", n>>} \cup {<<"member", n, u>> : u \in o.spec.users}
    BY KindsAssumption DEF Says, Accounts
  <1>4. o # None => \A n \in Roles : Says(n, o) = {<<"policy", n, p>> : p \in o.spec.policies}
    BY KindsAssumption DEF Says, Accounts
  <1>5. o # None => \A n \in Bindings : Says(n, o) = {<<"grant", o.spec>>}
    BY KindsAssumption DEF Says, Accounts
  <1>6. \A n \in GCPolicies : Says(n, o) = {}
    <2> SUFFICES ASSUME NEW n \in GCPolicies PROVE Says(n, o) = {}
      OBVIOUS
    <2>1. n \notin Users /\ n \notin Groups /\ n \notin Roles /\ n \notin Bindings
      BY KindsAssumption DEF Accounts
    <2> QED
      BY <2>1 DEF Says
  <1> QED
    BY <1>1, <1>2, <1>3, <1>4, <1>5, <1>6

(* Only what the stored object says comes or goes when it is replaced.      *)
LEMMA FactsChange ==
    ASSUME NEW n \in Objects, NEW o, objects \in [Objects -> Object \cup {None}],
           objects' = [objects EXCEPT ![n] = o]
    PROVE  /\ Facts' \ Facts \subseteq Says(n, o) \ Says(n, objects[n])
           /\ Facts \ Facts' \subseteq Says(n, objects[n]) \ Says(n, o)
  <1>1. objects'[n] = o /\ \A k \in Objects : k # n => objects'[k] = objects[k]
    OBVIOUS
  <1>2. \A f : f \in Facts <=> \E k \in Objects : f \in Says(k, objects[k])
    BY DEF Facts, FactsIn
  <1>3. \A f : f \in Facts' <=> \E k \in Objects : f \in Says(k, objects'[k])
    BY DEF Facts, FactsIn, Says
  <1> QED
    BY <1>1, <1>2, <1>3

(* All that a directory says is a fact.                                     *)
LEMMA SaysType ==
    ASSUME NEW n \in Objects, NEW o \in Object \cup {None}, o # None => Fits(n, o.spec)
    PROVE  Says(n, o) \subseteq AllFacts
  <1>1. CASE o = None
    BY <1>1, SaysCases
  <1>2. CASE o # None /\ n \in Users
    BY <1>2, SaysCases DEF AllFacts, AccountFacts, Accounts
  <1>3. CASE o # None /\ n \in Groups
    <2>1. o.spec.users \subseteq Users
      BY <1>3 DEF Fits, GroupSpec
    <2> QED
      BY <1>3, <2>1, SaysCases DEF AllFacts, AccountFacts, MemberFacts, Accounts
  <1>4. CASE o # None /\ n \in Roles
    <2>1. o.spec.policies \subseteq Policy
      BY <1>4 DEF Fits, RoleSpec
    <2> QED
      BY <1>4, <2>1, SaysCases DEF AllFacts, PolicyFacts
  <1>5. CASE o # None /\ n \in Bindings
    <2>1. o.spec \in Grant
      BY <1>5 DEF Fits
    <2> QED
      BY <1>5, <2>1, SaysCases DEF AllFacts, GrantFacts
  <1>6. CASE n \in GCPolicies
    BY <1>6, SaysCases
  <1> QED
    BY <1>1, <1>2, <1>3, <1>4, <1>5, <1>6 DEF Objects, Accounts

LEMMA FactsType == TypeOK => Facts \subseteq AllFacts
  <1> SUFFICES ASSUME TypeOK PROVE Facts \subseteq AllFacts
    OBVIOUS
  <1>1. \A n \in Objects : Says(n, objects[n]) \subseteq AllFacts
    BY SaysType DEF TypeOK, IsDirectory
  <1> QED
    BY <1>1 DEF Facts, FactsIn

(* The grants that a job takes away, by the names of role bindings.         *)
LEMMA GrantsLostType ==
    ASSUME NEW job \in Job, JobOK(job)
    PROVE  GrantsLost(job) \subseteq Grant
  BY MeantFacts DEF GrantsLost, JobOK, MeantFor

(* What each kind of job takes away.                                        *)
LEMMA LoseCases ==
    ASSUME NEW job
    PROVE  /\ job.op = "create" \/ job.op = "join" => Lose(job) = {}
           /\ job.op = "leave" => Lose(job) = {<<"member", job.name, job.member>>}
           /\ job.op = "put" /\ job.name \in Roles =>
                 Lose(job) = {"policy"} \X {job.name} \X Policy
           /\ job.op = "put" /\ job.name \in Bindings =>
                 Lose(job) = {"grant"} \X (Meant[job.name] \ {job.spec})
           /\ job.op = "detach" => Lose(job) = {"grant"} \X Meant[job.name]
           /\ job.op = "delete" =>
                 Lose(job) = ({"grant"} \X UNION {Meant[b] : b \in MeantFor(job.name)})
                     \cup {f \in AccountFacts : f[2] = job.name}
                     \cup {f \in MemberFacts : job.name \in {f[2], f[3]}}
                     \cup {f \in PolicyFacts : f[2] = job.name}
  <1>1. CASE job.op = "create" \/ job.op = "join" \/ job.op = "leave"
    <2>1. GrantsLost(job) = {}
      BY <1>1 DEF GrantsLost
    <2> QED
      BY <1>1, <2>1 DEF Lose
  <1>2. CASE job.op = "put" /\ job.name \in Roles
    <2>1. job.name \notin Bindings
      BY <1>2, KindsAssumption
    <2>2. GrantsLost(job) = {}
      BY <1>2, <2>1 DEF GrantsLost
    <2> QED
      BY <1>2, <2>1, <2>2 DEF Lose
  <1>3. CASE job.op = "put" /\ job.name \in Bindings
    <2>1. job.name \notin Roles
      BY <1>3, KindsAssumption
    <2>2. GrantsLost(job) = Meant[job.name] \ {job.spec}
      BY <1>3 DEF GrantsLost
    <2> QED
      BY <1>3, <2>1, <2>2 DEF Lose
  <1>4. CASE job.op = "detach"
    <2>1. GrantsLost(job) = Meant[job.name]
      BY <1>4 DEF GrantsLost
    <2> QED
      BY <1>4, <2>1 DEF Lose
  <1>5. CASE job.op = "delete"
    <2>1. GrantsLost(job) = UNION {Meant[b] : b \in MeantFor(job.name)}
      BY <1>5 DEF GrantsLost
    <2> QED
      BY <1>5, <2>1 DEF Lose
  <1> QED
    BY <1>1, <1>2, <1>3, <1>4, <1>5

(* So is all that a well-formed job may add or take away.                   *)
LEMMA OrderType ==
    ASSUME NEW job \in Job, JobOK(job)
    PROVE  Gain(job) \subseteq AllFacts /\ Lose(job) \subseteq AllFacts
  <1>1. CASE job.op = "create"
    <2>1. job.name \in Accounts
      BY <1>1 DEF JobOK
    <2>2. Gain(job) = {<<"account", job.name>>} /\ Lose(job) = {}
      BY <1>1, LoseCases DEF Gain
    <2> QED
      BY <2>1, <2>2 DEF AllFacts, AccountFacts
  <1>2. CASE job.op \in {"join", "leave"}
    <2>1. job.name \in Groups /\ job.member \in Users
      BY <1>2 DEF JobOK, Job
    <2>2. Gain(job) \subseteq {<<"member", job.name, job.member>>}
          /\ Lose(job) \subseteq {<<"member", job.name, job.member>>}
      BY <1>2, LoseCases DEF Gain
    <2> QED
      BY <2>1, <2>2 DEF AllFacts, MemberFacts
  <1>3. CASE job.op = "put" /\ job.name \in Roles
    <2>1. job.spec \in RoleSpec
      BY <1>3 DEF JobOK, Fits
    <2>2. job.spec.policies \subseteq Policy
      BY <2>1 DEF RoleSpec
    <2>3. Gain(job) = {<<"policy", job.name, p>> : p \in job.spec.policies}
      <3>1. job.name \notin Bindings
        BY <1>3, KindsAssumption
      <3> QED
        BY <1>3, <3>1, ZenonT(30) DEF Gain
    <2>4. Lose(job) = {"policy"} \X {job.name} \X Policy
      BY <1>3, LoseCases
    <2>5. Gain(job) \subseteq PolicyFacts
      BY <1>3, <2>2, <2>3 DEF PolicyFacts
    <2>6. Lose(job) \subseteq PolicyFacts
      BY <1>3, <2>4 DEF PolicyFacts
    <2> QED
      BY <2>5, <2>6 DEF AllFacts
  <1>4. CASE job.op = "put" /\ job.name \in Bindings
    <2>1. job.spec \in Grant /\ job.name \notin Roles
      BY <1>4, KindsAssumption DEF JobOK, Fits
    <2>2. Gain(job) = {<<"grant", job.spec>>}
      BY <1>4, <2>1 DEF Gain
    <2>3. Lose(job) \subseteq {"grant"} \X Grant
      BY <1>4, LoseCases, MeantFacts
    <2> QED
      BY <2>1, <2>2, <2>3 DEF AllFacts, GrantFacts
  <1>5. CASE job.op = "detach"
    <2>1. job.name \in Bindings
      BY <1>5 DEF JobOK
    <2>2. Gain(job) = {}
      BY <1>5 DEF Gain
    <2>3. Lose(job) \subseteq {"grant"} \X Grant
      BY <1>5, <2>1, LoseCases, MeantFacts
    <2> QED
      BY <2>2, <2>3 DEF AllFacts, GrantFacts
  <1>6. CASE job.op = "delete"
    <2>1. Gain(job) = {}
      BY <1>6 DEF Gain
    <2>2. UNION {Meant[b] : b \in MeantFor(job.name)} \subseteq Grant
      BY MeantFacts DEF MeantFor
    <2>3. Lose(job) \subseteq ({"grant"} \X Grant) \cup AccountFacts \cup MemberFacts \cup PolicyFacts
      BY <1>6, <2>2, LoseCases
    <2> QED
      BY <2>1, <2>3 DEF AllFacts, GrantFacts
  <1> QED
    BY <1>1, <1>2, <1>3, <1>4, <1>5, <1>6 DEF JobOK, Job

-----------------------------------------------------------------------------
(* What a write may do to the directory: it stays well formed, its role     *)
(* bindings keep their grants, and the change is one the job asks for.      *)
BindingsHold(d) == \A b \in Bindings : d[b] # None => <<b, d[b].spec>> \in Makers

Lawful(job) ==
    /\ IsDirectory(objects') /\ BindingsHold(objects')
    /\ Facts' \ Facts \subseteq Gain(job)
    /\ Facts \ Facts' \subseteq Lose(job)

(* The invariants in the form the proofs use.                               *)
LEMMA IInvFacts ==
    ASSUME IInv
    PROVE  /\ IsDirectory(objects) /\ BindingsHold(objects)
           /\ \A p \in Processes : IsDirectory(seen[p]) /\ BindingsHold(seen[p])
           /\ \A h \in Handlers : handler[h].pc # "idle" =>
                 /\ handler[h] \in HandlerState /\ HandlerOK(handler[h])
                 /\ handler[h].job \in Job /\ handler[h].job # None
                 /\ JobOK(handler[h].job) /\ NamedJob(handler[h].job)
  <1>1. /\ IsDirectory(objects) /\ BindingsHold(objects)
        /\ \A p \in Processes : IsDirectory(seen[p]) /\ BindingsHold(seen[p])
    BY DEF IInv, TypeOK, NamesHold, BindingsHold, Stored
  <1>2. ASSUME NEW h \in Handlers, handler[h].pc # "idle"
        PROVE  /\ handler[h] \in HandlerState /\ HandlerOK(handler[h])
               /\ handler[h].job \in Job /\ handler[h].job # None
               /\ JobOK(handler[h].job) /\ NamedJob(handler[h].job)
    <2>1. handler[h] \in HandlerState /\ HandlerOK(handler[h])
      BY DEF IInv, TypeOK, HandlersOK
    <2>2. handler[h].job \in Job /\ handler[h].job # None /\ JobOK(handler[h].job)
      BY <1>2, <2>1 DEF HandlerState, HandlerOK
    <2>3. NamedJob(handler[h].job)
      BY <2>2 DEF IInv, NamesHold, NamedJob
    <2> QED
      BY <2>1, <2>2, <2>3
  <1> QED
    BY <1>1, <1>2

(* A step that writes nothing is lawful.                                    *)
LEMMA KeepLawful ==
    ASSUME IInv, objects' = objects, NEW job
    PROVE  Lawful(job)
  <1>1. Facts' = Facts
    BY DEF Facts, FactsIn
  <1>2. IsDirectory(objects) /\ BindingsHold(objects)
    BY IInvFacts
  <1> QED
    BY <1>1, <1>2 DEF Lawful

(* One that replaces an object is when the replacement is.                  *)
LEMMA ReplaceLawful ==
    ASSUME IInv, NEW job, NEW n \in Objects, NEW o \in Object \cup {None},
           o # None => Fits(n, o.spec),
           o # None /\ n \in Bindings => <<n, o.spec>> \in Makers,
           Says(n, o) \ Says(n, objects[n]) \subseteq Gain(job),
           Says(n, objects[n]) \ Says(n, o) \subseteq Lose(job),
           objects' = [objects EXCEPT ![n] = o]
    PROVE  Lawful(job)
  <1>1. IsDirectory(objects) /\ BindingsHold(objects)
    BY IInvFacts
  <1>2. objects \in [Objects -> Object \cup {None}]
    BY <1>1 DEF IsDirectory
  <1>3. IsDirectory(objects')
    BY <1>1, StoreType
  <1>4. BindingsHold(objects')
    BY <1>1, <1>2 DEF BindingsHold, Objects
  <1>5. /\ Facts' \ Facts \subseteq Says(n, o) \ Says(n, objects[n])
        /\ Facts \ Facts' \subseteq Says(n, objects[n]) \ Says(n, o)
    BY <1>2, FactsChange
  <1> QED
    BY <1>3, <1>4, <1>5 DEF Lawful

(* Create and create-or-overwrite, where nothing was.                       *)
LEMMA CreateLawful ==
    ASSUME IInv, NEW h \in Handlers, WriteCreates(h)
    PROVE  Lawful(handler[h].job)
  <1> DEFINE job == handler[h].job
             n == job.name
             o == New(job.spec)
  <1>1. job \in Job /\ JobOK(job) /\ NamedJob(job) /\ job.op \in {"create", "put"}
    BY IInvFacts DEF WriteCreates, Writing
  <1>2. objects[n] = None /\ objects' = [objects EXCEPT ![n] = o]
    BY DEF WriteCreates
  <1>3. n \in Objects /\ Fits(n, job.spec)
    BY <1>1 DEF Job, JobOK
  <1>4. o \in Object /\ o.spec = job.spec /\ o # None
    BY <1>3, NewType, ObjectPresent
  <1>5. n \in Bindings => <<n, o.spec>> \in Makers
    BY <1>1, <1>4, KindsAssumption DEF JobOK, NamedJob
  <1>6. Says(n, objects[n]) = {}
    BY <1>2, SaysCases
  <1>7. Says(n, o) \subseteq Gain(job)
    <2>1. CASE n \in Accounts
      <3>1. job.op = "create"
        BY <1>1, <2>1, KindsAssumption DEF JobOK
      <3>2. Gain(job) = {<<"account", n>>}
        BY <3>1 DEF Gain
      <3>3. n \in Groups => o.spec.users = {}
        BY <1>1, <1>4, <3>1 DEF JobOK
      <3> QED
        BY <1>4, <2>1, <3>2, <3>3, SaysCases DEF Accounts
    <2>2. CASE n \in Roles
      <3>1. job.op = "put"
        BY <1>1, <2>2, KindsAssumption DEF JobOK
      <3>2. n \notin Bindings
        BY <2>2, KindsAssumption
      <3>3. Gain(job) = {<<"policy", n, p>> : p \in job.spec.policies}
        BY <2>2, <3>1, <3>2, ZenonT(30) DEF Gain
      <3> QED
        BY <1>4, <2>2, <3>3, SaysCases
    <2>3. CASE n \in Bindings
      <3>1. job.op = "put"
        BY <1>1, <2>3, KindsAssumption DEF JobOK
      <3>2. n \notin Roles
        BY <2>3, KindsAssumption
      <3>3. Gain(job) = {<<"grant", job.spec>>}
        BY <2>3, <3>1, <3>2, ZenonT(30) DEF Gain
      <3> QED
        BY <1>4, <2>3, <3>3, SaysCases
    <2> QED
      BY <1>1, <2>1, <2>2, <2>3 DEF JobOK
  <1> HIDE DEF o, n, job
  <1>8. Lawful(job)
    BY <1>2, <1>3, <1>4, <1>5, <1>6, <1>7, ReplaceLawful
  <1> QED
    BY <1>8 DEF job

(* Overwriting a role, or a role binding of the same name.                  *)
LEMMA OverwriteLawful ==
    ASSUME IInv, NEW h \in Handlers, WriteReplaces(h)
    PROVE  Lawful(handler[h].job)
  <1> DEFINE job == handler[h].job
             n == job.name
             old == objects[n]
             o == Respecified(seen[h][n], job.spec)
  <1>1. job \in Job /\ JobOK(job) /\ NamedJob(job) /\ job.op = "put"
    BY IInvFacts DEF WriteReplaces, Writing
  <1>2. old # None /\ seen[h][n] = old /\ objects' = [objects EXCEPT ![n] = o]
    BY DEF WriteReplaces, SameVersion
  <1>3. n \in Objects /\ Fits(n, job.spec) /\ n \in Roles \cup Bindings
    BY <1>1 DEF Job, JobOK
  <1>4. old \in Object /\ Fits(n, old.spec)
    BY <1>2, <1>3, IInvFacts, StoredFits
  <1>5. o \in Object /\ o.spec = job.spec /\ o # None
    BY <1>2, <1>3, <1>4, RespecifiedType, ObjectPresent
  <1>6. n \in Bindings => <<n, o.spec>> \in Makers /\ <<n, old.spec>> \in Makers
    BY <1>1, <1>2, <1>5, IInvFacts DEF NamedJob, BindingsHold
  <1>7. Says(n, o) \ Says(n, old) \subseteq Gain(job) /\ Says(n, old) \ Says(n, o) \subseteq Lose(job)
    <2>1. CASE n \in Roles
      <3>1. n \notin Bindings
        BY <2>1, KindsAssumption
      <3>2. Gain(job) = {<<"policy", n, p>> : p \in job.spec.policies}
        BY <1>1, <2>1, <3>1, ZenonT(30) DEF Gain
      <3>3. Lose(job) = {"policy"} \X {n} \X Policy
        BY <1>1, <2>1, LoseCases
      <3>4. old.spec.policies \subseteq Policy
        BY <1>4, <2>1 DEF Fits, RoleSpec
      <3>5. Says(n, old) \subseteq Lose(job)
        BY <1>2, <2>1, <3>3, <3>4, SaysCases
      <3> QED
        BY <1>5, <2>1, <3>2, <3>5, SaysCases
    <2>2. CASE n \in Bindings
      <3>1. n \notin Roles
        BY <2>2, KindsAssumption
      <3>2. Gain(job) = {<<"grant", job.spec>>}
        BY <1>1, <2>2, <3>1, ZenonT(30) DEF Gain
      <3>3. Lose(job) = {"grant"} \X (Meant[n] \ {job.spec})
        BY <1>1, <2>2, LoseCases
      <3>4. old.spec \in Meant[n]
        BY <1>4, <1>6, <2>2, MeantFacts DEF Fits
      <3> HIDE DEF o, old, n, job
      <3>5. Says(n, o) = {<<"grant", job.spec>>}
        BY <1>5, <2>2, SaysCases
      <3>6. Says(n, old) = {<<"grant", old.spec>>}
        BY <1>2, <2>2, SaysCases
      <3> QED
        BY <3>2, <3>3, <3>4, <3>5, <3>6
    <2> QED
      BY <1>3, <2>1, <2>2
  <1> HIDE DEF o, old, n, job
  <1>8. Lawful(job)
    BY <1>2, <1>3, <1>5, <1>6, <1>7, ReplaceLawful DEF old
  <1> QED
    BY <1>8 DEF job

(* A member that joins or leaves the stored group.                          *)
LEMMA MembersLawful ==
    ASSUME IInv, NEW job, NEW g \in Groups, NEW u \in Users, NEW copy \in Object,
           copy.spec \in GroupSpec, SameVersion(objects[g], copy),
           \/ /\ objects' = [objects EXCEPT ![g] = With(copy, u)]
              /\ <<"member", g, u>> \in Gain(job)
           \/ /\ objects' = [objects EXCEPT ![g] = Without(copy, u)]
              /\ <<"member", g, u>> \in Lose(job)
    PROVE  Lawful(job)
  <1> DEFINE joined == With(copy, u)
             left == Without(copy, u)
  <1>1. objects[g] = copy /\ copy # None /\ g \in Objects /\ g \notin Bindings
    BY KindsAssumption DEF SameVersion, Objects, Accounts
  <1>2. /\ joined \in Object /\ Fits(g, joined.spec)
        /\ joined.spec.users = copy.spec.users \cup {u}
        /\ left \in Object /\ Fits(g, left.spec)
        /\ left.spec.users = copy.spec.users \ {u}
    BY MembersType
  <1> HIDE DEF joined, left
  <1>3. /\ joined # None /\ left # None
        /\ Says(g, joined) \ Says(g, copy) \subseteq {<<"member", g, u>>}
        /\ Says(g, copy) \subseteq Says(g, joined)
        /\ Says(g, left) \subseteq Says(g, copy)
        /\ Says(g, copy) \ Says(g, left) \subseteq {<<"member", g, u>>}
    BY <1>1, <1>2, SaysCases, ObjectPresent
  <1>4. CASE objects' = [objects EXCEPT ![g] = joined] /\ <<"member", g, u>> \in Gain(job)
    BY <1>1, <1>2, <1>3, <1>4, ReplaceLawful
  <1>5. CASE objects' = [objects EXCEPT ![g] = left] /\ <<"member", g, u>> \in Lose(job)
    BY <1>1, <1>2, <1>3, <1>5, ReplaceLawful
  <1> QED
    BY <1>4, <1>5 DEF joined, left

LEMMA UpdateLawful ==
    ASSUME IInv, NEW h \in Handlers, UpdateMembers(h)
    PROVE  Lawful(handler[h].job)
  <1> DEFINE job == handler[h].job
  <1>1. job \in Job /\ JobOK(job) /\ job.op \in {"join", "leave"}
    BY IInvFacts DEF UpdateMembers, Writing
  <1>2. job.name \in Groups /\ job.member \in Users /\ job.copy \in Object
        /\ job.copy.spec \in GroupSpec
    BY <1>1 DEF Job, JobOK
  <1>3. /\ SameVersion(objects[job.name], job.copy)
        /\ job.op = "join" => objects' = [objects EXCEPT ![job.name] = With(job.copy, job.member)]
        /\ job.op = "leave" =>
              objects' = [objects EXCEPT ![job.name] = Without(job.copy, job.member)]
    BY DEF UpdateMembers
  <1>4. /\ job.op = "join" => <<"member", job.name, job.member>> \in Gain(job)
        /\ job.op = "leave" => <<"member", job.name, job.member>> \in Lose(job)
    BY LoseCases DEF Gain
  <1> HIDE DEF job
  <1>5. Lawful(job)
    BY <1>1, <1>2, <1>3, <1>4, MembersLawful
  <1> QED
    BY <1>5 DEF job

(* Removing an object whose every fact the job takes away.                  *)
LEMMA RemoveLawful ==
    ASSUME IInv, NEW job, NEW n \in Objects, Says(n, objects[n]) \subseteq Lose(job),
           objects' = [objects EXCEPT ![n] = None]
    PROVE  Lawful(job)
  BY SaysCases, ReplaceLawful

(* What is stored under the name of a role binding somebody means by it.    *)
LEMMA StoredMeant ==
    ASSUME IInv, NEW b \in Bindings, objects[b] # None
    PROVE  objects[b].spec \in Meant[b]
  <1>1. b \in Objects
    BY DEF Objects
  <1>2. objects[b].spec \in Grant
    BY <1>1, IInvFacts, StoredFits DEF Fits
  <1>3. <<b, objects[b].spec>> \in Makers
    BY IInvFacts DEF BindingsHold
  <1> QED
    BY <1>2, <1>3, MeantFacts

LEMMA DetachLawful ==
    ASSUME IInv, NEW h \in Handlers, DetachBinding(h)
    PROVE  Lawful(handler[h].job)
  <1> DEFINE job == handler[h].job
             n == job.name
  <1>1. job \in Job /\ JobOK(job) /\ NamedJob(job) /\ job.op = "detach"
    BY IInvFacts DEF DetachBinding, Writing
  <1>2. n \in Bindings /\ n \in Objects
    BY <1>1 DEF JobOK, Objects
  <1>3. Lose(job) = {"grant"} \X Meant[n]
    BY <1>1, LoseCases
  <1>4. objects[n] # None => objects[n].spec \in Meant[n]
    BY <1>2, StoredMeant
  <1>5. Says(n, objects[n]) \subseteq Lose(job)
    BY <1>2, <1>3, <1>4, SaysCases
  <1>6. objects' = [objects EXCEPT ![n] = None]
    BY DEF DetachBinding
  <1> HIDE DEF n, job
  <1>7. Lawful(job)
    BY <1>2, <1>5, <1>6, RemoveLawful
  <1> QED
    BY <1>7 DEF job

(* A deletion takes away what mentions its object, and every grant meant by *)
(* a name that may mean one.                                                *)
LEMMA DeletionLoses ==
    ASSUME NEW job, job.op = "delete"
    PROVE  /\ \A a \in Accounts : a = job.name => <<"account", a>> \in Lose(job)
           /\ \A g \in Groups, u \in Users : job.name \in {g, u} => <<"member", g, u>> \in Lose(job)
           /\ \A r \in Roles, p \in Policy : r = job.name => <<"policy", r, p>> \in Lose(job)
           /\ \A b \in MeantFor(job.name) :
                 \A grant \in Meant[b] : <<"grant", grant>> \in Lose(job)
  <1>1. Lose(job) = ({"grant"} \X UNION {Meant[b] : b \in MeantFor(job.name)})
            \cup {f \in AccountFacts : f[2] = job.name}
            \cup {f \in MemberFacts : job.name \in {f[2], f[3]}}
            \cup {f \in PolicyFacts : f[2] = job.name}
    BY LoseCases
  <1>2. \A a \in Accounts : a = job.name => <<"account", a>> \in Lose(job)
    BY <1>1 DEF AccountFacts
  <1>3. \A g \in Groups, u \in Users : job.name \in {g, u} => <<"member", g, u>> \in Lose(job)
    BY <1>1 DEF MemberFacts
  <1>4. \A r \in Roles, p \in Policy : r = job.name => <<"policy", r, p>> \in Lose(job)
    BY <1>1 DEF PolicyFacts
  <1>5. \A b \in MeantFor(job.name) : \A grant \in Meant[b] : <<"grant", grant>> \in Lose(job)
    BY <1>1
  <1> QED
    BY <1>2, <1>3, <1>4, <1>5

LEMMA DeleteLawful ==
    ASSUME IInv, NEW h \in Handlers, DeleteObject(h)
    PROVE  Lawful(handler[h].job)
  <1> DEFINE job == handler[h].job
             n == job.name
             old == objects[n]
  <1>1. job \in Job /\ JobOK(job) /\ job.op = "delete"
    BY IInvFacts DEF DeleteObject, Writing
  <1>2. n \in Objects /\ n \in Accounts \cup Roles
    BY <1>1 DEF JobOK, Job
  <1>3. old # None => old \in Object /\ Fits(n, old.spec)
    BY <1>2, IInvFacts, StoredFits
  <1>4. objects' = [objects EXCEPT ![n] = None]
    BY DEF DeleteObject
  <1>5. Says(n, old) \subseteq Lose(job)
    <2>1. CASE old = None
      BY <2>1, SaysCases
    <2>2. CASE old # None /\ n \in Users
      <3>1. <<"account", n>> \in Lose(job)
        BY <1>1, <2>2, DeletionLoses DEF Accounts
      <3> QED
        BY <2>2, <3>1, SaysCases
    <2>3. CASE old # None /\ n \in Groups
      <3>1. old.spec.users \subseteq Users
        BY <1>3, <2>3 DEF Fits, GroupSpec
      <3> QED
        BY <1>1, <2>3, <3>1, SaysCases, DeletionLoses DEF Accounts
    <2>4. CASE old # None /\ n \in Roles
      <3>1. old.spec.policies \subseteq Policy
        BY <1>3, <2>4 DEF Fits, RoleSpec
      <3> QED
        BY <1>1, <2>4, <3>1, SaysCases, DeletionLoses
    <2> QED
      BY <1>2, <2>1, <2>2, <2>3, <2>4 DEF Accounts
  <1> HIDE DEF old, n, job
  <1>6. Lawful(job)
    BY <1>2, <1>4, <1>5, RemoveLawful DEF old
  <1> QED
    BY <1>6 DEF job

(* The cascade takes the deleted user out of a group ...                    *)
LEMMA LeaveLawful ==
    ASSUME IInv, NEW h \in Handlers, NEW c \in handler[h].copies, LeaveGroup(h, c)
    PROVE  Lawful(handler[h].job)
  <1> DEFINE job == handler[h].job
             u == job.name
  <1>1. /\ handler[h] \in HandlerState /\ HandlerOK(handler[h])
        /\ handler[h].pc = "leave"
    BY IInvFacts DEF LeaveGroup
  <1>2. job.op = "delete" /\ u \in Users
    BY <1>1 DEF HandlerOK
  <1>3. c.name \in Groups /\ c.copy \in Object /\ c.copy.spec \in GroupSpec
    BY <1>1 DEF HandlerState, HandlerOK
  <1>4. <<"member", c.name, u>> \in Lose(job)
    BY <1>2, <1>3, DeletionLoses
  <1>5. \/ objects' = objects
        \/ /\ SameVersion(objects[c.name], c.copy)
           /\ objects' = [objects EXCEPT ![c.name] = Without(c.copy, u)]
    BY DEF LeaveGroup
  <1> HIDE DEF u, job
  <1>6. Lawful(job)
    BY <1>2, <1>3, <1>4, <1>5, KeepLawful, MembersLawful
  <1> QED
    BY <1>6 DEF job

(* ... and deletes a binding, by name, that some older list gave it.        *)
LEMMA RevokeLawful ==
    ASSUME IInv, NEW h \in Handlers, NEW b \in handler[h].todo, RevokeBinding(h, b)
    PROVE  Lawful(handler[h].job)
  <1> DEFINE job == handler[h].job
  <1>1. /\ handler[h] \in HandlerState /\ HandlerOK(handler[h])
        /\ handler[h].pc = "revoke"
    BY IInvFacts DEF RevokeBinding
  <1>2. job.op = "delete" /\ b \in Bindings /\ b \in Objects
    BY <1>1 DEF HandlerOK, HandlerState, Objects
  <1>3. b \in MeantFor(job.name)
    BY <1>2 DEF IInv, CascadesConcern
  <1>4. objects[b] # None => objects[b].spec \in Meant[b]
    BY <1>2, StoredMeant
  <1>5. Says(b, objects[b]) \subseteq Lose(job)
    BY <1>2, <1>3, <1>4, SaysCases, DeletionLoses
  <1>6. objects' = objects \/ objects' = [objects EXCEPT ![b] = None]
    BY DEF RevokeBinding
  <1> HIDE DEF job
  <1>7. Lawful(job)
    BY <1>2, <1>5, <1>6, KeepLawful, RemoveLawful
  <1> QED
    BY <1>7 DEF job

-----------------------------------------------------------------------------
(* Where a step leaves its handler: done, or further on with the same job.  *)
Moves(h, st) ==
    /\ st \in HandlerState /\ HandlerOK(st)
    /\ st = Idle \/ (handler[h].pc # "idle" /\ st.pc # "idle" /\ st.job = handler[h].job)
    /\ \A b \in st.todo : b \in MeantFor(st.job.name)
    /\ handler' = [handler EXCEPT ![h] = st]

LEMMA AnswerMoves == ASSUME NEW h, Answer(h) PROVE Moves(h, Idle)
  <1>1. Idle.todo = {}
    BY DEF Idle
  <1> QED
    BY <1>1, IdleType DEF Moves, Answer

(* A deletion that goes on to its cascade.                                  *)
LEMMA DeleteMoves ==
    ASSUME IInv, NEW h \in Handlers, DeleteObject(h)
    PROVE  \E st : Moves(h, st)
  <1> DEFINE st == [handler[h] EXCEPT !.pc = IF handler[h].job.name \in Users
                                             THEN "groups" ELSE "leave"]
  <1>1. handler[h] \in HandlerState /\ HandlerOK(handler[h]) /\ handler[h].pc = "write"
        /\ handler[h].job.op = "delete"
    BY IInvFacts DEF DeleteObject, Writing
  <1>2. handler' = [handler EXCEPT ![h] = st]
    BY DEF DeleteObject
  <1>3. st \in HandlerState /\ st.job = handler[h].job /\ st.copies = handler[h].copies
        /\ st.todo = handler[h].todo
        /\ st.pc = IF handler[h].job.name \in Users THEN "groups" ELSE "leave"
    BY <1>1 DEF HandlerState
  <1>4. handler[h].copies = {} /\ handler[h].todo = {}
    BY <1>1 DEF HandlerOK
  <1> HIDE DEF st
  <1>5. HandlerOK(st)
    BY <1>1, <1>3, <1>4 DEF HandlerOK
  <1>6. Moves(h, st)
    BY <1>1, <1>2, <1>3, <1>4, <1>5 DEF Moves
  <1> QED
    BY <1>6

(* Listing the groups of a deleted user, and leaving one.                   *)
LEMMA GroupsMoves ==
    ASSUME IInv, NEW h \in Handlers,
           ListGroups(h) \/ \E c \in handler[h].copies : LeaveGroup(h, c)
    PROVE  \E st : Moves(h, st)
  <1>1. handler[h] \in HandlerState /\ HandlerOK(handler[h]) /\ handler[h].pc \in {"groups", "leave"}
    BY IInvFacts DEF ListGroups, LeaveGroup
  <1>2. PICK copies : /\ handler' = [handler EXCEPT ![h] =
                                       [handler[h] EXCEPT !.pc = "leave", !.copies = copies]]
                      /\ copies \in SUBSET [name: Groups, copy: Object]
                      /\ \A c \in copies : c.copy.spec \in GroupSpec
                      /\ copies # {} => handler[h].job.name \in Users
    <2>1. CASE ListGroups(h)
      <3>1. h \in Processes
        BY DEF Processes
      <3> DEFINE held == GroupsHolding(h, handler[h].job.name)
      <3>2. \A g \in Known(h, Groups) : seen[h][g] \in Object /\ seen[h][g].spec \in GroupSpec
        BY <3>1, IInvFacts, StoredFits DEF Known, Fits, Objects, Accounts
      <3>3. held \in SUBSET [name: Groups, copy: Object] /\ \A c \in held : c.copy.spec \in GroupSpec
        BY <3>2 DEF GroupsHolding, Known
      <3>4. handler[h].job.name \in Users
        BY <1>1, <2>1 DEF ListGroups, HandlerOK
      <3>5. PICK copies \in {held, {}} :
                handler' = [handler EXCEPT ![h].pc = "leave", ![h].copies = copies]
        BY <2>1 DEF ListGroups
      <3>6. handler' = [handler EXCEPT ![h] = [handler[h] EXCEPT !.pc = "leave", !.copies = copies]]
        BY <3>5, <1>1 DEF IInv, TypeOK, HandlersOK
      <3> HIDE DEF held
      <3> QED
        BY <3>3, <3>4, <3>5, <3>6
    <2>2. CASE \E c \in handler[h].copies : LeaveGroup(h, c)
      <3>1. PICK c \in handler[h].copies : LeaveGroup(h, c)
        BY <2>2
      <3>2. handler' = [handler EXCEPT ![h] =
                          [handler[h] EXCEPT !.pc = "leave", !.copies = handler[h].copies \ {c}]]
        BY <1>1, <3>1 DEF LeaveGroup, HandlerState
      <3>3. handler[h].job.name \in Users
        BY <1>1, <3>1 DEF HandlerOK
      <3>4. /\ handler[h].copies \in SUBSET [name: Groups, copy: Object]
            /\ \A k \in handler[h].copies : k.copy.spec \in GroupSpec
        BY <1>1 DEF HandlerState, HandlerOK
      <3> QED
        BY <3>2, <3>3, <3>4
    <2> QED
      BY <2>1, <2>2
  <1> DEFINE st == [handler[h] EXCEPT !.pc = "leave", !.copies = copies]
  <1>3. st \in HandlerState /\ st.pc = "leave" /\ st.job = handler[h].job
        /\ st.copies = copies /\ st.todo = handler[h].todo
    BY <1>1, <1>2 DEF HandlerState
  <1>4. handler[h].todo = {} /\ handler[h].job.op = "delete" /\ handler[h].job # None
        /\ JobOK(handler[h].job)
    BY <1>1 DEF HandlerOK
  <1> HIDE DEF st
  <1>5. HandlerOK(st)
    BY <1>2, <1>3, <1>4 DEF HandlerOK
  <1>6. Moves(h, st)
    BY <1>1, <1>2, <1>3, <1>4, <1>5 DEF Moves, st
  <1> QED
    BY <1>6

(* Listing the bindings that concern the object, and deleting one.          *)
LEMMA BindingsMoves ==
    ASSUME IInv, NEW h \in Handlers,
           ListBindings(h) \/ \E b \in handler[h].todo : RevokeBinding(h, b)
    PROVE  \E st : Moves(h, st)
  <1>1. handler[h] \in HandlerState /\ HandlerOK(handler[h]) /\ handler[h].pc \in {"leave", "revoke"}
    BY IInvFacts DEF ListBindings, RevokeBinding
  <1> DEFINE n == handler[h].job.name
  <1>2. PICK todo : /\ handler' = [handler EXCEPT ![h] =
                                     [handler[h] EXCEPT !.pc = "revoke", !.todo = todo]]
                    /\ todo \in SUBSET Bindings
                    /\ \A b \in todo : b \in MeantFor(n)
                    /\ handler[h].copies = {}
    <2>1. CASE ListBindings(h)
      <3>1. h \in Processes
        BY DEF Processes
      <3> DEFINE listed == {b \in Known(h, Bindings) : Concerns(seen[h][b].spec, n)}
      <3>2. \A b \in listed : b \in Bindings /\ b \in MeantFor(n)
        <4>1. \A b \in Known(h, Bindings) : <<b, seen[h][b].spec>> \in Makers
          BY <3>1, IInvFacts DEF Known, BindingsHold
        <4>2. \A b \in Known(h, Bindings) : b \in Bindings /\ seen[h][b].spec \in Grant
          BY <3>1, IInvFacts, StoredFits DEF Known, Fits, Objects
        <4>3. \A b \in Known(h, Bindings) : seen[h][b].spec \in Meant[b]
          BY <4>1, <4>2, MeantFacts
        <4>4. \A grant : Concerns(grant, n) => Mentions(grant, n)
          BY DEF Concerns, Mentions
        <4> QED
          BY <4>2, <4>3, <4>4, MeantFacts
      <3>3. PICK todo \in {listed, {}} :
                handler' = [handler EXCEPT ![h].pc = "revoke", ![h].todo = todo]
        BY <2>1 DEF ListBindings
      <3>4. handler' = [handler EXCEPT ![h] = [handler[h] EXCEPT !.pc = "revoke", !.todo = todo]]
        BY <3>3, <1>1 DEF IInv, TypeOK, HandlersOK
      <3>5. handler[h].copies = {}
        BY <2>1 DEF ListBindings
      <3> HIDE DEF listed
      <3> QED
        BY <3>2, <3>3, <3>4, <3>5
    <2>2. CASE \E b \in handler[h].todo : RevokeBinding(h, b)
      <3>1. PICK b \in handler[h].todo : RevokeBinding(h, b)
        BY <2>2
      <3>2. handler' = [handler EXCEPT ![h] =
                          [handler[h] EXCEPT !.pc = "revoke", !.todo = handler[h].todo \ {b}]]
        BY <1>1, <3>1 DEF RevokeBinding, HandlerState
      <3>3. handler[h].todo \in SUBSET Bindings /\ handler[h].pc = "revoke"
        BY <1>1, <3>1 DEF HandlerState, RevokeBinding
      <3>4. handler[h].copies = {}
        BY <1>1, <3>3 DEF HandlerOK
      <3>5. \A k \in handler[h].todo : k \in MeantFor(n)
        BY DEF IInv, CascadesConcern
      <3> QED
        BY <3>2, <3>3, <3>4, <3>5
    <2> QED
      BY <2>1, <2>2
  <1> DEFINE st == [handler[h] EXCEPT !.pc = "revoke", !.todo = todo]
  <1>3. st \in HandlerState /\ st.pc = "revoke" /\ st.job = handler[h].job
        /\ st.copies = handler[h].copies /\ st.todo = todo
    BY <1>1, <1>2 DEF HandlerState
  <1>4. handler[h].job # None /\ JobOK(handler[h].job) /\ handler[h].job.op = "delete"
    <2>1. handler[h].pc # "idle"
      BY <1>1
    <2> QED
      BY <1>1, <2>1 DEF HandlerOK
  <1> HIDE DEF st
  <1> HIDE DEF n
  <1>5. HandlerOK(st)
    <2>1. st.copies = {} /\ handler[h].copies = {}
      BY <1>2, <1>3
    <2> QED
      BY <1>3, <1>4, <2>1 DEF HandlerOK
  <1>6. Moves(h, st)
    BY <1>1, <1>2, <1>3, <1>5 DEF Moves, st, n
  <1> QED
    BY <1>6

(* What a serving step does: a lawful write, if any, and the handler moves. *)
LEMMA ServeMoves ==
    ASSUME IInv, NEW h \in Handlers, Serve(h)
    PROVE  /\ (handler[h].pc # "idle" /\ Lawful(handler[h].job)) \/ objects' = objects
           /\ \E st : Moves(h, st)
           /\ seen' = seen \/ seen' = [seen EXCEPT ![h] = objects]
           /\ UNCHANGED <<queue, inputs>>
  <1>1. ASSUME WriteCreates(h) \/ WriteReplaces(h) \/ UpdateMembers(h) \/ DetachBinding(h)
        PROVE  /\ handler[h].pc # "idle" /\ Lawful(handler[h].job) /\ Answer(h)
               /\ UNCHANGED <<seen, queue, inputs>>
    BY <1>1, CreateLawful, OverwriteLawful, UpdateLawful, DetachLawful
       DEF WriteCreates, WriteReplaces, UpdateMembers, DetachBinding, Writing
  <1>2. CASE WriteCreates(h) \/ WriteReplaces(h) \/ UpdateMembers(h) \/ DetachBinding(h)
    BY <1>1, <1>2, AnswerMoves
  <1>3. CASE DeleteObject(h)
    <2>1. handler[h].pc # "idle" /\ UNCHANGED <<seen, queue, inputs>>
      BY <1>3 DEF DeleteObject, Writing
    <2> QED
      BY <1>3, <2>1, DeleteLawful, DeleteMoves
  <1>4. CASE ListGroups(h)
    <2>1. UNCHANGED <<objects, seen, queue, inputs>>
      BY <1>4 DEF ListGroups
    <2> QED
      BY <1>4, <2>1, GroupsMoves
  <1>5. CASE \E c \in handler[h].copies : LeaveGroup(h, c)
    <2>1. PICK c \in handler[h].copies : LeaveGroup(h, c)
      BY <1>5
    <2>2. handler[h].pc # "idle" /\ UNCHANGED <<seen, queue, inputs>>
      BY <2>1 DEF LeaveGroup
    <2> QED
      BY <1>5, <2>1, <2>2, LeaveLawful, GroupsMoves
  <1>6. CASE ListBindings(h)
    <2>1. UNCHANGED <<objects, seen, queue, inputs>>
      BY <1>6 DEF ListBindings
    <2> QED
      BY <1>6, <2>1, BindingsMoves
  <1>7. CASE \E b \in handler[h].todo : RevokeBinding(h, b)
    <2>1. PICK b \in handler[h].todo : RevokeBinding(h, b)
      BY <1>7
    <2>2. handler[h].pc # "idle" /\ UNCHANGED <<seen, queue, inputs>>
      BY <2>1 DEF RevokeBinding
    <2> QED
      BY <1>7, <2>1, <2>2, RevokeLawful, BindingsMoves
  <1>8. CASE WriteFails(h) \/ Finish(h)
    <2>1. Answer(h) /\ UNCHANGED <<objects, seen, queue, inputs>>
      BY <1>8 DEF WriteFails, Finish
    <2> QED
      BY <2>1, AnswerMoves
  <1>9. CASE HandlerRestart(h)
    <2>1. Answer(h) /\ seen' = [seen EXCEPT ![h] = objects] /\ UNCHANGED <<objects, queue, inputs>>
      BY <1>9 DEF HandlerRestart
    <2> QED
      BY <2>1, AnswerMoves
  <1> QED
    BY <1>2, <1>3, <1>4, <1>5, <1>6, <1>7, <1>8, <1>9 DEF Serve

-----------------------------------------------------------------------------
(* The inductive invariant.                                                 *)

(* The initial directories have well-formed objects.                        *)
LEMMA InitIInv == Init => IInv
  <1> SUFFICES ASSUME Init PROVE IInv
    OBVIOUS
  <1>1. IsDirectory(objects) /\ BindingsHold(objects)
    BY InputsAssumption, MakersFacts DEF Init, BindingsHold
  <1>2. objects \in [Objects -> Object \cup {None}]
    BY <1>1 DEF IsDirectory
  <1>3. seen \in [Processes -> [Objects -> Object \cup {None}]]
        /\ \A p \in Processes : seen[p] = objects
    BY <1>2 DEF Init
  <1>4. /\ \A h \in Handlers : handler[h] = Idle
        /\ handler \in [Handlers -> HandlerState]
    BY IdleType DEF Init
  <1>5. HandlersOK
    BY <1>4, IdleType DEF HandlersOK
  <1>6. TypeOK
    BY <1>1, <1>3, <1>5 DEF TypeOK, Init, Stored
  <1>7. NamesHold
    BY <1>1, <1>3, <1>4 DEF NamesHold, BindingsHold, Stored, Idle
  <1>8. CascadesConcern
    BY <1>4 DEF CascadesConcern, Idle
  <1>9. inputs <= MaxInputs
    BY InputsAssumption DEF Init
  <1> QED
    BY <1>6, <1>7, <1>8, <1>9 DEF IInv

(* What a step must leave well formed for the invariant to hold after it.   *)
ViewsOK(views) ==
    /\ views \in [Processes -> [Objects -> Object \cup {None}]]
    /\ \A p \in Processes : IsDirectory(views[p]) /\ BindingsHold(views[p])
CascadeOK(st) ==
    /\ HandlerOK(st) /\ (st.job # None => NamedJob(st.job))
    /\ \A b \in st.todo : b \in MeantFor(st.job.name)

LEMMA IInvParts ==
    IInv <=> /\ IsDirectory(objects) /\ BindingsHold(objects)
             /\ ViewsOK(seen)
             /\ handler \in [Handlers -> HandlerState]
             /\ \A h \in Handlers : CascadeOK(handler[h])
             /\ queue \in SUBSET Objects
             /\ inputs \in Nat /\ inputs <= MaxInputs
  BY DEF IInv, TypeOK, NamesHold, CascadesConcern, HandlersOK, ViewsOK, CascadeOK,
         BindingsHold, Stored, NamedJob

LEMMA IInvAfter ==
    ASSUME IsDirectory(objects'), BindingsHold(objects'), ViewsOK(seen'),
           handler' \in [Handlers -> HandlerState],
           \A h \in Handlers : CascadeOK(handler'[h]),
           queue' \in SUBSET Objects, inputs' \in Nat, inputs' <= MaxInputs
    PROVE  IInv'
  BY DEF IInv, TypeOK, NamesHold, CascadesConcern, HandlersOK, ViewsOK, CascadeOK,
         HandlerOK, JobOK, Fits, BindingsHold, Stored, NamedJob, IsDirectory

(* Caches are refilled, in part or at once, from the directory.             *)
LEMMA ViewsSync ==
    ASSUME IInv, NEW p \in Processes,
           \/ \E n \in Objects : seen' = [seen EXCEPT ![p][n] = objects[n]]
           \/ seen' = [seen EXCEPT ![p] = objects]
           \/ seen' = seen
    PROVE  ViewsOK(seen')
  <1>1. /\ IsDirectory(objects) /\ BindingsHold(objects) /\ ViewsOK(seen)
    BY IInvParts
  <1>2. objects \in [Objects -> Object \cup {None}]
    BY <1>1 DEF IsDirectory
  <1>3. CASE seen' = [seen EXCEPT ![p] = objects]
    <2>1. \A q \in Processes : seen'[q] = IF q = p THEN objects ELSE seen[q]
      BY <1>1, <1>3 DEF ViewsOK
    <2> QED
      BY <1>1, <1>2, <1>3, <2>1 DEF ViewsOK
  <1>4. ASSUME NEW n \in Objects, seen' = [seen EXCEPT ![p][n] = objects[n]]
        PROVE  ViewsOK(seen')
    <2> DEFINE d == [seen[p] EXCEPT ![n] = objects[n]]
    <2>1. seen' = [seen EXCEPT ![p] = d]
      BY <1>1, <1>4 DEF ViewsOK
    <2>2. d \in [Objects -> Object \cup {None}] /\ \A k \in Objects : d[k] \in {seen[p][k], objects[k]}
      BY <1>1, <1>2 DEF ViewsOK
    <2>3. IsDirectory(d) /\ BindingsHold(d)
      BY <1>1, <2>2 DEF IsDirectory, BindingsHold, ViewsOK, Objects
    <2> HIDE DEF d
    <2>4. \A q \in Processes : seen'[q] = IF q = p THEN d ELSE seen[q]
      BY <1>1, <2>1 DEF ViewsOK
    <2> QED
      BY <1>1, <2>1, <2>2, <2>3, <2>4 DEF ViewsOK
  <1> QED
    BY <1>1, <1>3, <1>4

(* A handler that moves keeps all handlers well formed.                     *)
LEMMA MovesKeep ==
    ASSUME IInv, NEW h \in Handlers, NEW st, Moves(h, st)
    PROVE  handler' \in [Handlers -> HandlerState] /\ \A k \in Handlers : CascadeOK(handler'[k])
  <1>1. handler \in [Handlers -> HandlerState] /\ \A k \in Handlers : CascadeOK(handler[k])
    BY IInvParts
  <1>2. CascadeOK(st)
    <2>1. CASE st = Idle
      BY <2>1, IdleType DEF CascadeOK, Idle
    <2>2. CASE st.job = handler[h].job
      BY <1>1, <2>2 DEF CascadeOK, Moves
    <2> QED
      BY <2>1, <2>2 DEF Moves
  <1>3. \A k \in Handlers : handler'[k] = IF k = h THEN st ELSE handler[k]
    BY <1>1 DEF Moves
  <1> QED
    BY <1>1, <1>2, <1>3 DEF Moves

(* No step of a handler breaks the invariant, nor asks for what cannot be.  *)
LEMMA ServeIInv ==
    ASSUME IInv, NEW h \in Handlers, Serve(h)
    PROVE  IInv'
  <1>1. IsDirectory(objects') /\ BindingsHold(objects')
    BY ServeMoves, KeepLawful DEF Lawful
  <1>2. handler' \in [Handlers -> HandlerState] /\ \A k \in Handlers : CascadeOK(handler'[k])
    BY ServeMoves, MovesKeep
  <1>3. ViewsOK(seen')
    <2>1. h \in Processes
      BY DEF Processes
    <2> QED
      BY <2>1, ServeMoves, ViewsSync
  <1>4. UNCHANGED <<queue, inputs>>
    BY ServeMoves
  <1> QED
    BY <1>1, <1>2, <1>3, <1>4, IInvParts, IInvAfter

(* An accepted request has its handler take up the job it comes down to.    *)
LEMMA AcceptIInv ==
    ASSUME IInv, NEW h \in Handlers, NEW req, NEW job \in Job, JobOK(job), NamedJob(job),
           Accept(h, req, job)
    PROVE  /\ handler[h].pc = "idle" /\ handler'[h].pc # "idle" /\ handler'[h].job = job
           /\ \A k \in Handlers : k # h => handler'[k] = handler[k]
           /\ IInv'
  <1> DEFINE st == [Idle EXCEPT !.pc = "write", !.job = job]
  <1>1. st \in HandlerState /\ st.pc = "write" /\ st.job = job /\ st.copies = {} /\ st.todo = {}
    BY DEF Idle, HandlerState
  <1>2. job # None
    BY NoneAssumption
  <1>3. CascadeOK(st)
    BY <1>1, <1>2 DEF HandlerOK, CascadeOK
  <1>4. handler' = [handler EXCEPT ![h] = st] /\ UNCHANGED <<objects, seen, queue>>
    BY DEF Accept
  <1>5. handler[h].pc = "idle"
    BY DEF Accept, Idle
  <1>6. inputs' \in Nat /\ inputs' <= MaxInputs
    BY InputsAssumption, IInvParts DEF Accept, Input
  <1> HIDE DEF st
  <1>7. \A k \in Handlers : handler'[k] = IF k = h THEN st ELSE handler[k]
    BY <1>4, IInvParts
  <1>8. handler' \in [Handlers -> HandlerState] /\ \A k \in Handlers : CascadeOK(handler'[k])
    BY <1>1, <1>3, <1>4, <1>7, IInvParts
  <1>9. IInv'
    BY <1>4, <1>6, <1>8, IInvParts, IInvAfter
  <1> QED
    BY <1>1, <1>5, <1>7, <1>9

(* What the operator and the watch events change is no fact.                *)
LEMMA ReconcileIInv ==
    ASSUME IInv, NEW p \in Operators, NEW n \in Objects, Reconcile(p, n)
    PROVE  Facts' = Facts /\ IInv'
  <1> DEFINE o == [objects[n] EXCEPT !.ready = Condition(p, n), !.current = TRUE]
  <1>1. objects[n] \in Object /\ Fits(n, objects[n].spec) /\ objects[n] # None
    BY IInvParts, StoredFits DEF Reconcile, SameVersion
  <1>2. /\ objects' = [objects EXCEPT ![n] = o]
        /\ queue' = queue \ {n} /\ UNCHANGED <<seen, handler, inputs>>
    BY DEF Reconcile
  <1>3. o \in Object /\ o.spec = objects[n].spec
    BY <1>1 DEF Object, Condition
  <1> HIDE DEF o
  <1>4. o # None
    BY <1>3, ObjectPresent
  <1>5. Says(n, o) = Says(n, objects[n])
    BY <1>1, <1>3, <1>4 DEF Says
  <1>6. IsDirectory(objects) /\ BindingsHold(objects) /\ objects \in [Objects -> Object \cup {None}]
    BY IInvParts DEF IsDirectory
  <1>7. Facts' = Facts
    BY <1>2, <1>5, <1>6, FactsChange
  <1>8. IsDirectory(objects')
    BY <1>1, <1>2, <1>3, <1>6, StoreType
  <1>9. BindingsHold(objects')
    BY <1>1, <1>2, <1>3, <1>6 DEF BindingsHold, Objects
  <1>10. IInv'
    BY <1>2, <1>8, <1>9, IInvParts, IInvAfter
  <1> QED
    BY <1>7, <1>10

LEMMA OperatorIInv ==
    ASSUME IInv, OperatorStep
    PROVE  Facts' = Facts /\ UNCHANGED <<handler, inputs>> /\ IInv'
  <1>1. PICK p \in Operators :
            \/ \E n \in Objects : ReconcileGone(p, n) \/ Reconcile(p, n) \/ Resync(p, n)
            \/ OperatorRestart(p)
    BY DEF OperatorStep
  <1>2. CASE \E n \in Objects : Reconcile(p, n)
    <2>1. PICK n \in Objects : Reconcile(p, n)
      BY <1>2
    <2>2. UNCHANGED <<handler, inputs>>
      BY <2>1 DEF Reconcile
    <2> QED
      BY <2>1, <2>2, ReconcileIInv
  <1>3. CASE (\E n \in Objects : ReconcileGone(p, n) \/ Resync(p, n)) \/ OperatorRestart(p)
    <2>1. /\ UNCHANGED <<objects, handler, inputs>> /\ queue' \in SUBSET Objects
          /\ seen' = seen \/ seen' = [seen EXCEPT ![p] = objects]
      BY <1>3, IInvParts DEF ReconcileGone, Resync, OperatorRestart, Stored
    <2>2. ViewsOK(seen')
      BY <2>1, ViewsSync DEF Processes
    <2>3. Facts' = Facts
      BY <2>1 DEF Facts, FactsIn
    <2>4. IInv'
      BY <2>1, <2>2, IInvParts, IInvAfter
    <2> QED
      BY <2>1, <2>3, <2>4
  <1> QED
    BY <1>1, <1>2, <1>3

LEMMA WatchIInv ==
    ASSUME IInv, WatchStep
    PROVE  Facts' = Facts /\ UNCHANGED <<handler, inputs>> /\ IInv'
  <1>1. PICK p \in Processes, n \in Objects : Sync(p, n)
    BY DEF WatchStep
  <1>2. /\ UNCHANGED <<objects, handler, inputs>> /\ queue' \in SUBSET Objects
        /\ seen' = [seen EXCEPT ![p][n] = objects[n]]
    BY <1>1, IInvParts DEF Sync
  <1>3. ViewsOK(seen')
    BY <1>2, ViewsSync
  <1>4. Facts' = Facts
    BY <1>2 DEF Facts, FactsIn
  <1>5. IInv'
    BY <1>2, <1>3, IInvParts, IInvAfter
  <1> QED
    BY <1>2, <1>4, <1>5

(* kubectl stores well-formed objects, and bindings of its own grants.      *)
LEMMA EnvironmentIInv ==
    ASSUME IInv, EnvironmentStep
    PROVE  inputs' = inputs + 1 /\ UNCHANGED handler /\ IInv'
  <1>1. /\ IsDirectory(objects) /\ BindingsHold(objects)
        /\ objects \in [Objects -> Object \cup {None}]
    BY IInvParts DEF IsDirectory
  <1>2. PICK n \in Objects, o \in Object \cup {None} :
            /\ o # None => Fits(n, o.spec)
            /\ o # None /\ n \in Bindings => <<n, o.spec>> \in Makers
            /\ objects' = [objects EXCEPT ![n] = o]
            /\ Input /\ UNCHANGED <<seen, queue, handler>>
    <2>1. ASSUME NEW m \in Manifests, Apply(m)
          PROVE  \E n \in Objects, o \in Object \cup {None} :
                    /\ o # None => Fits(n, o.spec)
                    /\ o # None /\ n \in Bindings => <<n, o.spec>> \in Makers
                    /\ objects' = [objects EXCEPT ![n] = o]
                    /\ Input /\ UNCHANGED <<seen, queue, handler>>
      <3>1. m.name \in Objects /\ Fits(m.name, m.spec)
        BY InputsAssumption DEF Manifest
      <3>2. m.name \in Bindings => <<m.name, m.spec>> \in Makers
        BY MakersFacts
      <3>3. New(m.spec) \in Object /\ New(m.spec).spec = m.spec
        BY <3>1, NewType
      <3>4. objects[m.name] # None =>
                /\ Respecified(objects[m.name], m.spec) \in Object
                /\ Respecified(objects[m.name], m.spec).spec = m.spec
        BY <1>1, <3>1, StoredFits, RespecifiedType
      <3>5. PICK o \in {New(m.spec), Respecified(objects[m.name], m.spec)} :
                /\ o \in Object /\ o.spec = m.spec
                /\ objects' = [objects EXCEPT ![m.name] = o]
        <4>1. CASE objects[m.name] = None
          BY <2>1, <3>3, <4>1 DEF Apply
        <4>2. CASE objects[m.name] # None
          BY <2>1, <3>4, <4>2 DEF Apply
        <4> QED
          BY <4>1, <4>2
      <3>6. Input /\ UNCHANGED <<seen, queue, handler>>
        BY <2>1 DEF Apply
      <3> QED
        BY <3>1, <3>2, <3>5, <3>6
    <2>2. ASSUME NEW n \in Removable, Remove(n)
          PROVE  n \in Objects /\ objects' = [objects EXCEPT ![n] = None]
                 /\ Input /\ UNCHANGED <<seen, queue, handler>>
      BY <2>2, InputsAssumption DEF Remove
    <2> QED
      BY <2>1, <2>2 DEF EnvironmentStep
  <1>3. IsDirectory(objects')
    BY <1>1, <1>2, StoreType
  <1>4. BindingsHold(objects')
    BY <1>1, <1>2 DEF BindingsHold, Objects
  <1>5. inputs' = inputs + 1 /\ inputs' \in Nat /\ inputs' <= MaxInputs
    BY <1>2, InputsAssumption, IInvParts DEF Input
  <1>6. IInv'
    BY <1>2, <1>3, <1>4, <1>5, IInvParts, IInvAfter
  <1> QED
    BY <1>2, <1>5, <1>6

(* Every step preserves the invariant.                                      *)
LEMMA NextIInv == IInv /\ [Next]_vars => IInv'
  <1> SUFFICES ASSUME IInv, [Next]_vars PROVE IInv'
    OBVIOUS
  <1>1. CASE HandlerStep
    <2>1. PICK h \in Handlers : Serve(h) \/ \E req \in Requests : Receive(h, req)
      BY <1>1 DEF HandlerStep
    <2>2. ASSUME NEW req \in Requests, Receive(h, req) PROVE IInv'
      <3>1. PICK job \in Job : JobOK(job) /\ NamedJob(job) /\ Accept(h, req, job)
        BY <2>2, ReceiveType DEF IInv
      <3> QED
        BY <3>1, AcceptIInv
    <2> QED
      BY <2>1, <2>2, ServeIInv
  <1>2. CASE OperatorStep
    BY <1>2, OperatorIInv
  <1>3. CASE WatchStep
    BY <1>3, WatchIInv
  <1>4. CASE EnvironmentStep
    BY <1>4, EnvironmentIInv
  <1>5. CASE UNCHANGED vars
    BY <1>5, IInvParts, IInvAfter DEF vars
  <1> QED
    BY <1>1, <1>2, <1>3, <1>4, <1>5 DEF Next

(* In every reachable state the variables are well formed, every role       *)
(* binding, stored, cached or about to be put, grants what somebody means   *)
(* by its name, and a cascade holds only names that somebody means for the  *)
(* object it deletes.                                                       *)
THEOREM IInvHolds == Spec => []IInv
  BY InitIInv, NextIInv, PTL DEF Spec

(* What the Go types promise of the stored objects holds at every step.     *)
THEOREM TypeCorrect == Spec => []TypeOK
  <1>1. IInv => TypeOK
    BY DEF IInv
  <1> QED
    BY <1>1, IInvHolds, PTL

-----------------------------------------------------------------------------
(* The refinement.                                                          *)

(* What a handler is asked for.                                             *)
LEMMA AskedValue ==
    /\ Asked = [h \in Handlers |-> Asked[h]]
    /\ \A h \in Handlers :
          /\ handler[h].pc = "idle" => Asked[h] = Promised!Nothing
          /\ handler[h].pc # "idle" =>
                Asked[h] = [gain |-> Gain(handler[h].job), lose |-> Lose(handler[h].job)]
  BY DEF Asked, Promised!Nothing

LEMMA AskedAfter ==
    /\ Asked' = [h \in Handlers |-> Asked'[h]]
    /\ \A h \in Handlers :
          /\ handler'[h].pc = "idle" => Asked'[h] = Promised!Nothing
          /\ handler'[h].pc # "idle" =>
                Asked'[h] = [gain |-> Gain(handler'[h].job), lose |-> Lose(handler'[h].job)]
  BY DEF Asked, Promised!Nothing, Gain, Lose, GrantsLost

(* At the start nothing is asked for.                                       *)
LEMMA InitPromised == Init => Promised!Init
  <1> SUFFICES ASSUME Init PROVE Promised!Init
    OBVIOUS
  <1>1. Facts \subseteq AllFacts
    BY InitIInv, FactsType DEF IInv
  <1>2. \A h \in Handlers : handler[h].pc = "idle"
    BY DEF Init, Idle
  <1>3. Asked = [h \in Handlers |-> Promised!Nothing]
    BY <1>2 DEF Asked, Promised!Nothing
  <1> QED
    BY <1>1, <1>3 DEF Promised!Init, Init

(* A request that is accepted asks, once.                                   *)
LEMMA ReceivePromised ==
    ASSUME IInv, NEW h \in Handlers, NEW req \in Requests, Receive(h, req)
    PROVE  Promised!Ask(h)
  <1>1. PICK job \in Job : JobOK(job) /\ NamedJob(job) /\ Accept(h, req, job)
    BY ReceiveType DEF IInv
  <1>2. /\ handler[h].pc = "idle" /\ handler'[h].pc # "idle" /\ handler'[h].job = job
        /\ \A k \in Handlers : k # h => handler'[k] = handler[k]
    BY <1>1, AcceptIInv
  <1>3. Facts' = Facts /\ inputs' = inputs + 1
    BY <1>1 DEF Accept, Input, Facts, FactsIn
  <1>4. Asked[h] = Promised!Nothing
    BY <1>2, AskedValue
  <1>5. Asked'[h] \in Promised!Order
    BY <1>1, <1>2, AskedAfter, OrderType DEF Promised!Order
  <1>6. \A k \in Handlers : k # h => Asked'[k] = Asked[k]
    BY <1>2, AskedValue, AskedAfter
  <1>7. Asked' = [Asked EXCEPT ![h] = Asked'[h]]
    BY <1>6, AskedValue, AskedAfter
  <1> QED
    BY <1>3, <1>4, <1>5, <1>7 DEF Promised!Ask

(* Serving it changes only what it asks for, until it is answered.          *)
LEMMA ServePromised ==
    ASSUME IInv, NEW h \in Handlers, Serve(h)
    PROVE  Promised!Serve(h)
  <1>1. Facts' \ Facts \subseteq Asked[h].gain /\ Facts \ Facts' \subseteq Asked[h].lose
    <2>1. CASE objects' = objects
      BY <2>1 DEF Facts, FactsIn
    <2>2. CASE handler[h].pc # "idle" /\ Lawful(handler[h].job)
      <3>1. Asked[h] = [gain |-> Gain(handler[h].job), lose |-> Lose(handler[h].job)]
        BY <2>2, AskedValue
      <3> QED
        BY <2>2, <3>1 DEF Lawful
    <2> QED
      BY <2>1, <2>2, ServeMoves
  <1>2. PICK st : Moves(h, st)
    BY ServeMoves
  <1>3. \A k \in Handlers : handler'[k] = IF k = h THEN st ELSE handler[k]
    BY <1>2, IInvParts DEF Moves
  <1>4. \A k \in Handlers : k # h => Asked'[k] = Asked[k]
    BY <1>3, AskedValue, AskedAfter
  <1>5. Asked'[h] \in {Asked[h], Promised!Nothing}
    <2>1. CASE st = Idle
      BY <1>3, <2>1, AskedAfter DEF Idle
    <2>2. CASE handler[h].pc # "idle" /\ st.pc # "idle" /\ st.job = handler[h].job
      BY <1>3, <2>2, AskedValue, AskedAfter
    <2> QED
      BY <1>2, <2>1, <2>2 DEF Moves
  <1>6. Asked' \in {Asked, [Asked EXCEPT ![h] = Promised!Nothing]}
    BY <1>4, <1>5, AskedValue, AskedAfter
  <1>7. inputs' = inputs
    BY ServeMoves
  <1> QED
    BY <1>1, <1>6, <1>7 DEF Promised!Serve

(* Operator and watch events change nothing that is promised; kubectl       *)
(* commands.                                                                *)
LEMMA NextPromised ==
    IInv /\ [Next]_vars => Promised!Next \/ UNCHANGED <<Facts, Asked, inputs>>
  <1> SUFFICES ASSUME IInv, [Next]_vars
               PROVE  Promised!Next \/ UNCHANGED <<Facts, Asked, inputs>>
    OBVIOUS
  <1>1. handler' = handler => Asked' = Asked
    BY DEF Asked, Gain, Lose, GrantsLost
  <1>2. CASE HandlerStep
    <2>1. PICK h \in Handlers : Serve(h) \/ \E req \in Requests : Receive(h, req)
      BY <1>2 DEF HandlerStep
    <2> QED
      BY <2>1, ReceivePromised, ServePromised DEF Promised!Next
  <1>3. CASE OperatorStep
    BY <1>1, <1>3, OperatorIInv
  <1>4. CASE WatchStep
    BY <1>1, <1>4, WatchIInv
  <1>5. CASE EnvironmentStep
    <2>1. Facts' \subseteq AllFacts
      <3>1. TypeOK'
        BY <1>5, EnvironmentIInv DEF IInv
      <3>2. IsDirectory(objects')
        BY <3>1 DEF TypeOK, IsDirectory, Fits
      <3>3. \A n \in Objects : Says(n, objects'[n]) \subseteq AllFacts
        BY <3>2, SaysType DEF IsDirectory
      <3> QED
        BY <3>3 DEF Facts, FactsIn, Says
    <2>2. inputs' = inputs + 1 /\ Asked' = Asked
      BY <1>1, <1>5, EnvironmentIInv
    <2> QED
      BY <2>1, <2>2 DEF Promised!Next, Promised!Command
  <1>6. CASE UNCHANGED vars
    BY <1>1, <1>6 DEF vars, Facts, FactsIn
  <1> QED
    BY <1>2, <1>3, <1>4, <1>5, <1>6 DEF Next

(* The directory implements Grants: a fact comes or goes only because       *)
(* kubectl says so or because a request in progress asks for it.            *)
THEOREM Implements == Spec => ImplementsGrants
  BY InitPromised, NextPromised, IInvHolds, PTL DEF Spec, ImplementsGrants, Promised!Spec

-----------------------------------------------------------------------------
(* Role bindings of which a name means one grant.                           *)

(* Which of them a step of a handler can change, by name: the one it puts   *)
(* or detaches, and the one its cascade deletes.                            *)
LEMMA ServeChanges ==
    ASSUME IInv, NEW h \in Handlers, Serve(h), NEW b \in Bindings, objects[b] # None
    PROVE  LET job == handler[h].job IN
           \/ objects'[b] = objects[b]
           \/ handler[h].pc # "idle" /\ b = job.name /\ job.op = "detach"
           \/ /\ handler[h].pc # "idle" /\ b = job.name /\ job.op = "put"
              /\ objects'[b] # None /\ objects'[b].spec = job.spec
           \/ /\ handler[h].pc # "idle" /\ job.op = "delete"
              /\ b \in MeantFor(job.name)
  <1> DEFINE job == handler[h].job
  <1>1. b \in Objects /\ b \notin Accounts \cup Roles /\ objects \in [Objects -> Object \cup {None}]
    BY IInvFacts, KindsAssumption DEF Objects, IsDirectory
  <1>2. ASSUME NEW n, NEW o, objects' = [objects EXCEPT ![n] = o], n # b
        PROVE  objects'[b] = objects[b]
    BY <1>1, <1>2
  <1>3. CASE WriteCreates(h)
    BY <1>2, <1>3 DEF WriteCreates
  <1>4. CASE WriteReplaces(h)
    <2>1. job \in Job /\ JobOK(job) /\ job.op = "put" /\ handler[h].pc # "idle"
      BY <1>4, IInvFacts DEF WriteReplaces, Writing
    <2>2. objects' = [objects EXCEPT ![job.name] = Respecified(seen[h][job.name], job.spec)]
          /\ seen[h][job.name] = objects[job.name]
      BY <1>4 DEF WriteReplaces, SameVersion
    <2>3. CASE job.name = b
      <3>1. objects[b] \in Object /\ Fits(b, job.spec)
        BY <1>1, <2>1, <2>3, IInvFacts, StoredFits DEF JobOK
      <3>2. Respecified(objects[b], job.spec) \in Object
            /\ Respecified(objects[b], job.spec).spec = job.spec
        BY <1>1, <3>1, RespecifiedType
      <3>3. objects'[b] = Respecified(objects[b], job.spec)
        BY <1>1, <2>2, <2>3
      <3> QED
        BY <2>1, <2>3, <3>2, <3>3, ObjectPresent
    <2> QED
      BY <1>2, <2>2, <2>3
  <1>5. CASE UpdateMembers(h)
    <2>1. job.name \in Groups
      BY <1>5, IInvFacts DEF UpdateMembers, Writing, JobOK
    <2> QED
      BY <1>1, <1>2, <1>5, <2>1 DEF UpdateMembers, Accounts
  <1>6. CASE DetachBinding(h)
    BY <1>2, <1>6 DEF DetachBinding, Writing
  <1>7. CASE DeleteObject(h)
    <2>1. job.name \in Accounts \cup Roles
      BY <1>7, IInvFacts DEF DeleteObject, Writing, JobOK
    <2> QED
      BY <1>1, <1>2, <1>7, <2>1 DEF DeleteObject
  <1>8. CASE \E c \in handler[h].copies : LeaveGroup(h, c)
    <2>1. PICK c \in handler[h].copies : LeaveGroup(h, c)
      BY <1>8
    <2>2. c.name \in Groups
      BY <2>1, IInvFacts DEF LeaveGroup, HandlerState
    <2> QED
      BY <1>1, <1>2, <2>1, <2>2 DEF LeaveGroup, Accounts
  <1>9. CASE \E k \in handler[h].todo : RevokeBinding(h, k)
    <2>1. PICK k \in handler[h].todo : RevokeBinding(h, k)
      BY <1>9
    <2>2. handler[h].pc # "idle" /\ job.op = "delete"
      BY <2>1, IInvFacts DEF RevokeBinding, HandlerOK
    <2>3. k \in MeantFor(job.name)
      BY <2>1 DEF IInv, CascadesConcern
    <2> QED
      BY <1>2, <2>1, <2>2, <2>3 DEF RevokeBinding
  <1>10. CASE \/ ListGroups(h) \/ ListBindings(h) \/ WriteFails(h)
              \/ Finish(h) \/ HandlerRestart(h)
    BY <1>10 DEF ListGroups, ListBindings, WriteFails, Finish, HandlerRestart
  <1> QED
    BY <1>3, <1>4, <1>5, <1>6, <1>7, <1>8, <1>9, <1>10 DEF Serve

LEMMA OwnTaken == IInv => TakesOwn
  <1> SUFFICES ASSUME IInv, NEW h \in Handlers, NEW b \in Stored(Bindings), Serve(h),
                      objects'[b] = None \/ objects'[b].spec # objects[b].spec,
                      Meant[b] = {objects[b].spec}
               PROVE  About(handler[h].job, objects[b].spec)
    BY DEF TakesOwn
  <1> DEFINE job == handler[h].job
  <1>1. b \in Bindings /\ objects[b] # None
    BY DEF Stored
  <1>2. ASSUME handler[h].pc # "idle", b = job.name, job.op \in {"put", "detach"}
        PROVE  job.spec = objects[b].spec
    <2>1. JobOK(job) /\ NamedJob(job)
      BY <1>2, IInvFacts
    <2>2. job.spec \in Grant /\ <<b, job.spec>> \in Makers
      BY <1>1, <1>2, <2>1 DEF JobOK, NamedJob, Fits
    <2> QED
      BY <1>1, <2>2, MeantFacts
  <1>3. CASE handler[h].pc # "idle" /\ b = job.name /\ job.op = "detach"
    BY <1>2, <1>3 DEF About
  <1>4. CASE job.op = "delete" /\ b \in MeantFor(job.name)
    <2>1. \E grant \in Meant[b] : Mentions(grant, job.name)
      BY <1>1, <1>4, MeantFacts
    <2> QED
      BY <1>4, <2>1 DEF About
  <1>5. ~ (/\ handler[h].pc # "idle" /\ b = job.name /\ job.op = "put"
           /\ objects'[b] # None /\ objects'[b].spec = job.spec)
    BY <1>2
  <1>6. objects'[b] # objects[b]
    BY <1>1
  <1> QED
    BY <1>1, <1>3, <1>4, <1>5, <1>6, ServeChanges

(* Where the name of a role binding means one grant, no request takes away  *)
(* another's: attaching leaves it, detaching and deleting take the grant    *)
(* they are for, from however old a list.                                   *)
THEOREM OwnGrantsHolds == Spec => OwnGrants
  <1>1. IInv /\ [Next]_vars => [TakesOwn]_vars
    BY OwnTaken
  <1> QED
    BY <1>1, IInvHolds, PTL DEF Spec, OwnGrants

-----------------------------------------------------------------------------
(* What a replica answers.                                                  *)

(* What the facts of one object are, read the other way round.              *)
LEMMA SaysWhat ==
    ASSUME NEW n \in Objects, NEW o
    PROVE  /\ \A m : <<"account", m>> \in Says(n, o) <=> o # None /\ n \in Accounts /\ m = n
           /\ \A m, u : <<"member", m, u>> \in Says(n, o) <=>
                 o # None /\ n \in Groups /\ m = n /\ u \in o.spec.users
           /\ \A m, p : <<"policy", m, p>> \in Says(n, o) <=>
                 o # None /\ n \in Roles /\ m = n /\ p \in o.spec.policies
           /\ \A g : <<"grant", g>> \in Says(n, o) <=> o # None /\ n \in Bindings /\ g = o.spec
  <1>1. CASE o = None
    BY <1>1, SaysCases
  <1>2. CASE o # None /\ n \in Users
    <2>1. Says(n, o) = {<<"account", n>>}
      BY <1>2, SaysCases
    <2>2. n \notin Groups \cup Roles \cup Bindings
      BY <1>2, KindsAssumption DEF Accounts
    <2> QED
      BY <1>2, <2>1, <2>2 DEF Accounts
  <1>3. CASE o # None /\ n \in Groups
    <2>1. Says(n, o) = {<<"account", n>>} \cup {<<"member", n, u>> : u \in o.spec.users}
      BY <1>3, SaysCases
    <2>2. n \notin Roles \cup Bindings
      BY <1>3, KindsAssumption DEF Accounts
    <2> QED
      BY <1>3, <2>1, <2>2 DEF Accounts
  <1>4. CASE o # None /\ n \in Roles
    <2>1. Says(n, o) = {<<"policy", n, p>> : p \in o.spec.policies}
      BY <1>4, SaysCases
    <2>2. n \notin Accounts \cup Bindings
      BY <1>4, KindsAssumption DEF Accounts
    <2> QED
      BY <1>4, <2>1, <2>2 DEF Accounts
  <1>5. CASE o # None /\ n \in Bindings
    <2>1. Says(n, o) = {<<"grant", o.spec>>}
      BY <1>5, SaysCases
    <2>2. n \notin Accounts \cup Roles
      BY <1>5, KindsAssumption DEF Accounts
    <2> QED
      BY <1>5, <2>1, <2>2 DEF Accounts
  <1>6. CASE n \in GCPolicies
    <2>1. Says(n, o) = {}
      BY <1>6, SaysCases
    <2>2. n \notin Accounts \cup Roles \cup Bindings
      BY <1>6, KindsAssumption DEF Accounts
    <2> QED
      BY <2>1, <2>2 DEF Accounts
  <1> QED
    BY <1>1, <1>2, <1>3, <1>4, <1>5, <1>6 DEF Objects, Accounts

(* And of a directory.                                                      *)
LEMMA FactsWhat ==
    ASSUME NEW d
    PROVE  /\ \A n \in Accounts : <<"account", n>> \in FactsIn(d) <=> d[n] # None
           /\ \A g, u : <<"member", g, u>> \in FactsIn(d) <=>
                 g \in Groups /\ d[g] # None /\ u \in d[g].spec.users
           /\ \A r, p : <<"policy", r, p>> \in FactsIn(d) <=>
                 r \in Roles /\ d[r] # None /\ p \in d[r].spec.policies
           /\ \A g : <<"grant", g>> \in FactsIn(d) <=>
                 \E b \in Bindings : d[b] # None /\ g = d[b].spec
  <1>1. \A f : f \in FactsIn(d) <=> \E n \in Objects : f \in Says(n, d[n])
    BY DEF FactsIn
  <1>2. Accounts \cup Roles \cup Bindings \subseteq Objects /\ Groups \subseteq Objects
    BY DEF Objects, Accounts
  <1>3. ASSUME NEW m \in Accounts
        PROVE  <<"account", m>> \in FactsIn(d) <=> d[m] # None
    <2>1. \A n \in Objects : <<"account", m>> \in Says(n, d[n]) <=>
             d[n] # None /\ n \in Accounts /\ m = n
      BY SaysWhat
    <2> QED
      BY <1>1, <1>2, <2>1
  <1>4. ASSUME NEW g, NEW u
        PROVE  <<"member", g, u>> \in FactsIn(d) <=>
                  g \in Groups /\ d[g] # None /\ u \in d[g].spec.users
    <2>1. \A n \in Objects : <<"member", g, u>> \in Says(n, d[n]) <=>
             d[n] # None /\ n \in Groups /\ g = n /\ u \in d[n].spec.users
      BY SaysWhat
    <2> QED
      BY <1>1, <1>2, <2>1
  <1>5. ASSUME NEW r, NEW p
        PROVE  <<"policy", r, p>> \in FactsIn(d) <=>
                  r \in Roles /\ d[r] # None /\ p \in d[r].spec.policies
    <2>1. \A n \in Objects : <<"policy", r, p>> \in Says(n, d[n]) <=>
             d[n] # None /\ n \in Roles /\ r = n /\ p \in d[n].spec.policies
      BY SaysWhat
    <2> QED
      BY <1>1, <1>2, <2>1
  <1>6. ASSUME NEW g
        PROVE  <<"grant", g>> \in FactsIn(d) <=>
                  \E b \in Bindings : d[b] # None /\ g = d[b].spec
    <2>1. \A n \in Objects : <<"grant", g>> \in Says(n, d[n]) <=>
             d[n] # None /\ n \in Bindings /\ g = d[n].spec
      BY SaysWhat
    <2> QED
      BY <1>1, <1>2, <2>1
  <1> QED
    BY <1>3, <1>4, <1>5, <1>6

(* What the walk over the role bindings of one subject collects.            *)
LEMMA SubjectPolicies ==
    ASSUME NEW h \in Handlers, NEW s, NEW x
    PROVE  x \in PoliciesForSubject(h, s) <=>
              \E b \in Bindings :
                 /\ seen[h][b] # None /\ seen[h][b].spec.subject = s
                 /\ seen[h][b].spec.role \in Roles /\ seen[h][seen[h][b].spec.role] # None
                 /\ \E p \in seen[h][seen[h][b].spec.role].spec.policies :
                       x = PolicyOf(p, seen[h][b].spec.repository)
  BY DEF PoliciesForSubject, Known

(* The walk over the user and its groups collects the user's rights.        *)
LEMMA RightsAgree ==
    ASSUME NEW h \in Handlers, IsDirectory(seen[h]), NEW u \in Users
    PROVE  EffectivePolicies(h, u) = Rights(FactsIn(seen[h]), u)
  <1> DEFINE d == seen[h]
             facts == FactsIn(d)
             Held(g) == /\ <<"grant", g>> \in facts
                        /\ g.subject = u \/ <<"member", g.subject, u>> \in facts
  <1>1. ASSUME NEW x
        PROVE  x \in Rights(facts, u) <=>
                  \E g \in Grant : Held(g) /\ \E p \in Policy :
                     <<"policy", g.role, p>> \in facts /\ x = PolicyOf(p, g.repository)
    <2> DEFINE Of(g) == {PolicyOf(p, g.repository) :
                            p \in {q \in Policy : <<"policy", g.role, q>> \in facts}}
    <2> HIDE DEF facts
    <2>1. Rights(facts, u) = UNION {Of(g) : g \in {k \in Grant : Held(k)}}
      BY DEF Rights
    <2>2. \A g : x \in Of(g) <=> \E p \in Policy :
             <<"policy", g.role, p>> \in facts /\ x = PolicyOf(p, g.repository)
      OBVIOUS
    <2> HIDE DEF Of, Held
    <2> QED
      BY <2>1, <2>2
  <1>2. ASSUME NEW x
        PROVE  x \in EffectivePolicies(h, u) <=>
                  \E s : /\ s = u \/ (s \in Groups /\ d[s] # None /\ u \in d[s].spec.users)
                         /\ x \in PoliciesForSubject(h, s)
    BY DEF EffectivePolicies, GroupsOf, Known
  <1>3. \A b \in Bindings : d[b] # None =>
           d[b].spec \in Grant /\ d[b].spec.role \in Roles /\ d[b].spec.subject \in Accounts
    BY DEF IsDirectory, Fits, Objects, Grant
  <1>4. \A r \in Roles : d[r] # None => d[r].spec.policies \subseteq Policy
    <2> SUFFICES ASSUME NEW r \in Roles, d[r] # None PROVE d[r].spec.policies \subseteq Policy
      OBVIOUS
    <2>1. d[r].spec \in RoleSpec
      BY DEF IsDirectory, Fits, Objects
    <2> QED
      BY <2>1 DEF RoleSpec
  <1>5. ASSUME NEW x, x \in EffectivePolicies(h, u)
        PROVE  x \in Rights(facts, u)
    <2>1. PICK s : /\ s = u \/ (s \in Groups /\ d[s] # None /\ u \in d[s].spec.users)
                   /\ x \in PoliciesForSubject(h, s)
      BY <1>2, <1>5
    <2>2. PICK b \in Bindings :
             /\ d[b] # None /\ d[b].spec.subject = s
             /\ d[b].spec.role \in Roles /\ d[d[b].spec.role] # None
             /\ \E p \in d[d[b].spec.role].spec.policies : x = PolicyOf(p, d[b].spec.repository)
      BY <2>1, SubjectPolicies
    <2> DEFINE g == d[b].spec
    <2>3. PICK p \in d[g.role].spec.policies : x = PolicyOf(p, g.repository)
      BY <2>2
    <2>4. <<"grant", g>> \in facts /\ <<"policy", g.role, p>> \in facts
      BY <2>2, <2>3, FactsWhat
    <2>5. s = u \/ <<"member", s, u>> \in facts
      BY <2>1, FactsWhat
    <2>6. g \in Grant /\ p \in Policy
      BY <1>3, <1>4, <2>2, <2>3
    <2>7. g.subject = s
      BY <2>2
    <2> HIDE DEF g, facts, d
    <2> QED
      BY <1>1, <2>3, <2>4, <2>5, <2>6, <2>7
  <1>6. ASSUME NEW x, x \in Rights(facts, u)
        PROVE  x \in EffectivePolicies(h, u)
    <2>1. PICK g \in Grant : Held(g) /\ \E p \in Policy :
             <<"policy", g.role, p>> \in facts /\ x = PolicyOf(p, g.repository)
      BY <1>1, <1>6
    <2>2. PICK p \in Policy : <<"policy", g.role, p>> \in facts /\ x = PolicyOf(p, g.repository)
      BY <2>1
    <2>3. PICK b \in Bindings : d[b] # None /\ g = d[b].spec
      BY <2>1, FactsWhat
    <2>4. g.role \in Roles /\ d[g.role] # None /\ p \in d[g.role].spec.policies
      BY <2>2, FactsWhat
    <2>5. g.subject = u \/ (g.subject \in Groups /\ d[g.subject] # None
                              /\ u \in d[g.subject].spec.users)
      BY <2>1, FactsWhat
    <2>6. x \in PoliciesForSubject(h, g.subject)
      BY <2>2, <2>3, <2>4, SubjectPolicies
    <2> QED
      BY <1>2, <2>5, <2>6
  <1> QED
    BY <1>5, <1>6

(* The list of a group's members that exist is the group's members.         *)
LEMMA MembersAgree ==
    ASSUME NEW h \in Handlers, IsDirectory(seen[h]), NEW g \in Groups
    PROVE  MembersOf(h, g) = Members(FactsIn(seen[h]), g)
  <1> DEFINE d == seen[h]
             facts == FactsIn(d)
  <1>1. d[g] # None => d[g].spec.users \subseteq Users
    <2> SUFFICES ASSUME d[g] # None PROVE d[g].spec.users \subseteq Users
      OBVIOUS
    <2>1. d[g].spec \in GroupSpec
      BY DEF IsDirectory, Fits, Objects, Accounts
    <2> QED
      BY <2>1 DEF GroupSpec
  <1>2. ASSUME NEW u \in Users
        PROVE  {<<"account", u>>, <<"account", g>>, <<"member", g, u>>} \subseteq facts <=>
                  d[u] # None /\ d[g] # None /\ u \in d[g].spec.users
    <2>1. <<"account", u>> \in facts <=> d[u] # None
      BY FactsWhat DEF Accounts
    <2>2. <<"account", g>> \in facts <=> d[g] # None
      BY FactsWhat DEF Accounts
    <2>3. <<"member", g, u>> \in facts <=> d[g] # None /\ u \in d[g].spec.users
      BY FactsWhat
    <2> HIDE DEF facts
    <2> QED
      BY <2>1, <2>2, <2>3
  <1> HIDE DEF facts
  <1> QED
    BY <1>1, <1>2 DEF MembersOf, Members, Known, facts

(* Every replica answers exactly what its caches say: a user's policies are *)
(* those granted to the user or its groups, a group's members those of its  *)
(* members that exist.                                                      *)
THEOREM AnswersAgreeHolds == Spec => []AnswersAgree
  <1>1. TypeOK => AnswersAgree
    BY RightsAgree, MembersAgree DEF TypeOK, AnswersAgree, Processes
  <1> QED
    BY <1>1, TypeCorrect, PTL

================================================================================
