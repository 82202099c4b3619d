----------------------------- MODULE DirectoryServer -----------------------------
(***************************************************************************)
(* The auth server's handlers of users, groups, memberships, policies and   *)
(* their attachments.  A request is accepted when its ids resolve, in the   *)
(* handler's cache, to something to do; its writes follow one by one.  A    *)
(* request that ends before its first write (404, 204 for what is not       *)
(* there, 201 for what is there already) changes nothing: it is a           *)
(* stuttering step.                                                         *)
(***************************************************************************)
EXTENDS DirectoryObjects

(* resolveUser and resolveGroup: by external ID, or by qualified name, or   *)
(* by object name; the first match in the cache's order, which is arbitrary. *)
FirstMatch(byId, byQualified, byName) ==
    IF byId # {} THEN byId ELSE IF byQualified # {} THEN byQualified ELSE byName

Resolved(h, S, id, names) ==
    LET known == Known(h, S) IN
    FirstMatch({n \in known : seen[h][n].spec.externalId = id},
               {n \in known : Qualified[n] = id},
               known \cap names)

UsersFor(h, id) == Resolved(h, Users, id, {id})
GroupsFor(h, id) == Resolved(h, Groups, id, {id, GroupName[id]})

(* resolveRoleForPolicy: any role with a policy of that name, in a scope.   *)
RolesFor(h, policy, repository) ==
    {r \in Known(h, Roles) :
        \E p \in seen[h][r].spec.policies : Rendered[p.name, repository] = policy}

-----------------------------------------------------------------------------
(* Requests, up to the write they ask for.                                  *)

Accept(h, req, job) ==
    /\ req \in Requests
    /\ handler[h] = Idle
    /\ Input
    /\ handler' = [handler EXCEPT ![h] = [Idle EXCEPT !.pc = "write", !.job = job]]
    /\ UNCHANGED <<objects, seen, queue>>

ToWrite(op, n, spec) ==
    [op |-> op, name |-> n, spec |-> spec, member |-> None, copy |-> None]
ToDelete(n) == ToWrite("delete", n, None)
ToChange(op, h, g, u) ==
    [op |-> op, name |-> g, spec |-> None, member |-> u, copy |-> seen[h][g]]
ToBind(op, subject, role, repository) ==
    LET grant == [subject |-> subject, role |-> role, repository |-> repository] IN
    ToWrite(op, BindingName[grant], grant)

CreateUser(h, req) ==
    /\ req.op = "createUser"
    /\ UsersFor(h, req.externalId) = {}
    /\ Accept(h, req, ToWrite("create", UserName[req.username],
                              [externalId |-> req.externalId]))

DeleteUser(h, req) ==
    /\ req.op = "deleteUser"
    /\ \E u \in UsersFor(h, req.user) : Accept(h, req, ToDelete(u))

(* createGroup with ensureGroup.                                            *)
CreateGroup(h, req) ==
    /\ req.op = "createGroup"
    /\ GroupsFor(h, req.group) = {}
    /\ Accept(h, req, ToWrite("create", GroupName[req.group],
                              [externalId |-> req.group, users |-> {}]))

DeleteGroup(h, req) ==
    /\ req.op = "deleteGroup"
    /\ \E g \in GroupsFor(h, req.group) : Accept(h, req, ToDelete(g))

AddGroupMembership(h, req) ==
    /\ req.op = "join"
    /\ \E g \in GroupsFor(h, req.group), u \in UsersFor(h, req.user) :
          /\ u \notin seen[h][g].spec.users
          /\ Accept(h, req, ToChange("join", h, g, u))

RemoveGroupMembership(h, req) ==
    /\ req.op = "leave"
    /\ \E g \in GroupsFor(h, req.group), u \in UsersFor(h, req.user) :
          Accept(h, req, ToChange("leave", h, g, u))

AttachPolicyToUser(h, req) ==
    /\ req.op = "attachToUser"
    /\ \E u \in UsersFor(h, req.subject), r \in RolesFor(h, req.policy, req.repository) :
          Accept(h, req, ToBind("put", u, r, req.repository))

AttachPolicyToGroup(h, req) ==
    /\ req.op = "attachToGroup"
    /\ \E g \in GroupsFor(h, req.subject), r \in RolesFor(h, req.policy, req.repository) :
          Accept(h, req, ToBind("put", g, r, req.repository))

DetachPolicyFromUser(h, req) ==
    /\ req.op = "detachFromUser"
    /\ \E u \in UsersFor(h, req.subject), r \in RolesFor(h, req.policy, req.repository) :
          Accept(h, req, ToBind("detach", u, r, req.repository))

DetachPolicyFromGroup(h, req) ==
    /\ req.op = "detachFromGroup"
    /\ \E g \in GroupsFor(h, req.subject), r \in RolesFor(h, req.policy, req.repository) :
          Accept(h, req, ToBind("detach", g, r, req.repository))

(* createPolicy and updatePolicy: a role that holds this policy alone.      *)
RoleFromPolicy(policy) == [policies |-> {policy}]

WritePolicy(h, req) ==
    /\ req.op = "writePolicy"
    /\ Accept(h, req, ToWrite("put", RoleName[req.policy.name], RoleFromPolicy(req.policy)))

(* The whole role goes, whatever other policies it holds.                   *)
DeletePolicy(h, req) ==
    /\ req.op = "deletePolicy"
    /\ \E r \in RolesFor(h, req.policy, Everywhere) : Accept(h, req, ToDelete(r))

-----------------------------------------------------------------------------
(* The writes.                                                              *)

Answer(h) == handler' = [handler EXCEPT ![h] = Idle]
Writing(h, ops) == handler[h].pc = "write" /\ handler[h].job.op \in ops

WriteCreates(h) ==
    LET job == handler[h].job IN
    /\ Writing(h, {"create", "put"})
    /\ objects[job.name] = None
    /\ objects' = [objects EXCEPT ![job.name] = New(job.spec)]
    /\ Answer(h)
    /\ UNCHANGED <<seen, queue, inputs>>

(* AlreadyExists: the role or role binding is read, from the cache, and its *)
(* spec replaced.                                                           *)
WriteReplaces(h) ==
    LET job == handler[h].job IN
    /\ Writing(h, {"put"})
    /\ SameVersion(objects[job.name], seen[h][job.name])
    /\ objects' = [objects EXCEPT ![job.name] = Respecified(seen[h][job.name], job.spec)]
    /\ Answer(h)
    /\ UNCHANGED <<seen, queue, inputs>>

With(copy, u) == Respecified(copy, [copy.spec EXCEPT !.users = @ \cup {u}])
Without(copy, u) == Respecified(copy, [copy.spec EXCEPT !.users = @ \ {u}])

UpdateMembers(h) ==
    LET job == handler[h].job IN
    /\ Writing(h, {"join", "leave"})
    /\ SameVersion(objects[job.name], job.copy)
    /\ objects' = [objects EXCEPT ![job.name] =
          IF job.op = "join" THEN With(job.copy, job.member)
                             ELSE Without(job.copy, job.member)]
    /\ Answer(h)
    /\ UNCHANGED <<seen, queue, inputs>>

DetachBinding(h) ==
    /\ Writing(h, {"detach"})
    /\ objects' = [objects EXCEPT ![handler[h].job.name] = None]
    /\ Answer(h)
    /\ UNCHANGED <<seen, queue, inputs>>

(* deleteUser, deleteGroup, deletePolicy; NotFound counts as success.       *)
DeleteObject(h) ==
    LET n == handler[h].job.name IN
    /\ Writing(h, {"delete"})
    /\ objects' = [objects EXCEPT ![n] = None]
    /\ handler' = [handler EXCEPT ![h].pc = IF n \in Users THEN "groups" ELSE "leave"]
    /\ UNCHANGED <<seen, queue, inputs>>

(* AlreadyExists, a conflict, an object gone, or a call that fails.         *)
WriteFails(h) ==
    /\ handler[h].pc = "write"
    /\ Answer(h)
    /\ UNCHANGED <<objects, seen, queue, inputs>>

-----------------------------------------------------------------------------
(* The cascade after a deletion.  An error of a listing skips what the      *)
(* listing is for, an error of a write skips that object: both are dropped. *)

(* groupsForUser: copies of the groups that hold the user.                  *)
GroupsHolding(h, u) ==
    {[name |-> g, copy |-> seen[h][g]] :
        g \in {k \in Known(h, Groups) : u \in seen[h][k].spec.users}}

ListGroups(h) ==
    /\ handler[h].pc = "groups"
    /\ \E copies \in {GroupsHolding(h, handler[h].job.name), {}} :
          handler' = [handler EXCEPT ![h].pc = "leave", ![h].copies = copies]
    /\ UNCHANGED <<objects, seen, queue, inputs>>

(* removeUserFromGroups.                                                    *)
LeaveGroup(h, c) ==
    /\ handler[h].pc = "leave"
    /\ c \in handler[h].copies
    /\ handler' = [handler EXCEPT ![h].copies = @ \ {c}]
    /\ \/ objects' = objects
       \/ /\ SameVersion(objects[c.name], c.copy)
          /\ objects' = [objects EXCEPT ![c.name] = Without(c.copy, handler[h].job.name)]
    /\ UNCHANGED <<seen, queue, inputs>>

(* deleteRoleBindingsForSubject and deleteRoleBindingsForRole.              *)
AnyGrant(grant, n) == TRUE
Concerns(grant, n) == n \in {grant.subject, grant.role}

ListBindings(h) ==
    LET n == handler[h].job.name
        listed == {b \in Known(h, Bindings) : Concerns(seen[h][b].spec, n)}
    IN  /\ handler[h].pc = "leave"
        /\ handler[h].copies = {}
        /\ \E todo \in {listed, {}} :
              handler' = [handler EXCEPT ![h].pc = "revoke", ![h].todo = todo]
        /\ UNCHANGED <<objects, seen, queue, inputs>>

RevokeBinding(h, b) ==
    /\ handler[h].pc = "revoke"
    /\ b \in handler[h].todo
    /\ handler' = [handler EXCEPT ![h].todo = @ \ {b}]
    /\ objects' \in {objects, [objects EXCEPT ![b] = None]}
    /\ UNCHANGED <<seen, queue, inputs>>

Finish(h) ==
    /\ handler[h].pc = "revoke"
    /\ handler[h].todo = {}
    /\ Answer(h)
    /\ UNCHANGED <<objects, seen, queue, inputs>>

(* The replica restarts: the request is lost, its caches are filled anew.   *)
HandlerRestart(h) ==
    /\ Answer(h)
    /\ seen' = [seen EXCEPT ![h] = objects]
    /\ UNCHANGED <<objects, queue, inputs>>

-----------------------------------------------------------------------------
(* What a user is allowed and whom a group contains, as a replica answers.   *)

(* policiesFromRole: a policy and what its statements say in a scope.       *)
PolicyOf(p, repository) == <<Rendered[p.name, repository], p.text, repository>>

(* groupsForUser, as names.                                                 *)
NoGroups(h, u) == {}
GroupsOf(h, u) == {g \in Known(h, Groups) : u \in seen[h][g].spec.users}

(* effectivePoliciesForSubject, which is also what listGroupPolicies        *)
(* answers: a binding whose role is missing is skipped.                     *)
PoliciesForSubject(h, subject) ==
    UNION {{PolicyOf(p, seen[h][b].spec.repository) :
               p \in seen[h][seen[h][b].spec.role].spec.policies} :
           b \in {k \in Known(h, Bindings) : /\ seen[h][k].spec.subject = subject
                                             /\ seen[h][k].spec.role \in Known(h, Roles)}}

(* listUserPolicies.                                                        *)
EffectivePolicies(h, u) ==
    PoliciesForSubject(h, u)
        \cup UNION {PoliciesForSubject(h, g) : g \in GroupsOf(h, u)}

(* listGroupMembers: a member that does not exist is skipped.               *)
ListedMembers(h, g) == IF seen[h][g] = None THEN {} ELSE seen[h][g].spec.users
MembersOf(h, g) ==
    IF seen[h][g] = None THEN {} ELSE seen[h][g].spec.users \cap Known(h, Users)
================================================================================
