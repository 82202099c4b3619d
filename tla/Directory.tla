------------------------------- MODULE Directory -------------------------------
(***************************************************************************)
(* Auth server, operator and kubectl working on one directory of users,     *)
(* groups, roles and role bindings, and what holds of it.                   *)
(***************************************************************************)
EXTENDS DirectoryServer, DirectoryOperator

Receive(h, req) ==
    \/ CreateUser(h, req)
    \/ DeleteUser(h, req)
    \/ CreateGroup(h, req)
    \/ DeleteGroup(h, req)
    \/ AddGroupMembership(h, req)
    \/ RemoveGroupMembership(h, req)
    \/ AttachPolicyToUser(h, req)
    \/ AttachPolicyToGroup(h, req)
    \/ DetachPolicyFromUser(h, req)
    \/ DetachPolicyFromGroup(h, req)
    \/ WritePolicy(h, req)
    \/ DeletePolicy(h, req)

Serve(h) ==
    \/ WriteCreates(h)
    \/ WriteReplaces(h)
    \/ UpdateMembers(h)
    \/ DetachBinding(h)
    \/ DeleteObject(h)
    \/ WriteFails(h)
    \/ ListGroups(h)
    \/ \E c \in handler[h].copies : LeaveGroup(h, c)
    \/ ListBindings(h)
    \/ \E b \in handler[h].todo : RevokeBinding(h, b)
    \/ Finish(h)
    \/ HandlerRestart(h)

HandlerStep == \E h \in Handlers : Serve(h) \/ \E req \in Requests : Receive(h, req)

OperatorStep ==
    \E p \in Operators :
        \/ \E n \in Objects : ReconcileGone(p, n) \/ Reconcile(p, n) \/ Resync(p, n)
        \/ OperatorRestart(p)

WatchStep == \E p \in Processes, n \in Objects : Sync(p, n)

EnvironmentStep == (\E m \in Manifests : Apply(m)) \/ (\E n \in Removable : Remove(n))

Next == HandlerStep \/ OperatorStep \/ WatchStep \/ EnvironmentStep

Spec == Init /\ [][Next]_vars

(* Fairness.  Watch events arrive, resyncs come and the work queues are      *)
(* served: a status update that stays possible, its object queued and the   *)
(* cached copy the stored one, is made some day.                            *)
Fairness ==
    /\ \A p \in Processes, n \in Objects : WF_vars(Sync(p, n))
    /\ \A p \in Operators, n \in Objects :
          WF_vars(Resync(p, n)) /\ WF_vars(Reconcile(p, n))

LiveSpec == Spec /\ Fairness

-----------------------------------------------------------------------------
(* What the directory says, and what a request may change of it.            *)

AccountFacts == {"account"} \X Accounts
MemberFacts == {"member"} \X Groups \X Users
PolicyFacts == {"policy"} \X Roles \X Policy
GrantFacts == {"grant"} \X Grant
AllFacts == AccountFacts \cup MemberFacts \cup PolicyFacts \cup GrantFacts

Says(n, object) ==
    CASE object = None -> {}
      [] object # None /\ n \in Users -> {<<"account", n>>}
      [] object # None /\ n \in Groups ->
            {<<"account", n>>} \cup {<<"member", n, u>> : u \in object.spec.users}
      [] object # None /\ n \in Roles -> {<<"policy", n, p>> : p \in object.spec.policies}
      [] object # None /\ n \in Bindings -> {<<"grant", object.spec>>}
      [] OTHER -> {}

FactsIn(d) == UNION {Says(n, d[n]) : n \in Objects}
Facts == FactsIn(objects)

(* Whoever makes a role binding of some name means a grant by it: auth      *)
(* server, kubectl, the directory there was.  Nothing makes it one grant    *)
(* only.  roleBindingName joins names with "-" and cuts the result, so that *)
(* two grants can share a name, and kubectl may have a binding grant        *)
(* something else.                                                          *)
Makers ==
    {<<BindingName[grant], grant>> : grant \in Grant}
    \cup {<<m.name, m.spec>> : m \in {k \in Manifests : k.name \in Bindings}}
    \cup UNION {{<<b, d[b].spec>> : b \in {k \in Bindings : d[k] # None}} : d \in Installed}
Meant == [b \in Bindings |-> {grant \in Grant : <<b, grant>> \in Makers}]

Mentions(grant, n) == grant.subject = n \/ grant.role = n
MeantFor(n) == {b \in Bindings : \E grant \in Meant[b] : Mentions(grant, n)}

Gain(job) ==
    CASE job.op = "create" -> {<<"account", job.name>>}
      [] job.op = "join" -> {<<"member", job.name, job.member>>}
      [] job.op = "put" /\ job.name \in Roles ->
            {<<"policy", job.name, p>> : p \in job.spec.policies}
      [] job.op = "put" /\ job.name \in Bindings -> {<<"grant", job.spec>>}
      [] OTHER -> {}

(* A role binding is put, detached and revoked by its name, whatever it     *)
(* grants by then.  A deletion takes away what mentions the object, and the *)
(* bindings of the names meant for it.                                      *)
GrantsLost(job) ==
    CASE job.op = "put" /\ job.name \in Bindings -> Meant[job.name] \ {job.spec}
      [] job.op = "detach" -> Meant[job.name]
      [] job.op = "delete" -> UNION {Meant[b] : b \in MeantFor(job.name)}
      [] OTHER -> {}

Lose(job) ==
    ({"grant"} \X GrantsLost(job)) \cup
    CASE job.op = "leave" -> {<<"member", job.name, job.member>>}
      [] job.op = "put" /\ job.name \in Roles -> {"policy"} \X {job.name} \X Policy
      [] job.op = "delete" ->
            {f \in AccountFacts : f[2] = job.name}
            \cup {f \in MemberFacts : job.name \in {f[2], f[3]}}
            \cup {f \in PolicyFacts : f[2] = job.name}
      [] OTHER -> {}

Asked ==
    [h \in Handlers |->
        IF handler[h].pc = "idle" THEN [gain |-> {}, lose |-> {}]
        ELSE [gain |-> Gain(handler[h].job), lose |-> Lose(handler[h].job)]]

(* The directory implements Grants: of handlers that work from lagging      *)
(* copies, race with each other and stop half-way, none ever undoes the     *)
(* change of another, and a request takes away nothing but what it asks     *)
(* for, as far as the names of role bindings tell.                          *)
Promised == INSTANCE Grants WITH
    Facts <- AllFacts,
    Replicas <- Handlers, facts <- Facts, asked <- Asked

ImplementsGrants == Promised!Spec

(* And no further than that: what a request does to a role binding that was *)
(* put under its name by one of those who mean one grant by it is what the  *)
(* request is for.  Attaching changes no such binding, detaching takes away *)
(* the grant it names, a deletion what concerns the object that is gone,    *)
(* however old the list it works from.                                      *)
About(job, grant) ==
    \/ job.op = "detach" /\ job.spec = grant
    \/ job.op = "delete" /\ Mentions(grant, job.name)
TakesOwn ==
    \A h \in Handlers, b \in Stored(Bindings) :
        Serve(h) /\ (objects'[b] = None \/ objects'[b].spec # objects[b].spec) =>
            \/ About(handler[h].job, objects[b].spec)
            \/ Meant[b] # {objects[b].spec}
OwnGrants == [][TakesOwn]_vars

(* Why they hold.  What is stored, cached, to be put or to be detached      *)
(* under some name is a grant somebody means by it,                         *)
NamesHold ==
    /\ \A b \in Stored(Bindings) : <<b, objects[b].spec>> \in Makers
    /\ \A p \in Processes, b \in Bindings :
          seen[p][b] # None => <<b, seen[p][b].spec>> \in Makers
    /\ \A h \in Handlers : LET job == handler[h].job IN
          job # None /\ job.op \in {"put", "detach"} /\ job.name \in Bindings
                => <<job.name, job.spec>> \in Makers

(* and a cascade, which deletes by name what an older list named, has names *)
(* left that somebody means for the object that is gone.                    *)
CascadesConcern ==
    \A h \in Handlers : \A b \in handler[h].todo : b \in MeantFor(handler[h].job.name)

IInv == TypeOK /\ NamesHold /\ CascadesConcern /\ inputs <= MaxInputs

-----------------------------------------------------------------------------
(* What settles once changes cease.                                         *)

(* Reference definitions: a user's rights are the policies of the roles     *)
(* granted to the user or to a group that contains the user, a group's      *)
(* members the users that exist and belong to it.                           *)
Rights(facts, u) ==
    LET held == {g \in Grant : /\ <<"grant", g>> \in facts
                               /\ g.subject = u \/ <<"member", g.subject, u>> \in facts}
    IN  UNION {{PolicyOf(p, g.repository) :
                   p \in {q \in Policy : <<"policy", g.role, q>> \in facts}} : g \in held}
Members(facts, g) ==
    {u \in Users :
        {<<"account", u>>, <<"account", g>>, <<"member", g, u>>} \subseteq facts}

(* A replica answers what its caches say, no less and no more, however far  *)
(* they lag one behind the other: with role bindings whose role or subject  *)
(* is missing, members that do not exist, a policy granted twice.           *)
AnswersAgree ==
    \A h \in Handlers : LET facts == FactsIn(seen[h]) IN
        /\ \A u \in Users : EffectivePolicies(h, u) = Rights(facts, u)
        /\ \A g \in Groups : MembersOf(h, g) = Members(facts, g)

(* "When lakeFS asks for a user's policies, the auth server evaluates role  *)
(* bindings for the user and all groups that contain that user": once the   *)
(* directory is left alone, every replica serves each user exactly the      *)
(* rights the stored objects give, whichever order the caches of the four   *)
(* kinds caught up in.                                                      *)
RightsEventually ==
    \A h \in Handlers, u \in Users :
        <>[][FALSE]_objects => <>[](EffectivePolicies(h, u) = Rights(Facts, u))

(* And every replica lists as members of a group exactly the users that     *)
(* exist and belong to it, whichever of the two caches caught up first.     *)
MembersEventually ==
    \A h \in Handlers, g \in Groups :
        <>[][FALSE]_objects =>
            <>[](MembersOf(h, g) = Members(Facts, g))

(* The members of a group, or the role and the subject of a binding, exist. *)
Complete(n) ==
    objects[n] # None /\
    IF n \in Groups THEN objects[n].spec.users \subseteq Stored(Users)
                    ELSE {objects[n].spec.role, objects[n].spec.subject} \subseteq Stored(Objects)
Dangling(n) == objects[n] # None /\ ~Complete(n)
Reports(n, reason) ==
    objects[n] # None /\ objects[n].current /\ objects[n].ready = reason

(* The status of a group or role binding comes to say whether what it       *)
(* refers to exists, although its reconciler watches none of it.            *)
StatusEventually ==
    \A n \in Groups \cup Bindings :
        /\ <>[]Complete(n) => <>[]Reports(n, "Resolved")
        /\ <>[]Dangling(n) => <>[]Reports(n, "Unavailable")
================================================================================
