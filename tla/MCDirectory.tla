------------------------------ MODULE MCDirectory ------------------------------
(***************************************************************************)
(* Instances of Directory for TLC: two users, a group, a role.  Users and   *)
(* groups are called by their lakeFS names, and the group by its object     *)
(* name too.                                                                *)
(***************************************************************************)
EXTENDS Directory, TLC

CONSTANTS u1, u2, g1, r1, c1, id1, id2, idg, b1, b2, bg, by, star, repo, p1, pr, x1, x2

(* The names of the role bindings that grant the role to the two users are  *)
(* equal once they are cut; "by" is a binding made by hand that grants what *)
(* "bg" does, at first.                                                     *)
GrantTo(s) == [subject |-> s, role |-> r1, repository |-> star]
CutBinding == [g \in Grant |-> IF g.subject \in Groups THEN bg ELSE b1]
Named == (b1 :> GrantTo(u1)) @@ (bg :> GrantTo(g1)) @@ (by :> GrantTo(g1))

QualifiedNames == [n \in Accounts |-> None]
UserNames == [id \in Ids |-> IF id = id1 THEN u1 ELSE CHOOSE u \in Users : TRUE]
GroupNames == [id \in Ids |-> g1]
RoleNames == [t \in Templates |-> r1]
SamePolicy == [x \in Templates \X Repositories |-> p1]

Text(x) == [name |-> p1, text |-> x]
User(id) == New([externalId |-> id])
Group(us) == New([externalId |-> idg, users |-> us])
Role(x) == New([policies |-> {Text(x)}])
Binding(b) == New(Named[b])
Only(some) == [n \in Objects |-> IF n \in DOMAIN some THEN some[n] ELSE None]

Blank == Only(<<>>)
Populated == Only((u1 :> User(id1)) @@ (u2 :> User(id2)) @@ (g1 :> Group({u1}))
                  @@ (r1 :> Role(x1)) @@ (b1 :> Binding(b1)) @@ (bg :> Binding(bg)))

Member(op, id) == [op |-> op, group |-> idg, user |-> id]
Attachment(op, id) == [op |-> op, subject |-> id, policy |-> p1, repository |-> star]

(* Every route that writes.                                                 *)
RightsRequests ==
    {Member("join", id2), Member("leave", id1), Member("leave", id2),
     Attachment("attachToUser", id2), Attachment("attachToGroup", g1),
     Attachment("detachFromUser", id1), Attachment("detachFromGroup", idg),
     [op |-> "createUser", username |-> id1, externalId |-> id1],
     [op |-> "deleteUser", user |-> id1],
     [op |-> "createGroup", group |-> idg],
     [op |-> "deleteGroup", group |-> idg],
     [op |-> "writePolicy", policy |-> Text(x2)],
     [op |-> "deletePolicy", policy |-> p1]}

(* A directory in order, or one with that binding in which a deletion       *)
(* stopped half-way: u1 is gone but still a member and granted the role.    *)
(* kubectl adds a binding of the group's, has it grant the role to u2       *)
(* instead, or makes u1 once more.                                          *)
RightsManifests ==
    {[name |-> by, spec |-> Named[by]], [name |-> by, spec |-> GrantTo(u2)],
     [name |-> u1, spec |-> User(id1).spec]}
RightsInstalled == {Populated, [Populated EXCEPT ![u1] = None, ![by] = Binding(by)]}
Symmetry == Permutations(Handlers)

(* One user, group, role and GC policy, which the operator has reconciled.  *)
(* The role's one policy is a template: p1 as granted to the group          *)
(* everywhere, pr in the repository in which the user may be granted it.    *)
ScopedBinding == [g \in Grant |->
    IF g.repository = star THEN IF g.subject = u1 THEN b1 ELSE bg
                           ELSE IF g.subject = u1 THEN b2 ELSE by]
ScopedPolicy == [x \in Templates \X Repositories |-> IF x[2] = star THEN p1 ELSE pr]

Settled(object) == [object EXCEPT !.ready = "Resolved", !.current = TRUE]
Small == Only((u1 :> Settled(User(id1))) @@ (g1 :> Settled(Group({u1})))
              @@ (r1 :> Settled(Role(x1))) @@ (bg :> Settled(Binding(bg)))
              @@ (c1 :> Settled(New([text |-> x1]))))
SettlingInstalled ==
    {Small, [Small EXCEPT ![u1] = None], [Small EXCEPT ![g1] = Settled(Group({}))]}
SettlingManifests == {[name |-> c1, spec |-> [text |-> x2]]}
SettlingRequests ==
    {Member("join", id1), Attachment("detachFromGroup", idg),
     [op |-> "attachToUser", subject |-> id1, policy |-> pr, repository |-> repo],
     [op |-> "writePolicy", policy |-> Text(x2)],
     [op |-> "createUser", username |-> id1, externalId |-> id1],
     [op |-> "deleteUser", user |-> id1],
     [op |-> "deletePolicy", policy |-> p1]}
================================================================================
