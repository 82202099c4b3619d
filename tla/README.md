# lakeFS OSS contrib: a TLA+ development

The repository holds two programs that give open-source lakeFS users, groups,
policies, credentials and managed repositories as Kubernetes objects:

- the **operator** (`cmd/operator`, `internal/controller`), one reconciler per
  kind of object, and
- the **auth server** (`cmd/authserver`, `internal/authserver`), an HTTP server
  that lakeFS calls and that reads and writes the same objects.

They never talk to each other. All they share is the Kubernetes API server,
and both *read* it through informer caches that lag behind it, while *writes*
go to it directly. Nearly everything that can go wrong comes from that: a step
is decided on old copies of several objects, and other processes (the other
program, further replicas, kubectl, the garbage collector) write in between.

The modules below model-check and prove properties of the three parts of this
system: credentials, which both programs write; managed repositories, which the
operator keeps in step between Kubernetes and lakeFS; and the directory of users,
groups, roles and role bindings from which lakeFS gets its members and policies.
Repositories share no object with the rest. Credentials and directory share the
LakeFSUsers, of which credentials only ask whether one of that name exists;
`deleteUser` is modelled in both, with the half of its cascade that each has.
They are checked with TLC and TLAPS:

    tlc -workers 2 -config MCCredentialsLifecycle.cfg MCCredentials
    tlc -workers 2 -config MCRepositoriesRivals.cfg MCRepositories
    tlc -workers 2 -config MCDirectoryRights.cfg MCDirectory
    tlapm CredentialsProofs.tla
    tlapm AccessProofs.tla
    tlapm RepositoriesProofs.tla
    tlapm Custody.tla
    tlapm CustodyProofs.tla
    tlapm ReadinessProofs.tla
    tlapm DirectoryProofs.tla

## Inventory

| Component | State | Operations | Talks to |
|---|---|---|---|
| Credential reconciler (`lakefscredential_controller.go`) | work queue; caches of users, credentials, Secrets | `Reconcile`, `ensureSecret`, status update | API server; triggered by LakeFSCredentials only |
| Auth server, credentials (`server.go`) | cache per replica; requests in progress | create, list, get, revoke; `deleteUser`'s cascade | lakeFS (HTTP), API server |
| Auth server, users/groups/policies/bindings (`server.go`) | same cache | create/delete user, group, policy; membership; attach/detach; effective policies | lakeFS, API server |
| Repository reconciler (`lakefsrepository_controller.go`) | finalizer, status, GC CronJob, default GC policy | ensure/delete repository, GC rules, CronJob | API server, lakeFS through `internal/lakefs/client.go` |
| GC policy, user, role, group, role-binding reconcilers | a Ready condition each | read, validate, write status | API server |
| Names and ids (`objectName`, `roleBindingName`, `gcCronJobName`, `compatibilityUserID`) | none | pure functions | the handlers above |
| API types, indexes, start-up, manifests, scripts | none at run time | | |

What is hard, and what makes each component correct:

- **Credentials.** Operator and auth server create and update the *same*
  Secret. The reconciler watches neither users nor Secrets, and no event marks
  an expiry. Correct means: a status that says Ready is backed by a Secret with
  a key; a key a client may be using is not replaced behind its back; a Secret
  belongs to one credential; a usable credential ends up Ready and served, an
  unusable one refused and reported Invalid.
- **Directory** (users, groups, policies, bindings). Look-ups go to a cache,
  writes follow; a membership is changed by writing back the whole group; the
  cascade after a deletion works through an old list and drops its errors;
  reconcilers do not watch what their objects refer to. Correct means: no
  request undoes what another one or kubectl did, and nobody gains or loses a
  right nobody asked to change; what lakeFS is told about members and policies
  and what the status says come to agree with the objects.
- **Repositories.** A finalizer, an external system without transactions, and
  policies that change independently. Correct means: what exists in lakeFS has
  a finalizer to delete it, Ready means provisioned, a user's policy is never
  replaced by the default one, deletion ends when lakeFS can be reached.

`PROJECT.json` lists each hazard at its line, with the properties that cover it
or the reason why none does.

## Modules

| Module | What it is |
|---|---|
| `CredentialObjects` | the LakeFSUsers, LakeFSCredentials and Secrets of one namespace; every process's cached view of them; watch events; kubectl, the garbage collector, the clock; constants, assumptions, `TypeOK`, `Init` |
| `CredentialOperator` | `LakeFSCredentialReconciler` |
| `CredentialServer` | the handlers of `POST /auth/users/{u}/credentials`, `DELETE .../credentials/{ak}`, `DELETE /auth/users/{u}` and what `GET` answers |
| `Access` | the abstract specification of who may get in: accounts, the access keys of users, and the keys a deletion clears away |
| `Credentials` | their composition `Spec`, with fairness `LiveSpec`, the refinement of `Access`, and the properties |
| `CredentialsProofs` | the theorems on the Secrets and on the Ready condition |
| `AccessProofs` | the theorems on the refinement of `Access`, on whose key is answered and on what is served |
| `MCCredentials`, `MCCredentials*.cfg` | instances for TLC |
| `RepositoryObjects` | the LakeFSRepositories, LakeFSGCPolicies and CronJobs of one namespace, the credentials Secret, the repositories in lakeFS; the operator's cached views; watch events; kubectl, hands in lakeFS, the garbage collector; constants, assumptions, `TypeOK`, `Init` |
| `RepositoryOperator` | `LakeFSRepositoryReconciler` and the lakeFS client it calls |
| `Custody` | the abstract specification of finalizers: claims on repositories, what is made and removed on their behalf; its promise `NoOrphans` and the proof of it |
| `Repositories` | their composition `Spec`, with fairness `LiveSpec`, the refinement of `Custody`, and the properties |
| `RepositoriesProofs` | the theorems on deletion and on what was made in lakeFS |
| `CustodyProofs` | the theorems on meant deletions and on the refinement of `Custody` |
| `ReadinessProofs` | the theorems on the Ready condition |
| `MCRepositories`, `MCRepositories*.cfg` | instances for TLC |
| `DirectoryObjects` | the LakeFSUsers, LakeFSGroups, LakeFSRoles, LakeFSRoleBindings and LakeFSGCPolicies of one namespace; every process's cached view of them; watch events; kubectl; constants, assumptions, `TypeOK`, `Init` |
| `DirectoryServer` | the handlers of users, groups, memberships, policies and their attachments, with the deletion cascades, and what effective policies and member lists they answer |
| `DirectoryOperator` | the reconcilers of the five kinds |
| `Grants` | the abstract specification: facts, and requests that ask for facts to come or go |
| `Directory` | their composition `Spec`, with fairness `LiveSpec`, the refinement of `Grants`, and the properties |
| `DirectoryProofs` | the theorems |
| `MCDirectory`, `MCDirectory*.cfg` | instances for TLC |

### How state and actions correspond to the code: credentials

**Views.** `seenUsers[p]`, `seenCreds[p]`, `seenSecrets[p]` are the informer
cache of process `p`, which is the operator or one handler (each handler stands
for a request served by some replica). `SyncUser`, `SyncCredential`,
`SyncSecret` bring one object of a view up to date, at any time and in any
order between objects. A view jumps to the object's current value: watch
events of one object may be compressed. What this leaves out is a cache
that reads one old version, and then another old version, of one object
around a single write.

**Steps.** A step ends at each write to the API server. The cached reads that
lead to the write are part of its step, which loses nothing since the views may
be as old as one likes at that moment. `Reconcile` is thus an `Ensure` step (up
to and including the write to the Secret, if any) and an `UpdateStatus` step
(the second read of the Secret, the condition, the status write). In between
`reconcile` holds the copy of the credential that `Reconcile` read.
`createUserCredential` is `CreateCredential`, `CreateCredentialExists` or
`CreateCredentialFails`, followed by one of `StoreSecret...` or `AwaitSecret`.

**Conflicts.** `Update` and `Status().Update` carry the resourceVersion of the
copy that was read. `SameVersion` lets them succeed only while the stored
object equals the copy; an object changed and changed back counts as unchanged,
which allows more behaviours than Kubernetes does. Every API call may also fail
without effect (`...Fails` actions).

**Lost answers** (a write that takes effect and whose answer is lost) are
covered by a restart right after the write.

**Data.** A Secret's `about` stands for `data.accessKeyId` and the two labels,
which the code always writes together; `key` for the secret access key; `owner`
for the controller reference. All credentials use the same data key.
A user's lakeFS name is its object name. `uid` is the number of the input that
created the object: unique for ever. Existing Secrets are created and deleted
by hand (`ApplySecret`, `LoseSecret`), never edited by hand.

**Left out here:** `deleteUser`'s effect on groups and role bindings (it is in
the directory modules), several namespaces, read-only endpoints other than the
credential look-up, wording of messages.

**Look-up.** `resolveCredential` lists the credentials of an access key and takes
the first, in the order of the index, which is arbitrary (`Found`). Two credentials
of one namespace may have one access key: only requests derive the name from the
key, manifests do not. `Answers` is therefore a set: what `getCredentialByAccessKey`
may answer from, with `None` for 404. Of two credentials with one key, one
that does not pass its checks can hide one that does.

### How state and actions correspond to the code: repositories

**Reconcile.** `reconcile` holds the copy of the object, and `pc` the next call:
`look` (GET in lakeFS), `create` (POST), `gc` (delete the CronJob, or read or
make the policy), `rules` (PUT), `job` (CreateOrUpdate of the CronJob),
`status`, and `unfinalize` for an object that is being deleted. A step ends at
each request to lakeFS and at each write to Kubernetes. There is one work queue
and one worker. A reconcile that returns an error before it has changed anything
leaves its name in the queue, so it is a stuttering step and has no action.
Failures after that are `CallFails` (the Ready condition says Unavailable) and
`UpdateFails` (the status or finalizer write failed, or its conflict).

**Versions.** `SameVersion` compares whole objects. A LakeFSRepository carries
`gen`, the number of the command that last changed its spec or marked it, so
that a spec changed and changed back is another version. `current` says that
`status.observedGeneration` is the generation.

**Watches.** The reconciler is woken by its objects, by the CronJobs they
control and by policies, the last through `repositoriesForPolicy` on the cached
list. Events of one object are compressed; therefore a policy or CronJob is
removed by hand only when the operator has seen it (`RemovePolicy`,
`RemoveJob`): one that came and went in between would cause events the model
does not have.

**lakeFS.** `lake[l].by` is the uid of the object whose reconcile created the
repository, 0 if somebody did by hand; `rules` is the policy the GC rules come
from. `MakeLake` and `LoseLake` are requests by others. A POST for a repository
that exists is a conflict, which the client takes for success; DELETE takes 404
for success; PUT fails for a repository that does not exist.

**Data.** A policy is a value; a CronJob is its controller, the repository in
its arguments and the policy it was made from. `local` says that the
credentials Secret is in the object's own namespace. Empty names and endpoints
are left out: the API server refuses an empty endpoint, and
`RepositoryName()` falls back to the object's name. The arguments of the Spark
job are not modelled.

**Left out here:** several namespaces, several endpoints, an answer that is lost
after the CronJob was written (it is covered by a restart at that point), objects
that carry other programs' finalizers, or are marked for deletion without ours
(`lakefsrepository_controller.go:55-57` returns at once): in the model an
object without our finalizer goes as soon as it is deleted.

### How state and actions correspond to the code: directory

**One directory.** `objects` maps every object name to the object or `None`;
`seen[p]` is the same of process `p`'s cache, where a process is a handler (a
request served by some replica) or the operator. As elsewhere `Sync` brings
any object of a view up to date at any time, so that the caches of the four
kinds may be of different moments. An object is its `spec`, the reason of its
Ready condition and whether `status.observedGeneration` is current; what its
spec says depends on its kind, which goes with its name (`Fits`).

**Requests.** `Requests` has one kind per route that writes. A request is
accepted in one step, which does the cached look-ups (`UsersFor`, `GroupsFor`,
`RolesFor`, which may find several matches and take any) and leaves a *job*: an
object to create, to put (create, or on AlreadyExists read it from the cache and
replace its spec), to delete or to detach, or a member to join or leave a group
of which the job holds the cached copy. A request that ends without a write
(404, a 201 or 204 with nothing to do) is a stuttering step. The next step is
the write; it may fail without effect (`WriteFails`), which is also what
happens on a conflict. After a deletion the cascade goes on with `ListGroups`,
`LeaveGroup` for each group listed (users only), `ListBindings`, `RevokeBinding`
for each binding listed, in any order. A listing that fails is an empty one; a
write that fails skips its object, as in the code. The listing of bindings by
role and by subject is one operator, `Concerns`: names of the kinds differ.
`HandlerRestart` loses a request between any two steps.

**Reconcilers.** `Reconcile` is one step: cached reads, the condition, and the
status write, which has to find the version that was read. That the reads
precede the write by some time makes no difference, since the view may be older
still. The five reconcilers differ only in `References`, what must exist for
Resolved: members for a group, role and subject for a role binding, nothing for
the others. A refused write leaves the name in the queue.

**Names.** The mappings from lakeFS names to object names are constant
functions (`UserName`, `GroupName`, `RoleName`, `BindingName`, `Rendered`), of
which nothing is assumed but their types. In particular a role binding's name does not
tell what it grants. `roleBindingName` (`server.go:1274`, `objectName` at 1446-1458)
joins its parts with "-", drops the scope "*" on the way and cuts the result at 63
characters; a role `lakefs-policy-read-x` granted everywhere and a role
`lakefs-policy-read` granted in `x` share a name. And kubectl may change what a
binding grants. Attaching then overwrites, and detaching and the cascades then delete,
whatever the name holds. `Makers` pairs the names of role bindings with the grants
that requests, manifests and the initial directory mean by them, `Meant[b]` is the
set of those grants for one name, and the properties say what holds for any such
relation. In `directory_rights` one name is shared by the bindings of two users and
another is re-pointed by kubectl; the third means one grant.

**Data.** A policy is the name of a template and a text, which stands for its
statements; `Rendered` gives the name it has in a scope. A GC policy is a text.
`Qualified` is the "namespace:name" form by which users and groups can be called.

**Left out here:** credentials of a deleted user (they are in the credential
modules), several namespaces, descriptions and display names, answers other
than the three that are read-only views worth a property. `EffectivePolicies` and
`MembersOf` read a view at one moment, while the handler lists bindings and gets roles
one after the other (`server.go:1150-1193`): an answer to which a watch event arrives half-way
mixes two moments of the cache. As the view of each object may be of any age, it
is an answer that some other view would give, unless a single object is read
twice with a change in between.

## Runs

Bounds: `MaxInputs` requests and kubectl commands per behaviour, `MaxLosses`
Secrets, or repositories in lakeFS, deleted by hand. Internal steps (cache updates, reconciles, restarts,
failures, garbage collection) are not bounded.

| Run | Instance | Shows |
|---|---|---|
| `credential_lifecycle` | one credential, one handler, 3 inputs of create (with either of two keys, or none), revoke, delete user | `TypeOK`, `ReadyIsBacked`, `ReadyIsServed`, `KeysStay`, the refinement `ImplementsAccess` |
| `credential_shared_secret` | two credentials on one Secret, blank hand-made Secrets, one loss, 3 inputs | the inductive invariant `IInv`, `KeysStay` |
| `credential_recreate` | one expiring credential under kubectl, 4 inputs, one loss, fairness | `ReadyEventually` |
| `credential_serve` | one handler, create and revoke, an expiring manifest, 2 inputs, fairness | `ServedEventually`, `InvalidEventually` |
| `credential_supplied_key` | two supplied keys, 3 inputs | *violation* of `HonorsProvidedSecret` |
| `credential_two_users` | two users, one access key, 2 inputs | *violation* of `AnswerNamesOwner` |
| `repository_provision` | one object with GC on and off and two policies, which are applied, changed and removed, 2 inputs, fairness | `TypeOK`, `ReadyIsProvisioned`, `NoLostWakeUp`, the inductive invariant `ReadyInv`, `ConvergedEventually` |
| `repository_rivals` | two objects that name one lakeFS repository, 3 inputs, two repositories lost | the inductive invariant `IInv`, `MadeIsGuarded`, `DeletionIsComplete`, `DeletionIsMeant`, the refinement `ImplementsCustody` |
| `repository_removal` | one object that changes between two lakeFS repositories, 3 inputs, fairness | `DeletedEventually` |
| `repository_shared_ready` | two objects that name one lakeFS repository, 3 inputs | *violation* of `ReadyRepositoryExists` |
| `directory_rights` | two users, a group, a role, three role bindings (one whose name two users' grants share, one of the group, one made by hand that grants what the group's does and that kubectl re-points to a user), two replicas, 13 requests that cover every writing route, kubectl, a whole or a half-deleted directory, 2 inputs | the inductive invariant `IInv`, `AnswersAgree`, the refinement `ImplementsGrants`, `OwnGrants` |
| `directory_settles` | one user, a group, a role with a policy template and two scopes, a GC policy, one replica and the operator, requests and kubectl, a whole directory, one without the user, one without the membership, 1 input, fairness | `AnswersAgree`, `RightsEventually`, `MembersEventually`, `StatusEventually` |

Why the bounds are enough: the shortest way into each hazard takes two or three
inputs (create, delete, create again; create and a rival create; two
credentials and a hand-made Secret), and a fourth only repeats one of them.
For repositories, three inputs are: create, delete, create again; create two and
delete one (`repository_rivals`); create, rename, delete (`repository_removal`).
`repository_provision` has two inputs, since its liveness property is out of
reach with three: it has every pair of commands on the object, its policies, its
CronJob, the Secret and lakeFS (create with GC and turn it off, create and change the
policy or remove the CronJob, or the other way round). Longer histories, such as
GC turned off and on again, rest on the theorems of `ReadinessProofs`. In `repository_rivals` specs do not change: that
`DeletionIsComplete` holds also of an object renamed while it is being deleted
is for the theorem `DeletionIsCompleteHolds` to say. Likewise `credential_lifecycle`
has one handler, one user and one access key: two replicas that replace one key
(`KeysStay`), a second user's keys (`ImplementsAccess`) and two credentials of one
key (`ReadyIsServed`) are in the theorems only. In the directory, two inputs are every pair of
requests, or a request and a command, racing on two replicas, from a directory
in order and from one that a failed deletion left with a member and a role
binding that point nowhere; the latter replaces the inputs that would lead
there. More replicas and longer histories are the subject of the theorem
`Implements`. For `directory_settles` one input is enough for the same reason:
its initial directories are the three situations (complete, dangling, without
the fact) that the input then changes, and cache lag, resyncs and restarts,
which decide whether things settle, are not bounded. Two generated keys suffice to tell "kept" from "rotated", and with two
supplied ones each of a pair of requests has its own.

### Properties

- `ReadyIsBacked`. While no Secret is deleted by hand, a credential whose
  current status is Ready is not revoked and its Secret exists, carries a key
  and is controlled by this very object.
- `KeysStay`. A stored key is replaced only by a request that supplied another,
  from a handler whose cache held what it replaces; a controlled Secret never
  passes to a credential of another name.
- `ReadyIsServed`. While no Secret is deleted by hand, a replica whose cache has
  the credentials, the user and the Secret as they are may answer from what a current
  status calls Ready, until it expires, and answers from it if no other credential
  has its access key. Operator and auth server have each their own
  code for what a usable credential is, and read different caches.
- `ImplementsAccess`. As long as nobody means two users by one credential name,
  operator, auth server and kubectl implement `Access`: an account, or an access
  key of a user, comes, is revoked or goes only by a request or by kubectl. The one
  exception is the keys of a deleted user, which go while the deletion is being
  served, all of them or some, and never another user's with them. The cascade
  deletes by name what an older, cached list named.
- `ReadyEventually`, `ServedEventually`, `InvalidEventually`. A sound credential
  becomes and stays Ready and, if it is the only one of its access key, is
  served; a spent one ends up Invalid and refused, whatever else has its key.

- `MadeIsGuarded`. While objects keep the repository they name, what a reconcile
  made in lakeFS has a stored object with the finalizer that will remove it.
- `DeletionIsComplete`. An object that has the finalizer goes only after the
  repository its spec names.
- `DeletionIsMeant`. While objects keep the repository they name, what a
  reconcile made in lakeFS goes, other than by hand, only when the object it was
  made for is marked, or another object that names it is. The operator deletes
  for a cached copy, by which time that object may be gone and have a successor
  of its name: the successor's repository is not taken.
- `ImplementsCustody`. Under the same condition reconciler, caches, kubectl and
  lakeFS implement `Custody`. A claim is an object that carries the finalizer,
  as it is stored or, once it is marked, as the operator still sees it. Claims
  are taken, marked, and given up only marked and with nothing left that was
  made for them; a repository is made for a claim, and removed for a marked one or by
  hand. What is removed by hand is counted (`removals`, which is `losses` here), so
  that no removal by the operator passes for it.
- `ReadyIsProvisioned`. While no two objects name one repository and nobody
  removes one by hand, an object whose current status is Ready is not being
  deleted and exists in lakeFS; with GC it has rules and its CronJob, or is about
  to be reconciled; without GC it has no CronJob.
- `NoLostWakeUp`. When an object has no work and no event left, lakeFS, its
  CronJob and its status agree with the object and its policy as they are now.
- `ConvergedEventually`, `DeletedEventually`. A sound object converges, again
  and again, although calls fail and the operator crashes; an object that is
  being deleted goes once lakeFS can be reached.

- `ImplementsGrants`. The directory implements `Grants`: whatever handlers decide
  on old copies, in whatever order their writes arrive and wherever they stop,
  a fact (an account, a membership, a policy of a role, a grant) comes or goes
  only by kubectl or by a request in progress that asked for it, and a request
  asks once. What a request asks against is as wide as the names of role bindings:
  attaching asks against every other grant meant by the name it writes, a deletion
  against every grant meant by a name that is also meant for the deleted object.
- `OwnGrants`. It is no wider where a name means one grant: no request changes such
  a binding, and it goes only by a detach of that grant or by the deletion of its
  subject or role, although the cascade deletes by name from an old list and other
  names collide or are re-pointed at the same time.
- `AnswersAgree`. The effective policies and the members that a replica answers
  are at every moment those that a reference definition over the facts in its own
  caches gives: with role bindings whose role or subject is missing, members that
  do not exist, a policy granted twice, and caches of different moments.
- `RightsEventually`. Once the objects rest, every replica answers for a user
  exactly the policies that the same definition over the stored facts
  gives ("the user and all groups that contain that user"), rendered for their
  scopes, whichever cache caught up first.
- `MembersEventually`. It likewise lists as members exactly the users that exist
  and belong to the group, also after a deletion that left a member behind.
- `StatusEventually`. A group or role binding that refers to what exists comes
  to report Resolved, and one that dangles Unavailable.

Some helpers and actions have faulty variants (`Overwrites`, `TakesOver`,
`AdoptsUnowned`, `UsableIgnoringExpiry`, `OutcomeAsReason`, `ResyncNever`,
`NoRepositories`, `ConcludeBlank`, `BeginUnguarded`, `DeleteInLakeTried`,
`DeleteInLakeUnmarked`, `CallFailsUnnoticed`, `UpdateStatusOnce`, `UpdateFailsForGood`, `DeleteUserAnyway`, `AnyGrant`,
`NoGroups`, `ListedMembers`, `NoReferences`) that nothing
uses. Put in the original's place, each breaks a property above, which shows that the
property depends on that line of code.

### Fairness

For credentials `LiveSpec` adds: watch events arrive (weak fairness of `Sync...`); the informer
resync of ten hours puts every credential back in the queue (`Resync`); the
queue is served (strong fairness of `Ensure(n)`: with one worker, other names
and other steps take turns); a call that is tried again and again is not
refused for ever (strong fairness of the two writes of `ensureSecret` and of
`UpdateStatus`). Nothing is assumed of clients, kubectl, the garbage collector,
the clock or restarts, so the temporal properties speak of objects that *stay*
sound or spent.

For repositories it adds: watch events arrive; the queue is served; a reconcile
goes on; each call, tried again and again, succeeds some day (strong fairness
per call, and of the status write that says Resolved). The resync is *not*
assumed: events and retries are enough, which is the difference to
credentials, whose reconciler asks for no retry. Crashes and failures may go on
for ever, so `ConvergedEventually` says "again and again"; that nothing undoes it
while the reconciler rests is `NoLostWakeUp`.

For the directory it adds only weak fairness: watch events arrive, the resync
comes, the queues are served. No strong fairness is needed, as the properties
speak of what holds once the objects (or, for the status, the references) rest:
a status write that was refused stays possible once the cache has caught up.
Requests, cascades, kubectl and restarts have no fairness.

### Findings

- `credential_supplied_key`: `ensureCredentialSecret` makes no call when the
  cached Secret already has the supplied key. With a stale cache the request is
  answered 201 although the Secret holds another key.
- `credential_two_users`: creating an access key that belongs to another user's
  credential is answered 201 in the name of the requesting user.
- `repository_shared_ready`: two LakeFSRepositories may name one lakeFS
  repository; deleting one removes it with force, and the other, which nothing
  wakes, stays Ready.

A smaller one has no run of its own: with GC turned off and on again,
CreateOrUpdate may find the CronJob just deleted still in the cache, write
nothing and report "managed GC exist". The deletion event then brings the object
back, which is why `ReadyIsProvisioned` allows for an event under way.

## Theorems

All theorems hold for all values of the constants under the named assumptions.

`CredentialsProofs` proves, for all values of the constants under the named
assumptions of `CredentialObjects` (credential names are object names, inputs
are well formed, bounds are naturals, the operator is not a handler, `None` is
none of the values):

- `TypeCorrect`: `Spec => []TypeOK`
- `IInvHolds`: `Spec => []IInv`
- `ReadyIsBackedHolds`: `Spec => []ReadyIsBacked`
- `KeysStayHolds`: `Spec => KeysStay`

`ReadyIsBacked` is not inductive: the status is written from a copy, so one
needs what was true of the Secret when the copy was used and why it still is.
`IInv` adds exactly that. `OwnedHasKey`: only the operator makes a Secret
controlled, and never a blank one. `OwnerSeen`: the operator has seen a
credential before it can own a Secret, and its view of a living credential
never goes back to an older object of the same name. `ViewStored`: a controlled
Secret in the operator's cache whose owner still exists is still stored, because
only the garbage collector (whose turn comes when the owner is gone) and hands
(`losses = 0`) remove Secrets. `InFlight`: so what `ensureSecret` established
stays true until the status update. `UidsPast` keeps a new object's uid apart
from every older one. Each invariant has one lemma per group of actions.

`AccessProofs` proves, under the same assumptions:

- `UsersMeantHolds`: `Spec => []UsersMeant`
- `AnswersNameOwner`: `OneUserPerName` implies `Spec => AnswerNamesOwner`
- `ImplementsAccessHolds`: `OneUserPerName` implies `Spec => ImplementsAccess`
- `ReadyIsServedHolds`: `Spec => []ReadyIsServed`

A credential's name is made from its access key, or is whatever a manifest says,
and no step compares its user with the one it was meant for. `UsersMeant` says what is
left: the user of a credential, stored, cached, held by a request or on
the list of a cascade, is one that some request or manifest pairs with that name
(`Makers`). It is inductive on top of `TypeOK`. With `OneUserPerName` it pins the
user down, and that is what the two implications need: the credential that an
AlreadyExists leads to is the requesting user's, and what the cascade deletes by
name is the deleted user's, also when it was made anew in between.
`OneUserPerName` is a hypothesis and not an assumption of the model, because access
keys and names come from outside and the code does not see to it; `credential_two_users`
shows what happens without it. `AnswersNameOwner` says that this is the only way
to the violation found there: with it, no lag, race or crash leads to an answer
about another user's key. `credential_lifecycle` has a single user; that others
keep their keys during a cascade is for the theorem to say.

`ReadyIsServedHolds` rests on `ReadyIsBacked`, which describes the stored
Secret, and goes on from there: the checks of the server's look-up, on a cache
that has caught up, are no stricter than what the reconciler made sure of. It
claims no more than the code does where several credentials share an access key:
that the Ready one is among the possible answers.

`RepositoriesProofs` proves, under the assumptions of `RepositoryObjects` (inputs
and the default policy are well formed, bounds are naturals, `None` is none of
the values and no number):

- `TypeCorrect`: `Spec => []TypeOK`
- `IInvHolds`: `Spec => []IInv`
- `MadeIsGuardedHolds`: `Spec => []MadeIsGuarded`
- `DeletionIsCompleteHolds`: `Spec => DeletionIsComplete`

`MadeIsGuarded` is not inductive either: a reconcile creates in lakeFS for a copy
it took from a cache. `IInv` adds what makes that safe. `SeenGuards`: a cached
object that has the finalizer and is not marked is still stored, because only
the operator lets it go, and it would have seen the mark. `MarksLast`: once the
operator has seen the mark, what is stored under the name is gone, marked, or a
new object without a finalizer; so a cache that is refreshed while the finalizer
is being removed learns of nothing that guards. `ReconcileGuards`: a reconcile
that may create has a stored object with the finalizer. `DeletedInLake`: one that
is about to remove the finalizer has removed the repository. `Applied`: copies
carry a spec that was applied under their name, so that `StableNames` (no object
changes the repository it names) fixes where a copy points to. Steps that leave
the object's uid, finalizer and mark alone are one lemma (`ReposKept`).

`Custody` proves of itself `NoOrphansHolds`, `Spec => []NoOrphans`: whatever is
made on a claim's behalf has a claim that will have it removed. It is why the
specification is worth implementing.

`CustodyProofs` proves, under the assumptions of `RepositoryObjects`:

- `UidsApartHolds`: `Spec => []UidsApart`
- `DeletionIsMeantHolds`: `Spec => DeletionIsMeant`
- `ImplementsCustodyHolds`: `StableNames` implies `Spec => ImplementsCustody`

The claims of the refinement mapping are those stored (`StoredClaims`) and those
that are marked and still in the operator's cache (`SeenClaims`). The second
kind is what makes a deletion in lakeFS a step of `Custody`: it is decided on the
cached object, whose stored one may be gone. Most steps leave finalizer, uid, mark
and repository of every object alone and map to a stutter; the others add, mark
or drop one claim (`AddFinalizer`, `RemoveRepo`, `RemoveFinalizer` and the watch
event that follows it) or change one repository. `DeleteInLake` leaves `losses` alone
and so has to be a `Clear` of a marked claim; only `LoseLake` is a removal by hand. That a step does not replace one
claim by another needs uids to be apart (`UidsApart`), and that only a marked and
emptied claim is dropped needs `MarksLast`, `DeletedInLake` and `MadeIsGuarded`
of `IInv`. `StableNames` (no manifest changes the repository of an object) is a
hypothesis and not an assumption of the model: an object whose `spec.repository`
changes leaves the old repository behind, and the runs that let it change check
and prove what then still holds (`DeletionIsComplete`, `DeletedEventually`).

`ReadinessProofs` proves, under the same assumptions:

- `ReadyInvHolds`: `Spec => []ReadyInv`
- `ReadyIsProvisionedHolds`: `Spec => []ReadyIsProvisioned`
- `NoLostWakeUpHolds`: `Spec => []NoLostWakeUp`

A status is written from a copy at the end of a reconcile, so what it says rests
on every step before it and on the events under way. `ReadyInv` says what is
known at each of them, together with `IInv`. `GensPast` keeps a new generation
apart from every older one. `CurrentSeen`: a status is current only for a
generation the operator has seen, and from then on it reconciles nothing older.
`CopySeen`: while a reconcile works on a copy, the cache holds the same
generation or the object is queued once more; this is why a policy event, which
is mapped to objects through the cache, cannot miss the object in progress.
`WorkLeft`: what is not Resolved is queued, served or not yet seen. `StatusTells`
and `ReconcileProvides` hold while objects do not share a repository in lakeFS
and none is lost there. A Resolved status, and a reconcile that is about to
write one, has what `Provisioned` asks for whatever is pending, and, unless the
object is queued, what `Held` asks for: rules and CronJob are those of the
policy as it was seen, or an event of the CronJob or of the default policy is
under way. `Held` needs the event as an alternative because `CreateOrUpdate`
compares with a cached CronJob, and because a policy that the reconciler has
just created is not in its cache yet. The first four parts are carried together
(`NextTracking`), the last two with a lemma per step of a reconcile
(`NextTelling`).

`DirectoryProofs` proves, under the assumptions of `DirectoryObjects` (kinds do
not share object names, the name functions have their types, inputs and initial
directories are well formed, `None` is none of the values) and none on which
grants share a name:

- `TypeCorrect`: `Spec => []TypeOK`
- `IInvHolds`: `Spec => []IInv`
- `Implements`: `Spec => ImplementsGrants`
- `OwnGrantsHolds`: `Spec => OwnGrants`
- `AnswersAgreeHolds`: `Spec => []AnswersAgree`

The refinement mapping reads the facts off the stored objects (`Facts`) and what
a request in progress asks for off its job (`Asked`): a job to put a role asks
for its policies and against those the role had, a deletion against everything
that mentions the object. Each step is then a `Serve`, an `Ask`, a `Command` or a
stutter. That needs to be known of the steps that write what they did not just
read. `UpdateMembers` and `LeaveGroup` write a whole group back: the version
check makes the stored group equal to the copy, so that one member is all that
differs. `RevokeBinding` deletes by name what an older list named, and the binding
may have been made anew or re-pointed since. `NamesHold` says that what a name holds,
stored, cached or in a job, is a grant that somebody means by it, and `CascadesConcern`, that
the names left to do are meant for the deleted object by somebody. So what goes
is among the grants meant by such a name, which is what the deletion asks
against; and where the name means a single grant, that grant mentions the
deleted object (`OwnGrantsHolds`). Neither follows from the types, so `IInv`
joins them with `TypeOK`, which here says too what each kind of job carries.

`AnswersAgreeHolds` needs no more than `TypeOK`, but is no triviality: the code
walks from role bindings to roles and policies and filters as it goes, the
definition (`Rights`, `Members`) goes the other way, over a set of facts. The
lemmas `RightsAgree` and `MembersAgree` show that both are the same set for every
directory.

Model-checked only: the liveness properties, which TLAPS does not reach. Every
safety property of the passing runs is proved.

## Plan

1. *Done:* the credential modules, checked and proved.
2. *Done:* the repository modules, checked; type correctness, the finalizer
   invariant, complete deletion and the truth of the Ready condition proved.
3. *Done:* the directory modules with the abstract specification `Grants`,
   checked; the refinement proved.
   *Done:* the abstract specifications `Custody` and `Access` and their refinements;
   that what is Ready is served; what a
   replica answers against the facts in its caches.
4. Left: the string functions, `objectName`, `roleBindingName`, `gcCronJobName`,
   `renderRepositoryTemplate`, against reference definitions; several namespaces.

## Not modelled

- HTTP: the matching of paths, JSON, paging, start and stop of the listener.
  They keep no state. Requests enter the modules after decoding.
- Read-only routes other than the look-up of a credential, the effective
  policies and the member list: they show cached objects one by one.
- Object names and user ids: pure functions on strings, cuts and hashes. The
  modules take them as constant functions and assume only their types.
- Several namespaces. The arbitrary choice among credentials of one access key,
  which one namespace can have too, is modelled (`Answers`).
- Defaults and arguments of the GC job, which no step depends on.
- Generated deep copies, flags, TLS and wiring; manifests, scripts and
  end-to-end tests.

See `PROJECT.json` for the status of every component.
