--------------------------- MODULE CredentialObjects ---------------------------
(***************************************************************************)
(* The objects behind a LakeFSCredential: the LakeFSUsers, LakeFSCredentials *)
(* and Secrets of one namespace, each process's cached view of them, the    *)
(* watch events that bring a view up to date, kubectl, the garbage          *)
(* collector and the clock.                                                 *)
(*                                                                         *)
(* Operator and auth server write to the API server but read from informer  *)
(* caches, so every process (the operator, and each request handler of an   *)
(* auth-server replica) has a view that lags the API server by any amount.  *)
(* A cached read is merged with the API write that follows it: the view it  *)
(* reads may be as old as one likes.  A step therefore ends at each write   *)
(* to the API server.                                                       *)
(*                                                                         *)
(* Update and Status().Update carry the resourceVersion of the copy that    *)
(* was read; here they succeed only while the stored object still equals    *)
(* that copy.  Every call to the API server may fail without effect.        *)
(***************************************************************************)
EXTENDS Naturals, FiniteSets

CONSTANTS
    Users,           \* names of LakeFSUsers (a user's lakeFS name is its object name)
    AccessKeys,      \* access key IDs
    Names,           \* object names of credentials and Secrets
    CredentialName,  \* objectName("lakefs-cred-" + accessKeyId), as a function
    SuppliedKeys,    \* secret access keys that come with a request
    GeneratedKeys,   \* secret access keys randomCredentialToken returns
    Handlers,        \* concurrent requests of the auth-server replicas
    Operator,        \* the operator: one leader, one reconcile worker
    Requests,        \* the requests lakeFS may send
    Manifests,       \* the credentials kubectl may apply
    LooseSecrets,    \* the Secrets somebody may create by hand
    MaxInputs,       \* bound: requests and kubectl commands in a behaviour
    MaxLosses,       \* bound: Secrets deleted by hand in a behaviour
    None             \* an absent object or value

Keys == SuppliedKeys \cup GeneratedKeys
Processes == Handlers \cup {Operator}

(* LakeFSCredentialSpec: the referenced user, the access key, the Secret    *)
(* that holds the secret access key, whether it has an expiry, revoked.     *)
CredentialSpec == [user: Users, accessKey: AccessKeys, secret: Names,
                   expires: BOOLEAN, revoked: BOOLEAN]

(* A LakeFSCredential: ready is the reason of its Ready condition, current  *)
(* says that status.observedGeneration is the generation of the spec.       *)
Reasons == {"Resolved", "Invalid", "Unavailable"}
Credential == [uid: Nat, spec: CredentialSpec,
               ready: Reasons \cup {None}, current: BOOLEAN]

(* A Secret: about stands for data["accessKeyId"] and the user label, key   *)
(* for the secret access key, owner for the controller reference.           *)
Owner == [name: Names, uid: Nat]
About == AccessKeys \X Users
Secret == [about: About \cup {None}, key: Keys \cup {None},
           owner: Owner \cup {None}]

(* POST .../credentials, DELETE .../credentials/{ak}, DELETE /auth/users/{u}. *)
Request == [op: {"create", "revoke", "deleteUser"}, user: Users,
            accessKey: AccessKeys, key: SuppliedKeys \cup {None}]
Manifest == [name: Names, spec: CredentialSpec]
LooseSecret == [name: Names, key: Keys \cup {None}]

(* A request in progress; created says that the last one was answered 201.  *)
HandlerState == [pc: {"idle", "secret", "list", "cascade"},
                 req: Request \cup {None}, spec: CredentialSpec \cup {None},
                 todo: SUBSET Names, created: BOOLEAN]
Reconcile == [name: Names, cred: Credential,
              outcome: {"Ensured", "Invalid", "Unavailable"}]

ASSUME NamesAssumption == CredentialName \in [AccessKeys -> Names]
ASSUME InputsAssumption ==
    /\ Requests \subseteq Request
    /\ Manifests \subseteq Manifest
    /\ LooseSecrets \subseteq LooseSecret
ASSUME BoundsAssumption == MaxInputs \in Nat /\ MaxLosses \in Nat
ASSUME OperatorAssumption == Operator \notin Handlers
ASSUME NoneAssumption ==
    /\ None \notin Names \cup Keys \cup Users
    /\ None \notin CredentialSpec \cup Credential \cup Secret
    /\ None \notin Owner \cup About \cup Reconcile \cup Request
    /\ None \notin Reasons

VARIABLES
    users,        \* the LakeFSUsers that exist
    creds,        \* the LakeFSCredentials
    secrets,      \* the Secrets
    seenUsers,    \* each process's cached view of users ...
    seenCreds,    \* ... of creds ...
    seenSecrets,  \* ... and of secrets
    queue,        \* the reconciler's work queue
    reconcile,    \* the reconcile in progress, up to its status update
    handler,      \* the request each handler is serving
    timeUp,       \* the expiresAt of expiring credentials has passed
    inputs,       \* requests and kubectl commands so far
    losses        \* Secrets deleted by hand so far

api == <<users, creds, secrets>>
views == <<seenUsers, seenCreds, seenSecrets>>
operator == <<queue, reconcile>>
world == <<timeUp, inputs, losses>>
vars == <<users, creds, secrets, seenUsers, seenCreds, seenSecrets, queue,
          reconcile, handler, timeUp, inputs, losses>>

ObjectsOK ==
    /\ users \in SUBSET Users
    /\ creds \in [Names -> Credential \cup {None}]
    /\ secrets \in [Names -> Secret \cup {None}]

ViewsOK ==
    /\ seenUsers \in [Processes -> SUBSET Users]
    /\ seenCreds \in [Processes -> [Names -> Credential \cup {None}]]
    /\ seenSecrets \in [Processes -> [Names -> Secret \cup {None}]]

OperatorOK ==
    /\ queue \in SUBSET Names
    /\ reconcile \in Reconcile \cup {None}

HandlersOK ==
    /\ handler \in [Handlers -> HandlerState]
    /\ \A h \in Handlers :
          /\ handler[h].pc # "idle" => handler[h].req # None
          /\ handler[h].pc = "secret" => handler[h].spec # None

WorldOK == timeUp \in BOOLEAN /\ inputs \in Nat /\ losses \in Nat

(* Every variable holds what the code can put there: objects of the right   *)
(* kind, work for the operator, requests that fit a handler's progress.     *)
TypeOK == ObjectsOK /\ ViewsOK /\ OperatorOK /\ HandlersOK /\ WorldOK

Idle == [pc |-> "idle", req |-> None, spec |-> None, todo |-> {}, created |-> FALSE]

Init ==
    /\ users \in SUBSET Users
    /\ creds = [n \in Names |-> None]
    /\ secrets = [n \in Names |-> None]
    /\ seenUsers = [p \in Processes |-> users]
    /\ seenCreds = [p \in Processes |-> creds]
    /\ seenSecrets = [p \in Processes |-> secrets]
    /\ queue = {}
    /\ reconcile = None
    /\ handler = [h \in Handlers |-> Idle]
    /\ timeUp = FALSE
    /\ inputs = 0
    /\ losses = 0

-----------------------------------------------------------------------------
(* Helpers.  Beside some of them stand faulty variants (UsableIgnoringExpiry, *)
(* Overwrites, AdoptsUnowned, TakesOver), which nothing uses: they show that  *)
(* the properties of Credentials depend on the helper.                       *)

(* 32 random bytes: a key no stored or cached Secret holds.                *)
Random(k) ==
    /\ k \in GeneratedKeys
    /\ \A n \in Names : secrets[n] # None => secrets[n].key # k
    /\ \A p \in Processes, n \in Names :
          seenSecrets[p][n] # None => seenSecrets[p][n].key # k

Expired(spec) == spec.expires /\ timeUp
UsableIgnoringExpiry(spec) == ~spec.revoked
Usable(spec) == ~spec.revoked /\ ~Expired(spec)

AboutOf(spec) == <<spec.accessKey, spec.user>>

(* The API server's check of an update's resourceVersion.                   *)
Overwrites(stored, copy) == stored # None /\ copy # None
SameVersion(stored, copy) == stored # None /\ stored = copy

(* metav1.IsControlledBy compares uids, SetControllerReference only names. *)
ControlledBy(secret, n, uid) == secret.owner = [name |-> n, uid |-> uid]
AdoptsUnowned(secret, n) == secret.owner = None
TakesOver(secret, n) == TRUE
MayControl(secret, n) == secret.owner # None => secret.owner.name = n

(* A request or a kubectl command: the bound on behaviours.                 *)
Input == inputs < MaxInputs /\ inputs' = inputs + 1

(* metadata.uid: unique for ever, like the number of the input.             *)
NewCredential(spec) ==
    [uid |-> inputs + 1, spec |-> spec, ready |-> None, current |-> FALSE]

-----------------------------------------------------------------------------
(* Watch events.  The reconciler is triggered by credentials only.          *)

SyncUser(p, u) ==
    /\ (u \in users) # (u \in seenUsers[p])
    /\ seenUsers' = [seenUsers EXCEPT ![p] =
          IF u \in users THEN @ \cup {u} ELSE @ \ {u}]
    /\ UNCHANGED <<api, seenCreds, seenSecrets, operator, handler, world>>

SyncCredential(p, n) ==
    /\ seenCreds[p][n] # creds[n]
    /\ seenCreds' = [seenCreds EXCEPT ![p][n] = creds[n]]
    /\ queue' = IF p = Operator THEN queue \cup {n} ELSE queue
    /\ UNCHANGED <<api, seenUsers, seenSecrets, reconcile, handler, world>>

SyncSecret(p, n) ==
    /\ seenSecrets[p][n] # secrets[n]
    /\ seenSecrets' = [seenSecrets EXCEPT ![p][n] = secrets[n]]
    /\ UNCHANGED <<api, seenUsers, seenCreds, operator, handler, world>>

-----------------------------------------------------------------------------
(* kubectl, the garbage collector and the clock.                            *)

ApplyUser(u) ==
    /\ Input
    /\ u \notin users
    /\ users' = users \cup {u}
    /\ UNCHANGED <<creds, secrets, views, operator, handler, timeUp, losses>>

RemoveUser(u) ==
    /\ Input
    /\ u \in users
    /\ users' = users \ {u}
    /\ UNCHANGED <<creds, secrets, views, operator, handler, timeUp, losses>>

Applied(cred, spec) ==
    [cred EXCEPT !.current = @ /\ cred.spec = spec, !.spec = spec]

ApplyCredential(m) ==
    /\ Input
    /\ IF creds[m.name] = None
       THEN creds' = [creds EXCEPT ![m.name] = NewCredential(m.spec)]
       ELSE creds' = [creds EXCEPT ![m.name] = Applied(@, m.spec)]
    /\ UNCHANGED <<users, secrets, views, operator, handler, timeUp, losses>>

RemoveCredential(n) ==
    /\ Input
    /\ creds[n] # None
    /\ creds' = [creds EXCEPT ![n] = None]
    /\ UNCHANGED <<users, secrets, views, operator, handler, timeUp, losses>>

ApplySecret(m) ==
    /\ Input
    /\ secrets[m.name] = None
    /\ secrets' = [secrets EXCEPT ![m.name] =
                     [about |-> None, key |-> m.key, owner |-> None]]
    /\ UNCHANGED <<users, creds, views, operator, handler, timeUp, losses>>

LoseSecret(n) ==
    /\ losses < MaxLosses
    /\ losses' = losses + 1
    /\ secrets[n] # None
    /\ secrets' = [secrets EXCEPT ![n] = None]
    /\ UNCHANGED <<users, creds, views, operator, handler, timeUp, inputs>>

(* Kubernetes collects a Secret whose owning credential no longer exists.   *)
Exists(owner) == creds[owner.name] # None /\ creds[owner.name].uid = owner.uid

CollectSecret(n) ==
    /\ secrets[n] # None
    /\ secrets[n].owner # None
    /\ ~Exists(secrets[n].owner)
    /\ secrets' = [secrets EXCEPT ![n] = None]
    /\ UNCHANGED <<users, creds, views, operator, handler, world>>

(* Only an applied manifest sets expiresAt.                                 *)
Expire ==
    /\ ~timeUp
    /\ \E m \in Manifests : m.spec.expires
    /\ timeUp' = TRUE
    /\ UNCHANGED <<api, views, operator, handler, inputs, losses>>
================================================================================
