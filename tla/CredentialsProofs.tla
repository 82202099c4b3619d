--------------------------- MODULE CredentialsProofs ---------------------------
(***************************************************************************)
(* Machine-checked proofs about Credentials, for every set of users, names, *)
(* keys, handlers, requests and manifests and every bound.                  *)
(***************************************************************************)
EXTENDS Credentials, TLAPS

-----------------------------------------------------------------------------
(* What the model builds is of the right kind.                              *)

(* An object made from a well-formed spec is a well-formed credential.      *)
LEMMA NewCredentialType ==
    ASSUME WorldOK, NEW spec \in CredentialSpec
    PROVE  NewCredential(spec) \in Credential
  BY DEF WorldOK, NewCredential, Credential

(* Access key and user of a spec are what a Secret can be about.            *)
LEMMA AboutType ==
    ASSUME NEW spec \in CredentialSpec
    PROVE  AboutOf(spec) \in About
  BY DEF AboutOf, About, CredentialSpec

(* A stored credential's fields have their types.                           *)
LEMMA CredentialFields ==
    ASSUME NEW c \in Credential
    PROVE  /\ c.uid \in Nat
           /\ c.spec \in CredentialSpec
           /\ c.spec.secret \in Names
           /\ c.spec.user \in Users
           /\ c.spec.revoked \in BOOLEAN
           /\ c.current \in BOOLEAN
  BY DEF Credential, CredentialSpec

(* The Secret that ensureSecret writes is well formed.                      *)
LEMMA OwnedSecretType ==
    ASSUME NEW c \in Credential, NEW n \in Names, NEW k \in Keys
    PROVE  [about |-> AboutOf(c.spec), key |-> k,
            owner |-> [name |-> n, uid |-> c.uid]] \in Secret
  BY AboutType, CredentialFields DEF Secret, Owner

(* So is what a reconcile carries to its status update.                     *)
LEMMA CarryType ==
    ASSUME NEW c \in Credential, NEW n \in Names,
           NEW o \in {"Ensured", "Invalid", "Unavailable"}
    PROVE  [name |-> n, cred |-> c, outcome |-> o] \in Reconcile
  BY DEF Reconcile

(* resolveCredential returns one of the declared reasons.                   *)
LEMMA ReasonType ==
    ASSUME NEW r \in Reconcile
    PROVE  /\ Reason(r) \in Reasons
           /\ Reason(r) = "Resolved" => r.outcome = "Ensured"
  BY DEF Reason, Reasons, Reconcile

(* The state a handler takes up when it is idle or waits for its Secret.    *)
LEMMA IdleType == Idle \in HandlerState /\ [Idle EXCEPT !.created = TRUE] \in HandlerState
  BY DEF Idle, HandlerState

(* Changing one handler to a well-formed state keeps them all well formed.  *)
LEMMA HandlerUpdate ==
    ASSUME HandlersOK, NEW h \in Handlers, NEW st \in HandlerState,
           st.pc # "idle" => st.req # None,
           st.pc = "secret" => st.spec # None,
           handler' = [handler EXCEPT ![h] = st]
    PROVE  HandlersOK'
  BY DEF HandlersOK

(* Answering a request leaves its handler idle and well formed.             *)
LEMMA AnswerType ==
    ASSUME HandlersOK, NEW h \in Handlers, Answer(h) \/ AnswerCreated(h)
    PROVE  HandlersOK'
  BY IdleType, HandlerUpdate DEF Answer, AnswerCreated, Idle

(* Going on to the Secret leaves the handler with its request and spec.     *)
LEMMA ProceedType ==
    ASSUME HandlersOK, NEW h \in Handlers, NEW req \in Request,
           NEW spec \in CredentialSpec, Proceed(h, req, spec)
    PROVE  HandlersOK'
  <1> DEFINE st == [Idle EXCEPT !.pc = "secret", !.req = req, !.spec = spec]
  <1>1. st \in HandlerState /\ st.req = req /\ st.spec = spec
    BY DEF Idle, HandlerState
  <1>2. req # None /\ spec # None
    BY NoneAssumption
  <1> QED
    BY <1>1, <1>2, HandlerUpdate DEF Proceed

-----------------------------------------------------------------------------
(* Type correctness.                                                        *)

(* The reconciler's steps keep every object well formed.                    *)
LEMMA OperatorStepType ==
    ASSUME TypeOK, OperatorStep
    PROVE  TypeOK'
  <1> USE NoneAssumption DEF TypeOK, views, api, world, operator
  <1> DEFINE cached == seenCreds[Operator]
  <1>0. /\ cached \in [Names -> Credential \cup {None}]
        /\ seenSecrets[Operator] \in [Names -> Secret \cup {None}]
    BY DEF ViewsOK, Processes
  <1>1. ASSUME NEW n \in Names, ReconcileGone(n) PROVE TypeOK'
    BY <1>1 DEF ReconcileGone, Start, OperatorOK, ObjectsOK, ViewsOK, HandlersOK, WorldOK
  <1>2. ASSUME NEW n \in Names, ReconcileUnresolved(n) PROVE TypeOK'
    <2>1. cached[n] \in Credential
      BY <1>0, <1>2 DEF ReconcileUnresolved
    <2>2. PICK o \in {"Invalid", "Unavailable"} :
             reconcile' = [name |-> n, cred |-> cached[n], outcome |-> o]
      BY <1>2 DEF ReconcileUnresolved, Carry
    <2>3. OperatorOK'
      BY <2>1, <2>2, <1>2, CarryType DEF ReconcileUnresolved, Start, OperatorOK
    <2> QED
      BY <2>3, <1>2 DEF ReconcileUnresolved, ObjectsOK, ViewsOK, HandlersOK, WorldOK
  <1>3. ASSUME NEW n \in Names, EnsureSecretCreates(n) PROVE TypeOK'
    <2>1. cached[n] \in Credential
      BY <1>0, <1>3 DEF EnsureSecretCreates, StartEnsure
    <2>2. ObjectsOK'
      BY <2>1, <1>3, OwnedSecretType, CredentialFields DEF EnsureSecretCreates, ObjectsOK, Keys
    <2>3. OperatorOK'
      BY <2>1, <1>3, CarryType DEF EnsureSecretCreates, StartEnsure, Start, Carry, OperatorOK
    <2> QED
      BY <2>2, <2>3, <1>3 DEF EnsureSecretCreates, ViewsOK, HandlersOK, WorldOK
  <1>4. ASSUME NEW n \in Names, EnsureSecretUpdates(n) PROVE TypeOK'
    <2>1. cached[n] \in Credential
      BY <1>0, <1>4 DEF EnsureSecretUpdates, StartEnsure
    <2> DEFINE new(k) == [about |-> AboutOf(cached[n].spec), key |-> k,
                          owner |-> [name |-> n, uid |-> cached[n].uid]]
    <2>a. PICK k \in Keys : secrets' = [secrets EXCEPT ![cached[n].spec.secret] = new(k)]
      BY <1>4 DEF EnsureSecretUpdates
    <2>b. new(k) \in Secret
      BY <2>1, OwnedSecretType
    <2> HIDE DEF new
    <2>2. ObjectsOK'
      BY <2>a, <2>b, <1>4 DEF EnsureSecretUpdates, ObjectsOK
    <2>3. OperatorOK'
      BY <2>1, <1>4, CarryType DEF EnsureSecretUpdates, StartEnsure, Start, Carry, OperatorOK
    <2> QED
      BY <2>2, <2>3, <1>4 DEF EnsureSecretUpdates, ViewsOK, HandlersOK, WorldOK
  <1>5. ASSUME NEW n \in Names, EnsureSecretKeeps(n) PROVE TypeOK'
    BY <1>0, <1>5, CarryType
       DEF EnsureSecretKeeps, StartEnsure, Start, Carry, OperatorOK, ObjectsOK, ViewsOK, HandlersOK, WorldOK
  <1>6. ASSUME NEW n \in Names, EnsureSecretFails(n) PROVE TypeOK'
    BY <1>0, <1>6, CarryType
       DEF EnsureSecretFails, StartEnsure, Start, Carry, OperatorOK, ObjectsOK, ViewsOK, HandlersOK, WorldOK
  <1>7. ASSUME NEW n \in Names, Resync(n) PROVE TypeOK'
    BY <1>7 DEF Resync, OperatorOK, ObjectsOK, ViewsOK, HandlersOK, WorldOK
  <1>8. CASE UpdateStatus
    <2> DEFINE r == reconcile
    <2>1. r \in Reconcile /\ r.name \in Names
      BY <1>8 DEF UpdateStatus, OperatorOK, Reconcile
    <2>2. Reason(r) \in Reasons
      BY <2>1, ReasonType
    <2>3. creds[r.name] \in Credential
      BY <2>1, <1>8 DEF UpdateStatus, SameVersion, ObjectsOK
    <2>4. [creds[r.name] EXCEPT !.ready = Reason(r), !.current = TRUE] \in Credential
      BY <2>2, <2>3 DEF Credential
    <2> QED
      BY <2>1, <2>4, <1>8
         DEF UpdateStatus, OperatorOK, ObjectsOK, ViewsOK, HandlersOK, WorldOK
  <1>9. CASE UpdateStatusFails
    BY <1>9 DEF UpdateStatusFails, OperatorOK, ObjectsOK, ViewsOK, HandlersOK, WorldOK, Reconcile
  <1>10. CASE OperatorRestart
    BY <1>10 DEF OperatorRestart, OperatorOK, ObjectsOK, ViewsOK, HandlersOK, WorldOK
  <1> QED
    BY <1>1, <1>2, <1>3, <1>4, <1>5, <1>6, <1>7, <1>8, <1>9, <1>10
       DEF OperatorStep, Ensure

(* So do the later steps of a request in progress,                          *)
LEMMA ServeType ==
    ASSUME TypeOK, NEW h \in Handlers, Serve(h)
    PROVE  TypeOK'
  <1> USE NoneAssumption DEF TypeOK, views, api, world, operator
  <1>0. handler[h] \in HandlerState
    BY DEF HandlersOK
  <1>a. ASSUME Storing(h)
        PROVE  /\ handler[h].spec \in CredentialSpec
               /\ handler[h].spec.secret \in Names
               /\ handler[h].req.key \in Keys
               /\ AboutOf(handler[h].spec) \in About
    BY <1>0, <1>a, AboutType
       DEF Storing, HandlersOK, HandlerState, CredentialSpec, Request, Keys
  <1>1. CASE StoreSecretCreates(h)
    <2>1. ObjectsOK'
      BY <1>a, <1>1 DEF StoreSecretCreates, ObjectsOK, Secret
    <2> QED
      BY <2>1, <1>1, AnswerType
         DEF StoreSecretCreates, OperatorOK, ViewsOK, WorldOK
  <1>2. CASE StoreSecretUpdates(h)
    <2> DEFINE s == handler[h].spec.secret
               old == secrets[s]
    <2>1. s \in Names /\ old \in Secret /\ old = seenSecrets[h][s]
      BY <1>a, <1>2 DEF StoreSecretUpdates, SameVersion, ObjectsOK
    <2>2. [old EXCEPT !.about = AboutOf(handler[h].spec), !.key = handler[h].req.key] \in Secret
      BY <1>a, <2>1, <1>2 DEF StoreSecretUpdates, Secret
    <2>3. ObjectsOK'
      BY <2>1, <2>2, <1>2 DEF StoreSecretUpdates, ObjectsOK
    <2> QED
      BY <2>3, <1>2, AnswerType DEF StoreSecretUpdates, OperatorOK, ViewsOK, WorldOK
  <1>3. CASE StoreSecretKeeps(h)
    BY <1>3, AnswerType DEF StoreSecretKeeps, OperatorOK, ObjectsOK, ViewsOK, WorldOK
  <1>4. CASE StoreSecretFails(h)
    BY <1>4, AnswerType DEF StoreSecretFails, OperatorOK, ObjectsOK, ViewsOK, WorldOK
  <1>5. CASE AwaitSecret(h)
    BY <1>5, AnswerType DEF AwaitSecret, OperatorOK, ObjectsOK, ViewsOK, WorldOK
  <1>6. CASE ListCredentials(h)
    <2> DEFINE Found_ == {n \in Names : /\ seenCreds[h][n] # None
                                        /\ seenCreds[h][n].spec.user = handler[h].req.user}
               st == [handler[h] EXCEPT !.pc = "cascade", !.todo = Found_]
    <2>1. st \in HandlerState /\ st.pc = "cascade" /\ st.req = handler[h].req
      BY <1>0 DEF HandlerState
    <2>2. handler[h].req # None
      BY <1>6 DEF ListCredentials, HandlersOK
    <2>3. handler' = [handler EXCEPT ![h] = st]
      BY <1>0, <1>6 DEF ListCredentials, HandlersOK
    <2> HIDE DEF st
    <2>4. HandlersOK'
      BY <2>1, <2>2, <2>3, HandlerUpdate
    <2> QED
      BY <2>4, <1>6 DEF ListCredentials, OperatorOK, ObjectsOK, ViewsOK, WorldOK
  <1>7. ASSUME NEW n \in Names, DeleteListed(h, n) PROVE TypeOK'
    <2> DEFINE st == [handler[h] EXCEPT !.todo = @ \ {n}]
    <2>1. st \in HandlerState /\ st.pc = "cascade" /\ st.req = handler[h].req
      BY <1>0, <1>7 DEF HandlerState, DeleteListed
    <2>2. handler[h].req # None
      BY <1>7 DEF DeleteListed, HandlersOK
    <2>3. handler' = [handler EXCEPT ![h] = st]
      BY <1>0, <1>7 DEF DeleteListed, HandlersOK
    <2> HIDE DEF st
    <2>4. HandlersOK'
      BY <2>1, <2>2, <2>3, HandlerUpdate
    <2>5. ObjectsOK'
      BY <1>7 DEF DeleteListed, ObjectsOK
    <2> QED
      BY <2>4, <2>5, <1>7 DEF DeleteListed, OperatorOK, ViewsOK, WorldOK
  <1>8. CASE FinishDelete(h)
    BY <1>8, AnswerType DEF FinishDelete, OperatorOK, ObjectsOK, ViewsOK, WorldOK
  <1>9. CASE HandlerRestart(h)
    <2>1. HandlersOK'
      BY <1>9, AnswerType DEF HandlerRestart, Answer
    <2> QED
      BY <2>1, <1>9 DEF HandlerRestart, OperatorOK, ObjectsOK, ViewsOK, WorldOK, Processes
  <1> QED
    BY <1>1, <1>2, <1>3, <1>4, <1>5, <1>6, <1>7, <1>8, <1>9 DEF Serve

(* the steps that begin one,                                                *)
LEMMA AcceptType ==
    ASSUME TypeOK, NEW h \in Handlers, NEW req \in Requests, Accept(h, req)
    PROVE  TypeOK'
  <1> USE NoneAssumption, InputsAssumption
      DEF TypeOK, views, api, world, operator, Receive, Input
  <1>0. /\ req \in Request
        /\ RequestedSpec(req) \in CredentialSpec
        /\ CredentialName[req.accessKey] \in Names
    BY NamesAssumption DEF RequestedSpec, Request, CredentialSpec
  <1>1. CASE CreateCredential(h, req)
    <2>1. ObjectsOK'
      BY <1>0, <1>1, NewCredentialType DEF CreateCredential, ObjectsOK
    <2>2. HandlersOK'
      BY <1>0, <1>1, ProceedType DEF CreateCredential
    <2> QED
      BY <2>1, <2>2, <1>1 DEF CreateCredential, OperatorOK, ViewsOK, WorldOK
  <1>2. CASE CreateCredentialExists(h, req)
    <2> DEFINE seen == seenCreds[h][CredentialName[req.accessKey]]
    <2>1. seen \in Credential \cup {None}
      BY <1>0 DEF ViewsOK, Processes
    <2>2. HandlersOK'
      <3>1. CASE seen = None
        BY <3>1, <1>2, AnswerType DEF CreateCredentialExists
      <3>2. CASE seen # None
        <4>1. seen.spec \in CredentialSpec
          BY <2>1, <3>2, CredentialFields
        <4> QED
          BY <4>1, <3>2, <1>0, <1>2, ProceedType DEF CreateCredentialExists
      <3> QED
        BY <3>1, <3>2
    <2> QED
      BY <2>2, <1>2 DEF CreateCredentialExists, ObjectsOK, OperatorOK, ViewsOK, WorldOK
  <1>3. CASE CreateCredentialFails(h, req)
    BY <1>3, AnswerType DEF CreateCredentialFails, ObjectsOK, OperatorOK, ViewsOK, WorldOK
  <1>4. CASE RevokeCredential(h, req)
    <2>1. PICK n \in Found(h, req.accessKey) :
             SameVersion(creds[n], seenCreds[h][n]) /\ creds' = [creds EXCEPT ![n] = Revoked(@)]
      BY <1>4 DEF RevokeCredential
    <2>2. n \in Names /\ creds[n] \in Credential
      BY <2>1 DEF Found, SameVersion, ObjectsOK
    <2>3. Revoked(creds[n]) \in Credential
      BY <2>2 DEF Revoked, Credential, CredentialSpec
    <2>4. ObjectsOK'
      BY <2>1, <2>2, <2>3, <1>4 DEF RevokeCredential, ObjectsOK
    <2> QED
      BY <2>4, <1>4, AnswerType DEF RevokeCredential, OperatorOK, ViewsOK, WorldOK
  <1>5. CASE RevokeCredentialFails(h, req)
    BY <1>5, AnswerType DEF RevokeCredentialFails, ObjectsOK, OperatorOK, ViewsOK, WorldOK
  <1>6. CASE DeleteUser(h, req)
    <2> DEFINE st == [Idle EXCEPT !.pc = "list", !.req = req]
    <2>1. st \in HandlerState /\ st.pc = "list" /\ st.req = req
      BY <1>0 DEF Idle, HandlerState
    <2>2. handler' = [handler EXCEPT ![h] = st]
      BY <1>6 DEF DeleteUser
    <2> HIDE DEF st
    <2>3. HandlersOK'
      BY <2>1, <2>2, <1>0, HandlerUpdate
    <2> QED
      BY <2>3, <1>6 DEF DeleteUser, ObjectsOK, OperatorOK, ViewsOK, WorldOK
  <1>7. CASE DeleteUserFails(h, req)
    BY <1>7, AnswerType DEF DeleteUserFails, ObjectsOK, OperatorOK, ViewsOK, WorldOK
  <1> QED
    BY <1>1, <1>2, <1>3, <1>4, <1>5, <1>6, <1>7 DEF Accept

(* the watch events,                                                        *)
LEMMA WatchStepType ==
    ASSUME TypeOK, WatchStep
    PROVE  TypeOK'
  <1> USE DEF TypeOK, views, api, world, operator
  <1>1. ASSUME NEW p \in Processes, NEW u \in Users, SyncUser(p, u) PROVE TypeOK'
    BY <1>1 DEF SyncUser, ObjectsOK, OperatorOK, ViewsOK, WorldOK, HandlersOK
  <1>2. ASSUME NEW p \in Processes, NEW n \in Names, SyncCredential(p, n) PROVE TypeOK'
    BY <1>2 DEF SyncCredential, ObjectsOK, OperatorOK, ViewsOK, WorldOK, HandlersOK
  <1>3. ASSUME NEW p \in Processes, NEW n \in Names, SyncSecret(p, n) PROVE TypeOK'
    BY <1>3 DEF SyncSecret, ObjectsOK, OperatorOK, ViewsOK, WorldOK, HandlersOK
  <1> QED
    BY <1>1, <1>2, <1>3 DEF WatchStep

(* and kubectl, the garbage collector and the clock.                        *)
LEMMA EnvironmentStepType ==
    ASSUME TypeOK, EnvironmentStep
    PROVE  TypeOK'
  <1> USE NoneAssumption, InputsAssumption DEF TypeOK, views, api, world, operator, Input
  <1>1. ASSUME NEW u \in Users, ApplyUser(u) \/ RemoveUser(u) PROVE TypeOK'
    BY <1>1 DEF ApplyUser, RemoveUser, ObjectsOK, OperatorOK, ViewsOK, WorldOK, HandlersOK
  <1>2. ASSUME NEW m \in Manifests, ApplyCredential(m) PROVE TypeOK'
    <2>1. m.name \in Names /\ m.spec \in CredentialSpec
      BY DEF Manifest
    <2> DEFINE c == creds[m.name]
               applied == Applied(c, m.spec)
    <2>2. CASE c = None
      BY <2>1, <2>2, <1>2, NewCredentialType
         DEF ApplyCredential, ObjectsOK, OperatorOK, ViewsOK, WorldOK, HandlersOK
    <2>3. CASE c # None
      <3>1. c \in Credential
        BY <2>1, <2>3 DEF ObjectsOK
      <3>2. applied \in Credential
        BY <3>1, <2>1 DEF Credential, Applied
      <3>3. creds' = [creds EXCEPT ![m.name] = applied]
        BY <2>3, <1>2 DEF ApplyCredential
      <3> HIDE DEF applied, c
      <3> QED
        BY <3>2, <3>3, <2>1, <1>2
           DEF ApplyCredential, ObjectsOK, OperatorOK, ViewsOK, WorldOK, HandlersOK
    <2> QED
      BY <2>2, <2>3
  <1>3. ASSUME NEW m \in LooseSecrets, ApplySecret(m) PROVE TypeOK'
    <2>1. m.name \in Names /\ [about |-> None, key |-> m.key, owner |-> None] \in Secret
      BY DEF LooseSecret, Secret
    <2> QED
      BY <2>1, <1>3 DEF ApplySecret, ObjectsOK, OperatorOK, ViewsOK, WorldOK, HandlersOK
  <1>4. ASSUME NEW n \in Names, RemoveCredential(n) PROVE TypeOK'
    BY <1>4 DEF RemoveCredential, ObjectsOK, OperatorOK, ViewsOK, WorldOK, HandlersOK
  <1>5. ASSUME NEW n \in Names, LoseSecret(n) \/ CollectSecret(n) PROVE TypeOK'
    BY <1>5 DEF LoseSecret, CollectSecret, ObjectsOK, OperatorOK, ViewsOK, WorldOK, HandlersOK
  <1>6. CASE Expire
    BY <1>6 DEF Expire, ObjectsOK, OperatorOK, ViewsOK, WorldOK, HandlersOK
  <1> QED
    BY <1>1, <1>2, <1>3, <1>4, <1>5, <1>6 DEF EnvironmentStep

(* The program starts in a well-formed state                                *)
LEMMA InitType == Init => TypeOK
  <1> SUFFICES ASSUME Init PROVE TypeOK
    OBVIOUS
  <1>1. ObjectsOK /\ OperatorOK /\ WorldOK
    BY DEF Init, ObjectsOK, OperatorOK, WorldOK
  <1>2. ViewsOK
    BY <1>1 DEF Init, ViewsOK, ObjectsOK
  <1>3. Idle.pc = "idle"
    BY DEF Idle
  <1>4. HandlersOK
    BY <1>3, IdleType DEF Init, HandlersOK
  <1> QED
    BY <1>1, <1>2, <1>4 DEF TypeOK

(* and every step keeps it so.                                              *)
LEMMA NextType == TypeOK /\ [Next]_vars => TypeOK'
  <1> SUFFICES ASSUME TypeOK, [Next]_vars PROVE TypeOK'
    OBVIOUS
  <1>1. CASE OperatorStep
    BY <1>1, OperatorStepType
  <1>2. CASE HandlerStep
    BY <1>2, ServeType, AcceptType DEF HandlerStep
  <1>3. CASE WatchStep
    BY <1>3, WatchStepType
  <1>4. CASE EnvironmentStep
    BY <1>4, EnvironmentStepType
  <1>5. CASE UNCHANGED vars
    BY <1>5 DEF vars, TypeOK, ObjectsOK, ViewsOK, OperatorOK, HandlersOK, WorldOK
  <1> QED
    BY <1>1, <1>2, <1>3, <1>4, <1>5 DEF Next

(* Every reachable state is well formed, whatever the cluster's size.       *)
THEOREM TypeCorrect == Spec => []TypeOK
  BY InitType, NextType, PTL DEF Spec

-----------------------------------------------------------------------------
(* ReadyIsBacked, by IInv.  First the kinds of change a step can make to    *)
(* what IInv speaks of: nothing, one credential, one Secret, the reconcile  *)
(* in progress, the operator's view.                                        *)

Strong ==
    /\ UidsPast
    /\ OwnedHasKey
    /\ OwnerSeen
    /\ losses = 0 => ViewStored /\ InFlight
    /\ ReadyIsBacked

(* A step that touches neither the objects nor the operator's part changes  *)
(* nothing that the invariant speaks of.                                    *)
LEMMA Quiet ==
    ASSUME TypeOK, Strong, inputs' \in Nat, inputs' >= inputs, losses' = losses,
           creds' = creds, secrets' = secrets, reconcile' = reconcile,
           seenCreds'[Operator] = seenCreds[Operator],
           seenSecrets'[Operator] = seenSecrets[Operator]
    PROVE  Strong'
  <1>1. UidsPast'
    BY DEF Strong, UidsPast, Seen, Owned, TypeOK, ObjectsOK, ViewsOK, OperatorOK,
           WorldOK, Credential, Secret, Owner, Reconcile, Processes
  <1>2. OwnedHasKey' /\ OwnerSeen' /\ ReadyIsBacked'
    BY DEF Strong, OwnedHasKey, OwnerSeen, ReadyIsBacked, Seen, Owned, Exists,
           Reports, Holds, ControlledBy
  <1>3. losses' = 0 => ViewStored' /\ InFlight'
    BY DEF Strong, ViewStored, InFlight, Owned, Exists, Holds, ControlledBy
  <1> QED
    BY <1>1, <1>2, <1>3 DEF Strong

(* A credential that is deleted, created with the next uid, or changed in   *)
(* place so that its status is no longer current.                           *)
LEMMA CredentialChange ==
    ASSUME TypeOK, Strong, inputs' \in Nat, inputs' >= inputs, losses' = losses,
           NEW n \in Names, NEW v \in Credential \cup {None},
           creds' = [creds EXCEPT ![n] = v],
           \/ v = None
           \/ v # None /\ v.uid = inputs + 1 /\ inputs' = inputs + 1 /\ v.current = FALSE
           \/ /\ v # None /\ creds[n] # None /\ v.uid = creds[n].uid
              /\ v.current => v = creds[n],
           secrets' = secrets, reconcile' = reconcile,
           seenCreds'[Operator] = seenCreds[Operator],
           seenSecrets'[Operator] = seenSecrets[Operator]
    PROVE  Strong'
  <1>0. /\ creds \in [Names -> Credential \cup {None}]
        /\ secrets \in [Names -> Secret \cup {None}]
        /\ seenCreds[Operator] \in [Names -> Credential \cup {None}]
        /\ seenSecrets[Operator] \in [Names -> Secret \cup {None}]
        /\ reconcile \in Reconcile \cup {None}
        /\ inputs \in Nat
    BY DEF TypeOK, ObjectsOK, ViewsOK, OperatorOK, WorldOK, Processes
  <1>1. UidsPast'
    BY <1>0, NoneAssumption
       DEF Strong, UidsPast, Seen, Owned, Credential, Secret, Owner, Reconcile
  <1>2. ASSUME NEW o \in Owner, o.uid <= inputs, Exists(o)' PROVE Exists(o)
    BY <1>0, <1>2, NoneAssumption DEF Exists, Owner, Credential
  <1>3. OwnedHasKey'
    BY DEF Strong, OwnedHasKey, Owned
  <1>4. ASSUME NEW s \in Names, Owned(secrets[s]), Exists(secrets[s].owner)'
        PROVE  Exists(secrets[s].owner)
    BY <1>0, <1>2, <1>4 DEF Strong, UidsPast, Owned, Secret
  <1>5. OwnerSeen'
    BY <1>4 DEF Strong, OwnerSeen, Owned, Seen, Exists
  <1>6. losses' = 0 => ViewStored'
    <2>1. ASSUME NEW s \in Names, Owned(seenSecrets[Operator][s]),
                 Exists(seenSecrets[Operator][s].owner)'
          PROVE  Exists(seenSecrets[Operator][s].owner)
      BY <1>0, <1>2, <2>1 DEF Strong, UidsPast, Owned, Secret
    <2> QED
      BY <2>1 DEF Strong, ViewStored, Owned, Exists
  <1>7. losses' = 0 => InFlight'
    <2> DEFINE o == [name |-> reconcile.name, uid |-> reconcile.cred.uid]
    <2>1. reconcile # None => o \in Owner /\ o.uid <= inputs
      BY <1>0 DEF Strong, UidsPast, Reconcile, Owner, Credential
    <2>2. reconcile # None /\ Exists(o)' => Exists(o)
      BY <2>1, <1>2
    <2> QED
      BY <2>2 DEF Strong, InFlight, Holds, ControlledBy, Exists
  <1>8. ReadyIsBacked'
    <2> SUFFICES ASSUME losses = 0, NEW m \in Names, Reports(m, "Resolved")'
                 PROVE  (~creds[m].spec.revoked
                         /\ Holds(creds[m].spec.secret, m, creds[m].uid))'
      BY DEF ReadyIsBacked
    <2>1. creds'[m] = creds[m]
      BY <1>0 DEF Reports
    <2> QED
      BY <2>1 DEF Strong, ReadyIsBacked, Reports, Holds, ControlledBy
  <1> QED
    BY <1>1, <1>3, <1>5, <1>6, <1>7, <1>8 DEF Strong

(* A Secret that is created without an owner, gets another key, or goes     *)
(* away: by hand, or because its owner did.                                 *)
LEMMA SecretChange ==
    ASSUME TypeOK, Strong, inputs' \in Nat, inputs' >= inputs,
           losses' \in Nat, losses' >= losses,
           NEW s \in Names, NEW w \in Secret \cup {None},
           secrets' = [secrets EXCEPT ![s] = w],
           \/ w = None /\ (losses' # 0 \/ (Owned(secrets[s]) /\ ~Exists(secrets[s].owner)))
           \/ w # None /\ secrets[s] = None /\ w.owner = None
           \/ w # None /\ secrets[s] # None /\ w.owner = secrets[s].owner /\ w.key # None,
           creds' = creds, reconcile' = reconcile,
           seenCreds'[Operator] = seenCreds[Operator],
           seenSecrets'[Operator] = seenSecrets[Operator]
    PROVE  Strong'
  <1>0. /\ creds \in [Names -> Credential \cup {None}]
        /\ secrets \in [Names -> Secret \cup {None}]
        /\ seenCreds[Operator] \in [Names -> Credential \cup {None}]
        /\ seenSecrets[Operator] \in [Names -> Secret \cup {None}]
        /\ reconcile \in Reconcile \cup {None}
        /\ inputs \in Nat /\ losses \in Nat
    BY DEF TypeOK, ObjectsOK, ViewsOK, OperatorOK, WorldOK, Processes
  <1>a. losses' = 0 => losses = 0
    BY <1>0
  <1>b. ASSUME NEW o PROVE Exists(o)' <=> Exists(o)
    BY DEF Exists
  <1>1. UidsPast'
    BY <1>0, NoneAssumption
       DEF Strong, UidsPast, Seen, Owned, Credential, Secret, Owner, Reconcile
  <1>2. OwnedHasKey'
    BY <1>0 DEF Strong, OwnedHasKey, Owned
  <1>3. OwnerSeen'
    BY <1>0 DEF Strong, OwnerSeen, Owned, Seen, Exists
  <1>4. losses' = 0 => ViewStored'
    BY <1>0, <1>a DEF Strong, ViewStored, Owned, Exists
  <1>5. ASSUME losses' = 0, NEW t \in Names, NEW m \in Names, NEW u \in Nat,
               Exists([name |-> m, uid |-> u]), Holds(t, m, u)
        PROVE  Holds(t, m, u)'
    <2>1. CASE t = s
      BY <2>1, <1>0, <1>5, NoneAssumption DEF Holds, ControlledBy, Owned, Owner
    <2>2. CASE t # s
      BY <2>2, <1>0, <1>5 DEF Holds, ControlledBy
    <2> QED
      BY <2>1, <2>2
  <1>6. losses' = 0 => InFlight'
    BY <1>0, <1>a, <1>5, CredentialFields DEF Strong, InFlight, Exists, Reconcile
  <1>7. ReadyIsBacked'
    <2> SUFFICES ASSUME losses' = 0, NEW m \in Names, Reports(m, "Resolved")
                 PROVE  ~creds[m].spec.revoked
                        /\ Holds(creds[m].spec.secret, m, creds[m].uid)'
      BY DEF ReadyIsBacked, Reports, Holds, ControlledBy
    <2>1. creds[m] \in Credential /\ Exists([name |-> m, uid |-> creds[m].uid])
      BY <1>0 DEF Reports, Exists
    <2> QED
      BY <2>1, <1>a, <1>5, CredentialFields DEF Strong, ReadyIsBacked
  <1> QED
    BY <1>1, <1>2, <1>3, <1>4, <1>6, <1>7 DEF Strong

(* A reconcile that ends, or that goes on to the status update without a    *)
(* write to the Secret.                                                     *)
LEMMA ReconcileChange ==
    ASSUME TypeOK, Strong, inputs' = inputs, losses' = losses,
           \/ reconcile' = None
           \/ /\ reconcile' \in Reconcile /\ reconcile'.cred.uid <= inputs
              /\ reconcile'.outcome = "Ensured" =>
                    /\ ~reconcile'.cred.spec.revoked
                    /\ losses = 0 /\ Exists([name |-> reconcile'.name, uid |-> reconcile'.cred.uid])
                          => Holds(reconcile'.cred.spec.secret, reconcile'.name, reconcile'.cred.uid),
           creds' = creds, secrets' = secrets,
           seenCreds'[Operator] = seenCreds[Operator],
           seenSecrets'[Operator] = seenSecrets[Operator]
    PROVE  Strong'
  <1>1. UidsPast'
    BY DEF Strong, UidsPast, Seen, Owned
  <1>2. OwnedHasKey' /\ OwnerSeen' /\ ReadyIsBacked'
    BY DEF Strong, OwnedHasKey, OwnerSeen, ReadyIsBacked, Seen, Owned, Exists,
           Reports, Holds, ControlledBy
  <1>3. losses' = 0 => ViewStored'
    BY DEF Strong, ViewStored, Owned, Exists
  <1>4. losses' = 0 => InFlight'
    BY DEF InFlight, Exists, Holds, ControlledBy
  <1> QED
    BY <1>1, <1>2, <1>3, <1>4 DEF Strong

(* ensureSecret writes the Secret, having found none or one that no other   *)
(* credential's name controls, and that is stored as it was seen.           *)
LEMMA EnsureChange ==
    ASSUME TypeOK, Strong, inputs' = inputs, losses' = losses,
           NEW n \in Names, Seen(n) # None, ~Seen(n).spec.revoked, NEW k \in Keys,
           NEW s, s = Seen(n).spec.secret,
           NEW w, w = [about |-> AboutOf(Seen(n).spec), key |-> k,
                       owner |-> [name |-> n, uid |-> Seen(n).uid]],
           secrets' = [secrets EXCEPT ![s] = w],
           secrets[s] # None => MayControl(secrets[s], n),
           reconcile' = [name |-> n, cred |-> Seen(n), outcome |-> "Ensured"],
           creds' = creds,
           seenCreds'[Operator] = seenCreds[Operator],
           seenSecrets'[Operator] = seenSecrets[Operator]
    PROVE  Strong'
  <1>0. /\ creds \in [Names -> Credential \cup {None}]
        /\ secrets \in [Names -> Secret \cup {None}]
        /\ seenCreds[Operator] \in [Names -> Credential \cup {None}]
        /\ seenSecrets[Operator] \in [Names -> Secret \cup {None}]
        /\ inputs \in Nat
    BY DEF TypeOK, ObjectsOK, ViewsOK, OperatorOK, WorldOK, Processes
  <1>c. Seen(n) \in Credential /\ Seen(n).uid <= inputs /\ s \in Names
    BY <1>0, CredentialFields DEF Seen, Strong, UidsPast
  <1>d. /\ secrets'[s] # None /\ secrets'[s].key = k /\ k # None
        /\ secrets'[s].owner = [name |-> n, uid |-> Seen(n).uid]
        /\ secrets'[s].owner # None
    <2>1. w \in Secret
      BY <1>c, OwnedSecretType
    <2>2. w.owner \in Owner
      BY <1>c, CredentialFields DEF Owner
    <2> QED
      BY <1>0, <1>c, <2>1, <2>2, NoneAssumption
  <1>e. \A t \in Names : t # s => secrets'[t] = secrets[t]
    BY <1>0
  <1>f. ASSUME Owned(secrets[s]), Exists(secrets[s].owner)
        PROVE  secrets'[s].owner = secrets[s].owner
    <2>1. secrets[s].owner \in Owner /\ secrets[s].owner.name = n
      BY <1>0, <1>c, <1>f DEF Owned, Secret, MayControl
    <2>2. secrets[s].owner.uid = Seen(n).uid
      BY <1>c, <1>f, <2>1 DEF Strong, OwnerSeen
    <2> QED
      BY <1>d, <2>1, <2>2 DEF Owner
  <1>1. UidsPast'
    BY <1>0, <1>c, <1>d, <1>e DEF Strong, UidsPast, Seen, Owned
  <1>2. OwnedHasKey'
    BY <1>d, <1>e DEF Strong, OwnedHasKey, Owned
  <1>3. OwnerSeen'
    BY <1>c, <1>d, <1>e DEF Strong, OwnerSeen, Owned, Seen, Exists
  <1>4. losses' = 0 => ViewStored'
    <2> SUFFICES ASSUME losses = 0, NEW t \in Names, Owned(seenSecrets[Operator][t]),
                        Exists(seenSecrets[Operator][t].owner)
                 PROVE  secrets'[t] # None
                        /\ secrets'[t].owner = seenSecrets[Operator][t].owner
      BY DEF ViewStored, Owned, Exists
    <2>1. Owned(secrets[t]) /\ secrets[t].owner = seenSecrets[Operator][t].owner
      BY DEF Strong, ViewStored, Owned
    <2>2. Exists(secrets[t].owner)
      BY <2>1
    <2>3. CASE t = s
      BY <2>1, <2>2, <2>3, <1>d, <1>f
    <2>4. CASE t # s
      BY <2>1, <2>4, <1>e DEF Owned
    <2> QED
      BY <2>3, <2>4
  <1>5. losses' = 0 => InFlight'
    BY <1>d DEF InFlight, Holds, ControlledBy
  <1>6. ReadyIsBacked'
    <2> SUFFICES ASSUME losses = 0, NEW m \in Names, Reports(m, "Resolved")
                 PROVE  (~creds[m].spec.revoked
                         /\ Holds(creds[m].spec.secret, m, creds[m].uid))'
      BY DEF ReadyIsBacked, Reports
    <2> DEFINE t == creds[m].spec.secret
    <2>1. /\ ~creds[m].spec.revoked /\ t \in Names /\ Holds(t, m, creds[m].uid)
          /\ creds[m] \in Credential
      BY <1>0, CredentialFields DEF Strong, ReadyIsBacked, Reports
    <2>2. CASE t = s
      <3>1. [name |-> m, uid |-> creds[m].uid] \in Owner
        BY <2>1, CredentialFields DEF Owner
      <3>2. Owned(secrets[s]) /\ Exists(secrets[s].owner)
        BY <2>1, <2>2, <3>1, NoneAssumption DEF Holds, ControlledBy, Owned, Exists, Reports
      <3> QED
        BY <2>1, <2>2, <3>2, <1>d, <1>f DEF Holds, ControlledBy
    <2>3. CASE t # s
      BY <2>1, <2>3, <1>e DEF Holds, ControlledBy
    <2> QED
      BY <2>2, <2>3
  <1> QED
    BY <1>1, <1>2, <1>3, <1>4, <1>5, <1>6 DEF Strong

(* The operator's view catches up with the API server.                      *)
LEMMA ViewChange ==
    ASSUME TypeOK, Strong, inputs' = inputs, losses' = losses,
           creds' = creds, secrets' = secrets,
           reconcile' = reconcile \/ reconcile' = None,
           \A n \in Names : seenCreds'[Operator][n] \in {seenCreds[Operator][n], creds[n]},
           \A n \in Names : seenSecrets'[Operator][n] \in {seenSecrets[Operator][n], secrets[n]}
    PROVE  Strong'
  <1>1. UidsPast'
    BY DEF Strong, UidsPast, Seen, Owned
  <1>2. OwnedHasKey' /\ ReadyIsBacked'
    BY DEF Strong, OwnedHasKey, ReadyIsBacked, Owned, Reports, Holds, ControlledBy
  <1>3. OwnerSeen'
    BY DEF Strong, OwnerSeen, Owned, Seen, Exists, TypeOK, ObjectsOK, Secret, Owner
  <1>4. losses' = 0 => ViewStored'
    BY DEF Strong, ViewStored, Owned, Exists
  <1>5. losses' = 0 => InFlight'
    BY DEF Strong, InFlight, Exists, Holds, ControlledBy
  <1> QED
    BY <1>1, <1>2, <1>3, <1>4, <1>5 DEF Strong

-----------------------------------------------------------------------------
(* Every step makes one of those changes.                                   *)

(* Each step of the reconciler keeps the invariant: its write to the Secret *)
(* (EnsureChange) as well as its status update (CredentialChange).          *)
LEMMA OperatorStepStrong ==
    ASSUME TypeOK, Strong, OperatorStep
    PROVE  Strong'
  <1> USE DEF views, api, world
  <1>0. /\ inputs \in Nat
        /\ \A m \in Names : Seen(m) # None =>
              Seen(m) \in Credential /\ Seen(m).uid <= inputs
    BY DEF TypeOK, WorldOK, ViewsOK, Processes, Seen, Strong, UidsPast
  <1>1. ASSUME NEW n \in Names, ReconcileGone(n) \/ Resync(n) PROVE Strong'
    BY <1>0, <1>1, Quiet DEF ReconcileGone, Start, Resync
  <1>2. ASSUME NEW n \in Names, Seen(n) # None,
               NEW o \in {"Invalid", "Unavailable"},
               reconcile' = [name |-> n, cred |-> Seen(n), outcome |-> o],
               UNCHANGED <<api, views, handler, world>>
        PROVE  Strong'
    <2>1. reconcile' \in Reconcile /\ reconcile'.cred.uid <= inputs
          /\ reconcile'.outcome # "Ensured"
      BY <1>0, <1>2, CarryType
    <2> QED
      BY <2>1, <1>2, ReconcileChange
  <1>3. ASSUME NEW n \in Names, ReconcileUnresolved(n) PROVE Strong'
    BY <1>2, <1>3 DEF ReconcileUnresolved, Carry, Seen
  <1>4. ASSUME NEW n \in Names, EnsureSecretFails(n) PROVE Strong'
    BY <1>2, <1>4 DEF EnsureSecretFails, StartEnsure, Carry, Seen
  <1>5. ASSUME NEW n \in Names, EnsureSecretKeeps(n) PROVE Strong'
    <2> DEFINE s == Seen(n).spec.secret
               o == [name |-> n, uid |-> Seen(n).uid]
    <2>1. /\ Seen(n) # None /\ Usable(Seen(n).spec)
          /\ reconcile' = [name |-> n, cred |-> Seen(n), outcome |-> "Ensured"]
          /\ Ensured(seenSecrets[Operator][s], n, Seen(n))
      BY <1>5 DEF EnsureSecretKeeps, StartEnsure, Carry, Seen
    <2>2. Seen(n) \in Credential /\ s \in Names /\ o \in Owner
      BY <1>0, <2>1, CredentialFields DEF Owner
    <2>3. Owned(seenSecrets[Operator][s]) /\ seenSecrets[Operator][s].owner = o
      BY <2>1, <2>2, NoneAssumption DEF Ensured, ControlledBy, Owned
    <2>4. losses = 0 /\ Exists(o) => Holds(s, n, Seen(n).uid)
      <3> SUFFICES ASSUME losses = 0, Exists(o) PROVE Holds(s, n, Seen(n).uid)
        OBVIOUS
      <3>1. secrets[s] # None /\ secrets[s].owner = o
        BY <2>2, <2>3 DEF Strong, ViewStored
      <3>2. secrets[s].key # None
        BY <2>2, <3>1, NoneAssumption DEF Strong, OwnedHasKey, Owned
      <3> QED
        BY <3>1, <3>2 DEF Holds, ControlledBy
    <2>5. reconcile' \in Reconcile /\ reconcile'.cred = Seen(n)
          /\ reconcile'.name = n
      BY <2>1, <2>2, CarryType
    <2>6. ~Seen(n).spec.revoked
      BY <2>1 DEF Usable
    <2> QED
      BY <1>0, <1>5, <2>1, <2>4, <2>5, <2>6, ReconcileChange DEF EnsureSecretKeeps
  <1>6. ASSUME NEW n \in Names, EnsureSecretCreates(n) PROVE Strong'
    BY <1>6, EnsureChange
       DEF EnsureSecretCreates, StartEnsure, Usable, Carry, Seen, Keys
  <1>7. ASSUME NEW n \in Names, EnsureSecretUpdates(n) PROVE Strong'
    BY <1>7, EnsureChange
       DEF EnsureSecretUpdates, StartEnsure, Usable, Carry, Seen, SameVersion
  <1>8. CASE UpdateStatusFails
    BY <1>8, ReconcileChange DEF UpdateStatusFails
  <1>9. CASE OperatorRestart
    <2>1. seenCreds'[Operator] = creds /\ seenSecrets'[Operator] = secrets
      BY <1>9 DEF OperatorRestart, TypeOK, ViewsOK, Processes
    <2> QED
      BY <2>1, <1>9, ViewChange DEF OperatorRestart
  <1>10. CASE UpdateStatus
    <2> DEFINE m == reconcile.name
               c == reconcile.cred
               v == [creds[m] EXCEPT !.ready = Reason(reconcile), !.current = TRUE]
    <2>1. /\ m \in Names /\ c \in Credential /\ creds[m] = c /\ reconcile # None
          /\ creds \in [Names -> Credential \cup {None}]
      BY <1>10 DEF UpdateStatus, SameVersion, TypeOK, OperatorOK, ObjectsOK, Reconcile
    <2>2. /\ creds' = [creds EXCEPT ![m] = v]
          /\ reconcile' = None /\ secrets' = secrets /\ inputs' = inputs /\ losses' = losses
          /\ seenCreds' = seenCreds /\ seenSecrets' = seenSecrets
      BY <1>10 DEF UpdateStatus
    <2>3. /\ v.uid = c.uid /\ v.spec = c.spec /\ v.ready = Reason(reconcile)
          /\ v # None /\ c # None
      <3>1. v \in Credential
        BY <2>1, ReasonType DEF Credential, TypeOK, OperatorOK
      <3> QED
        BY <2>1, <3>1, NoneAssumption DEF Credential
    <2> HIDE DEF v
    <2>4. /\ creds'[m] = v /\ \A k \in Names : k # m => creds'[k] = creds[k]
          /\ \A k \in Names : /\ creds'[k] = None <=> creds[k] = None
                              /\ creds[k] # None => creds'[k].uid = creds[k].uid
      BY <2>1, <2>2, <2>3
    <2>5. ASSUME NEW o \in Owner PROVE Exists(o)' <=> Exists(o)
      BY <2>4, <2>5 DEF Exists, Owner
    <2>6. UidsPast' /\ OwnedHasKey'
      BY <2>2, <2>4 DEF Strong, UidsPast, OwnedHasKey, Seen, Owned
    <2>7. OwnerSeen'
      BY <2>2, <2>5, NoneAssumption
         DEF Strong, OwnerSeen, Seen, Owned, TypeOK, ObjectsOK, Secret
    <2>8. losses' = 0 => ViewStored' /\ InFlight'
      BY <2>2, <2>5, NoneAssumption
         DEF Strong, ViewStored, InFlight, Owned, TypeOK, ViewsOK, Processes, Secret
    <2>9. ReadyIsBacked'
      <3> SUFFICES ASSUME losses = 0, NEW k \in Names, Reports(k, "Resolved")'
                   PROVE  (~creds[k].spec.revoked
                           /\ Holds(creds[k].spec.secret, k, creds[k].uid))'
        BY <2>2 DEF ReadyIsBacked
      <3>1. CASE k = m
        <4>1. reconcile.outcome = "Ensured"
          BY <3>1, <2>1, <2>3, <2>4, ReasonType DEF Reports, TypeOK, OperatorOK
        <4>2. Exists([name |-> m, uid |-> c.uid])
          BY <2>1, <2>3 DEF Exists
        <4>3. ~c.spec.revoked /\ Holds(c.spec.secret, m, c.uid)
          BY <4>1, <4>2, <2>1 DEF Strong, InFlight
        <4> QED
          BY <4>3, <3>1, <2>2, <2>3, <2>4 DEF Holds, ControlledBy
      <3>2. CASE k # m
        BY <3>2, <2>2, <2>4 DEF Strong, ReadyIsBacked, Reports, Holds, ControlledBy
      <3> QED
        BY <3>1, <3>2
    <2> QED
      BY <2>6, <2>7, <2>8, <2>9 DEF Strong
  <1> QED
    BY <1>1, <1>3, <1>4, <1>5, <1>6, <1>7, <1>8, <1>9, <1>10 DEF OperatorStep, Ensure

(* Requests in progress keep it: they never write a Secret they have not    *)
(* seen, nor touch its owner.                                               *)
LEMMA ServeStrong ==
    ASSUME TypeOK, Strong, NEW h \in Handlers, Serve(h)
    PROVE  Strong'
  <1> USE DEF views, api, world, operator
  <1>0. /\ inputs \in Nat /\ losses \in Nat /\ h # Operator
        /\ TypeOK'
    BY OperatorAssumption, ServeType DEF TypeOK, WorldOK
  <1>1. CASE StoreSecretCreates(h)
    <2> DEFINE s == handler[h].spec.secret
               w == [about |-> AboutOf(handler[h].spec), key |-> handler[h].req.key, owner |-> None]
    <2>1. s \in Names /\ w.owner = None
      BY <1>1, NoneAssumption
         DEF StoreSecretCreates, Storing, TypeOK, HandlersOK, HandlerState, CredentialSpec
    <2>2. secrets' = [secrets EXCEPT ![s] = w] /\ secrets[s] = None
      BY <1>1 DEF StoreSecretCreates
    <2>4. /\ creds' = creds /\ reconcile' = reconcile
          /\ seenCreds'[Operator] = seenCreds[Operator]
          /\ seenSecrets'[Operator] = seenSecrets[Operator]
          /\ inputs' \in Nat /\ inputs' >= inputs /\ losses' \in Nat /\ losses' >= losses
      BY <1>0, <1>1 DEF StoreSecretCreates
    <2>3. w \in Secret
      BY <1>1, AboutType, NoneAssumption
         DEF StoreSecretCreates, Storing, TypeOK, HandlersOK, HandlerState, Request, Secret, Keys
    <2> HIDE DEF w
    <2> QED
      BY <2>1, <2>2, <2>3, <2>4, NoneAssumption, SecretChange
  <1>2. CASE StoreSecretUpdates(h)
    <2> DEFINE s == handler[h].spec.secret
               old == seenSecrets[h][s]
               w == [old EXCEPT !.about = AboutOf(handler[h].spec), !.key = handler[h].req.key]
    <2>1. /\ secrets' = [secrets EXCEPT ![s] = w] /\ secrets[s] = old /\ old # None
          /\ handler[h].spec \in CredentialSpec /\ s \in Names
          /\ handler[h].req.key \in Keys /\ handler[h].req.key # None
      BY <1>2, NoneAssumption
         DEF StoreSecretUpdates, Storing, SameVersion, TypeOK, HandlersOK, HandlerState,
             CredentialSpec, Request, Keys
    <2>2. old \in Secret
      BY <2>1 DEF TypeOK, ObjectsOK
    <2>3. w \in Secret /\ w.owner = old.owner /\ w.key # None
      BY <2>1, <2>2, AboutType DEF Secret
    <2>4. /\ creds' = creds /\ reconcile' = reconcile
          /\ seenCreds'[Operator] = seenCreds[Operator]
          /\ seenSecrets'[Operator] = seenSecrets[Operator]
          /\ inputs' \in Nat /\ inputs' >= inputs /\ losses' \in Nat /\ losses' >= losses
      BY <1>0, <1>2 DEF StoreSecretUpdates
    <2> HIDE DEF w
    <2> QED
      BY <2>1, <2>3, <2>4, NoneAssumption, SecretChange
  <1>3. CASE StoreSecretKeeps(h)
    BY <1>0, <1>3, Quiet DEF StoreSecretKeeps
  <1>4. CASE StoreSecretFails(h)
    BY <1>0, <1>4, Quiet DEF StoreSecretFails
  <1>5. CASE AwaitSecret(h)
    BY <1>0, <1>5, Quiet DEF AwaitSecret
  <1>6. CASE ListCredentials(h)
    BY <1>0, <1>6, Quiet DEF ListCredentials
  <1>7. ASSUME NEW n \in Names, DeleteListed(h, n) PROVE Strong'
    <2>1. CASE creds' = creds
      BY <1>0, <1>7, <2>1, Quiet DEF DeleteListed
    <2>2. CASE creds' = [creds EXCEPT ![n] = None]
      <3>1. /\ secrets' = secrets /\ reconcile' = reconcile
            /\ seenCreds'[Operator] = seenCreds[Operator]
            /\ seenSecrets'[Operator] = seenSecrets[Operator]
            /\ inputs' \in Nat /\ inputs' >= inputs /\ losses' = losses
        BY <1>0, <1>7 DEF DeleteListed
      <3> QED
        BY <2>2, <3>1, CredentialChange
    <2> QED
      BY <1>7, <2>1, <2>2 DEF DeleteListed
  <1>8. CASE FinishDelete(h)
    BY <1>0, <1>8, Quiet DEF FinishDelete
  <1>9. CASE HandlerRestart(h)
    <2>1. /\ seenCreds'[Operator] = seenCreds[Operator]
          /\ seenSecrets'[Operator] = seenSecrets[Operator]
      BY <1>0, <1>9 DEF HandlerRestart, TypeOK, ViewsOK, Processes
    <2> QED
      BY <1>0, <1>9, <2>1, Quiet DEF HandlerRestart
  <1> QED
    BY <1>1, <1>2, <1>3, <1>4, <1>5, <1>6, <1>7, <1>8, <1>9 DEF Serve

(* New requests keep it: a created object has a fresh uid, a revoked one a  *)
(* status that is no longer current.                                        *)
LEMMA AcceptStrong ==
    ASSUME TypeOK, Strong, NEW h \in Handlers, NEW req \in Requests, Accept(h, req)
    PROVE  Strong'
  <1> USE DEF views, api, operator, Receive, Input
  <1>0. /\ inputs \in Nat /\ inputs + 1 \in Nat /\ inputs + 1 >= inputs
        /\ creds \in [Names -> Credential \cup {None}]
        /\ RequestedSpec(req) \in CredentialSpec
        /\ CredentialName[req.accessKey] \in Names
    BY NamesAssumption, InputsAssumption
       DEF TypeOK, WorldOK, ObjectsOK, RequestedSpec, Request, CredentialSpec
  <1>1. CASE CreateCredential(h, req)
    <2> DEFINE v == NewCredential(RequestedSpec(req))
    <2>1. v \in Credential /\ v.uid = inputs + 1 /\ v.current = FALSE /\ v # None
      BY <1>0, NewCredentialType, NoneAssumption DEF TypeOK, NewCredential
    <2> HIDE DEF v
    <2>2. creds' = [creds EXCEPT ![CredentialName[req.accessKey]] = v]
      BY <1>1 DEF CreateCredential, v
    <2> QED
      BY <1>0, <1>1, <2>1, <2>2, CredentialChange DEF CreateCredential
  <1>2. CASE CreateCredentialExists(h, req)
    BY <1>0, <1>2, Quiet DEF CreateCredentialExists
  <1>3. CASE CreateCredentialFails(h, req)
    BY <1>0, <1>3, Quiet DEF CreateCredentialFails
  <1>4. CASE RevokeCredential(h, req)
    <2>1. PICK n \in Found(h, req.accessKey) :
             SameVersion(creds[n], seenCreds[h][n]) /\ creds' = [creds EXCEPT ![n] = Revoked(@)]
      BY <1>4 DEF RevokeCredential
    <2> DEFINE c == creds[n]
               v == Revoked(c)
    <2>2. n \in Names /\ c \in Credential /\ c # None
      BY <1>0, <2>1 DEF Found, SameVersion
    <2>3. /\ v \in Credential /\ v # None /\ v.uid = c.uid
          /\ v.current => v = c
      <3>1. v \in Credential /\ v.uid = c.uid
        BY <2>2 DEF Revoked, Credential, CredentialSpec
      <3>2. v.current => c.current /\ c.spec.revoked
        BY <2>2 DEF Revoked, Credential
      <3>3. c.current /\ c.spec.revoked => v = c
        BY <2>2 DEF Revoked, Credential, CredentialSpec
      <3> QED
        BY <3>1, <3>2, <3>3, NoneAssumption
    <2>4. creds' = [creds EXCEPT ![n] = v]
      BY <2>1
    <2> HIDE DEF v
    <2> QED
      BY <1>0, <1>4, <2>2, <2>3, <2>4, CredentialChange DEF RevokeCredential
  <1>5. CASE RevokeCredentialFails(h, req)
    BY <1>0, <1>5, Quiet DEF RevokeCredentialFails
  <1>6. CASE DeleteUser(h, req)
    BY <1>0, <1>6, Quiet DEF DeleteUser
  <1>7. CASE DeleteUserFails(h, req)
    BY <1>0, <1>7, Quiet DEF DeleteUserFails
  <1> QED
    BY <1>1, <1>2, <1>3, <1>4, <1>5, <1>6, <1>7 DEF Accept

(* Watch events keep it: what the operator comes to see is what is stored.  *)
LEMMA WatchStepStrong ==
    ASSUME TypeOK, Strong, WatchStep
    PROVE  Strong'
  <1> USE DEF views, api, world, operator
  <1>0. inputs \in Nat
    BY DEF TypeOK, WorldOK
  <1>1. ASSUME NEW p \in Processes, NEW u \in Users, SyncUser(p, u) PROVE Strong'
    BY <1>0, <1>1, Quiet DEF SyncUser
  <1>2. ASSUME NEW p \in Processes, NEW n \in Names, SyncCredential(p, n) PROVE Strong'
    BY <1>2, ViewChange DEF SyncCredential, TypeOK, ViewsOK
  <1>3. ASSUME NEW p \in Processes, NEW n \in Names, SyncSecret(p, n) PROVE Strong'
    BY <1>3, ViewChange DEF SyncSecret, TypeOK, ViewsOK
  <1> QED
    BY <1>1, <1>2, <1>3 DEF WatchStep

(* So do kubectl, the garbage collector and the clock.                      *)
LEMMA EnvironmentStepStrong ==
    ASSUME TypeOK, Strong, EnvironmentStep
    PROVE  Strong'
  <1> USE DEF views, api, world, operator, Input
  <1>0. /\ inputs \in Nat /\ inputs + 1 \in Nat /\ inputs + 1 >= inputs
        /\ losses \in Nat /\ losses + 1 \in Nat /\ losses + 1 >= losses /\ losses + 1 # 0
        /\ creds \in [Names -> Credential \cup {None}]
    BY DEF TypeOK, WorldOK, ObjectsOK
  <1>1. ASSUME NEW u \in Users, ApplyUser(u) \/ RemoveUser(u) PROVE Strong'
    BY <1>0, <1>1, Quiet DEF ApplyUser, RemoveUser
  <1>2. ASSUME NEW m \in Manifests, ApplyCredential(m) PROVE Strong'
    <2>1. m.name \in Names /\ m.spec \in CredentialSpec
      BY InputsAssumption DEF Manifest
    <2> DEFINE c == creds[m.name]
    <2>2. CASE c = None
      <3> DEFINE v == NewCredential(m.spec)
      <3>1. v \in Credential /\ v.uid = inputs + 1 /\ v.current = FALSE /\ v # None
        BY <2>1, NewCredentialType, NoneAssumption DEF TypeOK, NewCredential
      <3>2. creds' = [creds EXCEPT ![m.name] = v]
        BY <1>2, <2>2 DEF ApplyCredential
      <3> HIDE DEF v
      <3> QED
        BY <1>0, <1>2, <2>1, <3>1, <3>2, CredentialChange DEF ApplyCredential
    <2>3. CASE c # None
      <3> DEFINE v == Applied(c, m.spec)
      <3>1. c \in Credential
        BY <1>0, <2>1, <2>3
      <3>2. v \in Credential /\ v.uid = c.uid
        BY <3>1, <2>1 DEF Applied, Credential
      <3>3. v.current => c.current /\ c.spec = m.spec
        BY <3>1 DEF Applied, Credential
      <3>4. c.current /\ c.spec = m.spec => v = c
        BY <3>1 DEF Applied, Credential
      <3>5. creds' = [creds EXCEPT ![m.name] = v]
        BY <1>2, <2>3 DEF ApplyCredential
      <3> HIDE DEF v
      <3> QED
        BY <1>0, <1>2, <2>1, <2>3, <3>2, <3>3, <3>4, <3>5, NoneAssumption, CredentialChange
           DEF ApplyCredential
    <2> QED
      BY <2>2, <2>3
  <1>3. ASSUME NEW m \in LooseSecrets, ApplySecret(m) PROVE Strong'
    <2> DEFINE w == [about |-> None, key |-> m.key, owner |-> None]
    <2>1. m.name \in Names /\ w \in Secret /\ w.owner = None
      BY InputsAssumption DEF LooseSecret, Secret
    <2>2. secrets[m.name] = None /\ secrets' = [secrets EXCEPT ![m.name] = w]
      BY <1>3 DEF ApplySecret
    <2>3. /\ creds' = creds /\ reconcile' = reconcile
          /\ seenCreds'[Operator] = seenCreds[Operator]
          /\ seenSecrets'[Operator] = seenSecrets[Operator]
          /\ inputs' \in Nat /\ inputs' >= inputs /\ losses' \in Nat /\ losses' >= losses
      BY <1>0, <1>3 DEF ApplySecret
    <2> HIDE DEF w
    <2> QED
      BY <2>1, <2>2, <2>3, NoneAssumption, SecretChange
  <1>4. ASSUME NEW n \in Names, RemoveCredential(n) PROVE Strong'
    BY <1>0, <1>4, CredentialChange DEF RemoveCredential
  <1>5. ASSUME NEW n \in Names, LoseSecret(n) PROVE Strong'
    <2>1. /\ creds' = creds /\ reconcile' = reconcile
          /\ seenCreds'[Operator] = seenCreds[Operator]
          /\ seenSecrets'[Operator] = seenSecrets[Operator]
          /\ inputs' \in Nat /\ inputs' >= inputs /\ losses' \in Nat /\ losses' >= losses
      BY <1>0, <1>5 DEF LoseSecret
    <2>2. secrets' = [secrets EXCEPT ![n] = None] /\ losses' # 0
      BY <1>0, <1>5 DEF LoseSecret
    <2> QED
      BY <2>1, <2>2, SecretChange
  <1>6. ASSUME NEW n \in Names, CollectSecret(n) PROVE Strong'
    <2>1. /\ creds' = creds /\ reconcile' = reconcile
          /\ seenCreds'[Operator] = seenCreds[Operator]
          /\ seenSecrets'[Operator] = seenSecrets[Operator]
          /\ inputs' \in Nat /\ inputs' >= inputs /\ losses' \in Nat /\ losses' >= losses
      BY <1>0, <1>6 DEF CollectSecret
    <2>2. /\ secrets' = [secrets EXCEPT ![n] = None]
          /\ Owned(secrets[n]) /\ ~Exists(secrets[n].owner)
      BY <1>6 DEF CollectSecret, Owned
    <2> QED
      BY <2>1, <2>2, SecretChange
  <1>7. CASE Expire
    BY <1>0, <1>7, Quiet DEF Expire
  <1> QED
    BY <1>1, <1>2, <1>3, <1>4, <1>5, <1>6, <1>7 DEF EnvironmentStep

(* The invariant holds before anything exists.                              *)
LEMMA InitStrong == Init => Strong
  <1> SUFFICES ASSUME Init PROVE Strong
    OBVIOUS
  <1>1. /\ \A n \in Names : creds[n] = None /\ secrets[n] = None
        /\ \A n \in Names : Seen(n) = None /\ seenSecrets[Operator][n] = None
        /\ reconcile = None
    BY DEF Init, Seen, Processes
  <1> QED
    BY <1>1 DEF Strong, UidsPast, OwnedHasKey, OwnerSeen, ViewStored, InFlight,
                ReadyIsBacked, Reports, Owned

(* The invariant under which the operator's status is right is inductive.   *)
LEMMA NextStrong == TypeOK /\ Strong /\ [Next]_vars => Strong'
  <1> SUFFICES ASSUME TypeOK, Strong, [Next]_vars PROVE Strong'
    OBVIOUS
  <1>1. CASE OperatorStep
    BY <1>1, OperatorStepStrong
  <1>2. CASE HandlerStep
    BY <1>2, ServeStrong, AcceptStrong DEF HandlerStep
  <1>3. CASE WatchStep
    BY <1>3, WatchStepStrong
  <1>4. CASE EnvironmentStep
    BY <1>4, EnvironmentStepStrong
  <1>5. CASE UNCHANGED vars
    <2>1. inputs \in Nat
      BY DEF TypeOK, WorldOK
    <2> QED
      BY <1>5, <2>1, Quiet DEF vars
  <1> QED
    BY <1>1, <1>2, <1>3, <1>4, <1>5 DEF Next

(* The two ways to write the invariant agree.                               *)
LEMMA StrongIsIInv == IInv <=> TypeOK /\ Strong
  BY DEF IInv, Strong

(* The whole inductive invariant holds of every reachable state.            *)
THEOREM IInvHolds == Spec => []IInv
  BY InitType, InitStrong, NextType, NextStrong, StrongIsIInv, PTL DEF Spec

(* A credential reported Ready by an up-to-date status is not revoked and   *)
(* has a Secret with a key that this very object controls, for every        *)
(* cluster and every interleaving, as long as no Secret is deleted by hand. *)
THEOREM ReadyIsBackedHolds == Spec => []ReadyIsBacked
  <1>1. IInv => ReadyIsBacked
    BY DEF IInv
  <1> QED
    BY <1>1, IInvHolds, PTL

-----------------------------------------------------------------------------
(* KeysStay: which steps write a Secret, and what they leave of it.         *)

(* A step that leaves the Secrets alone replaces no key.                    *)
LEMMA UntouchedKeeps == secrets' = secrets => KeepsKeys
  BY DEF KeepsKeys

(* A write that finds no Secret, or that deletes one, replaces nothing.     *)
LEMMA ElsewhereKeeps ==
    ASSUME TypeOK, NEW s \in Names, NEW w,
           secrets' = [secrets EXCEPT ![s] = w],
           secrets[s] = None \/ w = None
    PROVE  KeepsKeys
  BY DEF KeepsKeys, TypeOK, ObjectsOK

(* ensureSecret writes back the key it read, under a controller of the same *)
(* name.                                                                    *)
LEMMA EnsureKeeps ==
    ASSUME TypeOK, NEW n \in Names, Ensure(n)
    PROVE  KeepsKeys
  <1> DEFINE c == Seen(n)
             s == c.spec.secret
             new(k) == [about |-> AboutOf(c.spec), key |-> k,
                        owner |-> [name |-> n, uid |-> c.uid]]
  <1>0. c # None => c \in Credential /\ s \in Names
    BY CredentialFields DEF Seen, TypeOK, ViewsOK, Processes
  <1>1. CASE EnsureSecretCreates(n)
    <2>1. PICK k \in GeneratedKeys : secrets' = [secrets EXCEPT ![s] = new(k)]
      BY <1>1 DEF EnsureSecretCreates, Seen
    <2>2. s \in Names /\ secrets[s] = None
      BY <1>0, <1>1 DEF EnsureSecretCreates, StartEnsure, Seen
    <2> HIDE DEF new
    <2> QED
      BY <2>1, <2>2, ElsewhereKeeps
  <1>2. CASE EnsureSecretUpdates(n)
    <2>1. /\ s \in Names /\ c \in Credential /\ secrets[s] \in Secret /\ MayControl(secrets[s], n)
      BY <1>0, <1>2
         DEF EnsureSecretUpdates, StartEnsure, SameVersion, Seen, TypeOK, ObjectsOK
    <2>2. PICK k \in Keys : /\ secrets' = [secrets EXCEPT ![s] = new(k)]
                            /\ secrets[s].key # None => k = secrets[s].key
      BY <1>2 DEF EnsureSecretUpdates, SameVersion, Seen
    <2>3. new(k) \in Secret /\ new(k).key = k /\ new(k).owner.name = n /\ new(k).owner # None
      <3>1. [name |-> n, uid |-> c.uid] \in Owner
        BY <2>1, CredentialFields DEF Owner
      <3> QED
        BY <2>1, <3>1, OwnedSecretType, NoneAssumption
    <2> HIDE DEF new
    <2>4. secrets'[s] = new(k) /\ \A t \in Names : t # s => secrets'[t] = secrets[t]
      BY <2>1, <2>2 DEF TypeOK, ObjectsOK
    <2>5. /\ secrets[s].key # None => secrets'[s].key = secrets[s].key
          /\ secrets[s].owner # None =>
                secrets'[s].owner # None /\ secrets'[s].owner.name = secrets[s].owner.name
      BY <2>1, <2>2, <2>3, <2>4 DEF MayControl
    <2> QED
      BY <2>4, <2>5 DEF KeepsKeys
  <1>3. ~EnsureSecretCreates(n) /\ ~EnsureSecretUpdates(n) => secrets' = secrets
    BY DEF Ensure, ReconcileGone, ReconcileUnresolved, EnsureSecretKeeps, EnsureSecretFails, api
  <1> QED
    BY <1>1, <1>2, <1>3, UntouchedKeeps

(* ensureCredentialSecret replaces only the key its handler has seen.       *)
LEMMA ServeKeeps ==
    ASSUME TypeOK, NEW h \in Handlers, Serve(h)
    PROVE  KeepsKeys
  <1> DEFINE s == handler[h].spec.secret
  <1>0. Storing(h) => s \in Names
    BY DEF Storing, TypeOK, HandlersOK, HandlerState, CredentialSpec
  <1>1. CASE StoreSecretCreates(h)
    BY <1>0, <1>1, ElsewhereKeeps DEF StoreSecretCreates
  <1>2. CASE StoreSecretUpdates(h)
    <2> DEFINE old == secrets[s]
               w == [old EXCEPT !.about = AboutOf(handler[h].spec), !.key = handler[h].req.key]
    <2>1. /\ s \in Names /\ Storing(h) /\ seenSecrets[h][s] = secrets[s]
          /\ secrets[s] \in Secret /\ secrets' = [secrets EXCEPT ![s] = w]
      BY <1>0, <1>2 DEF StoreSecretUpdates, SameVersion, TypeOK, ObjectsOK
    <2>2. w.owner = secrets[s].owner /\ w.key = handler[h].req.key
      BY <2>1 DEF Secret
    <2> HIDE DEF w
    <2>3. secrets'[s] = w /\ \A t \in Names : t # s => secrets'[t] = secrets[t]
      BY <2>1 DEF TypeOK, ObjectsOK
    <2> QED
      BY <2>1, <2>2, <2>3 DEF KeepsKeys
  <1>3. ~StoreSecretCreates(h) /\ ~StoreSecretUpdates(h) => secrets' = secrets
    BY DEF Serve, StoreSecretKeeps, StoreSecretFails, AwaitSecret, ListCredentials,
           DeleteListed, FinishDelete, HandlerRestart, api
  <1> QED
    BY <1>1, <1>2, <1>3, UntouchedKeeps

(* Nothing outside the two programs rewrites a Secret in place.             *)
LEMMA EnvironmentKeeps ==
    ASSUME TypeOK, EnvironmentStep
    PROVE  KeepsKeys
  <1>1. ASSUME NEW m \in LooseSecrets, ApplySecret(m) PROVE KeepsKeys
    <2>1. m.name \in Names
      BY InputsAssumption DEF LooseSecret
    <2> QED
      BY <1>1, <2>1, ElsewhereKeeps DEF ApplySecret
  <1>2. ASSUME NEW n \in Names, LoseSecret(n) \/ CollectSecret(n) PROVE KeepsKeys
    BY <1>2, ElsewhereKeeps DEF LoseSecret, CollectSecret
  <1>3. ASSUME NEW u \in Users, ApplyUser(u) \/ RemoveUser(u) PROVE KeepsKeys
    BY <1>3, UntouchedKeeps DEF ApplyUser, RemoveUser
  <1>4. ASSUME NEW m \in Manifests, ApplyCredential(m) PROVE KeepsKeys
    BY <1>4, UntouchedKeeps DEF ApplyCredential
  <1>5. ASSUME NEW n \in Names, RemoveCredential(n) PROVE KeepsKeys
    BY <1>5, UntouchedKeeps DEF RemoveCredential
  <1>6. CASE Expire
    BY <1>6, UntouchedKeeps DEF Expire, api
  <1> QED
    BY <1>1, <1>2, <1>3, <1>4, <1>5, <1>6 DEF EnvironmentStep

(* Hence no step at all replaces a key unseen or passes a Secret on.        *)
LEMMA NextKeeps == TypeOK /\ [Next]_vars => KeepsKeys
  <1> SUFFICES ASSUME TypeOK, [Next]_vars PROVE KeepsKeys
    OBVIOUS
  <1>1. CASE OperatorStep
    <2>1. (\E n \in Names : Ensure(n)) \/ secrets' = secrets
      BY <1>1 DEF OperatorStep, Resync, UpdateStatus, UpdateStatusFails, OperatorRestart, api
    <2> QED
      BY <2>1, EnsureKeeps, UntouchedKeeps
  <1>2. CASE HandlerStep
    <2>1. ASSUME NEW h \in Handlers, NEW req \in Requests, Accept(h, req)
          PROVE  secrets' = secrets
      BY <2>1 DEF Accept, CreateCredential, CreateCredentialExists, CreateCredentialFails,
                  RevokeCredential, RevokeCredentialFails, DeleteUser, DeleteUserFails, api
    <2> QED
      BY <1>2, <2>1, ServeKeeps, UntouchedKeeps DEF HandlerStep
  <1>3. CASE WatchStep
    BY <1>3, UntouchedKeeps DEF WatchStep, SyncUser, SyncCredential, SyncSecret, api
  <1>4. CASE EnvironmentStep
    BY <1>4, EnvironmentKeeps
  <1>5. CASE UNCHANGED vars
    BY <1>5, UntouchedKeeps DEF vars
  <1> QED
    BY <1>1, <1>2, <1>3, <1>4, <1>5 DEF Next

(* A stored key is only ever replaced by a request that supplies another    *)
(* one and has seen what it replaces; no Secret changes hands.              *)
THEOREM KeysStayHolds == Spec => KeysStay
  BY InitType, NextType, NextKeeps, PTL DEF Spec, KeysStay
================================================================================
