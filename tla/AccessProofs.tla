------------------------------ MODULE AccessProofs ------------------------------
(***************************************************************************)
(* Machine-checked proofs that credentials are their users': that operator, *)
(* auth server and kubectl of Credentials implement Access, and that what   *)
(* the operator calls Ready is served; for every set of users, names, keys, *)
(* handlers, requests and manifests and every bound.                        *)
(***************************************************************************)
EXTENDS CredentialsProofs

-----------------------------------------------------------------------------
(* What the steps do to the stored credentials.                             *)

(* The status says nothing about the spec.                                  *)
LEMMA UpdateStatusObjects ==
    ASSUME TypeOK, UpdateStatus
    PROVE  \A n \in Names : /\ creds[n] = None <=> creds'[n] = None
                            /\ creds[n] # None => creds'[n].spec = creds[n].spec
  <1> DEFINE n == reconcile.name
             c == [creds[n] EXCEPT !.ready = Reason(reconcile), !.current = TRUE]
  <1>1. n \in Names /\ creds[n] \in Credential /\ creds[n] # None
    BY DEF UpdateStatus, SameVersion, TypeOK, OperatorOK, ObjectsOK, Reconcile
  <1>2. Reason(reconcile) \in Reasons
    BY ReasonType DEF UpdateStatus, TypeOK, OperatorOK
  <1>3. c \in Credential /\ c.spec = creds[n].spec
    BY <1>1, <1>2 DEF Credential
  <1>4. c # None
    BY <1>3, NoneAssumption
  <1>5. creds' = [creds EXCEPT ![n] = c]
    BY DEF UpdateStatus
  <1> HIDE DEF c
  <1> QED
    BY <1>1, <1>3, <1>4, <1>5 DEF TypeOK, ObjectsOK

(* A request makes a credential only where there is none.                   *)
LEMMA CreateObjects ==
    ASSUME TypeOK, NEW h \in Handlers, NEW req \in Requests, CreateCredential(h, req)
    PROVE  LET n == CredentialName[req.accessKey] IN
           /\ n \in Names /\ creds[n] = None
           /\ creds'[n] # None /\ creds'[n].spec = RequestedSpec(req)
           /\ \A k \in Names : k # n => creds'[k] = creds[k]
  <1> DEFINE n == CredentialName[req.accessKey]
  <1>1. n \in Names /\ RequestedSpec(req) \in CredentialSpec
    BY NamesAssumption, InputsAssumption DEF RequestedSpec, Request, CredentialSpec
  <1>2. NewCredential(RequestedSpec(req)) # None
    BY <1>1, NewCredentialType, NoneAssumption DEF TypeOK
  <1>3. creds' = [creds EXCEPT ![n] = NewCredential(RequestedSpec(req))] /\ creds[n] = None
    BY DEF CreateCredential
  <1>4. NewCredential(RequestedSpec(req)).spec = RequestedSpec(req)
    BY DEF NewCredential
  <1> QED
    BY <1>1, <1>2, <1>3, <1>4 DEF TypeOK, ObjectsOK

(* A revocation finds a credential of the user and access key it names, and *)
(* changes nothing but that it is revoked.                                  *)
LEMMA RevokeObjects ==
    ASSUME TypeOK, NEW h \in Handlers, NEW req \in Requests, RevokeCredential(h, req)
    PROVE  \E n \in Names :
           /\ creds[n] # None /\ creds'[n] # None
           /\ creds[n].spec.user = req.user /\ creds[n].spec.accessKey = req.accessKey
           /\ creds'[n].spec.user = req.user /\ creds'[n].spec.accessKey = req.accessKey
           /\ creds'[n].spec.revoked = TRUE
           /\ \A k \in Names : k # n => creds'[k] = creds[k]
  <1>1. PICK n \in Found(h, req.accessKey) :
           /\ seenCreds[h][n].spec.user = req.user
           /\ SameVersion(creds[n], seenCreds[h][n])
           /\ creds' = [creds EXCEPT ![n] = Revoked(@)]
    BY DEF RevokeCredential
  <1>2. /\ n \in Names /\ creds[n] \in Credential
        /\ creds[n].spec.user = req.user /\ creds[n].spec.accessKey = req.accessKey
    BY <1>1 DEF Found, SameVersion, TypeOK, ObjectsOK
  <1> DEFINE c == Revoked(creds[n])
  <1>3. /\ c \in Credential /\ c.spec.revoked = TRUE
        /\ c.spec.user = creds[n].spec.user /\ c.spec.accessKey = creds[n].spec.accessKey
    BY <1>2 DEF Revoked, Credential, CredentialSpec
  <1>4. creds' = [creds EXCEPT ![n] = c]
    BY <1>1
  <1>5. c # None /\ creds[n] # None
    BY <1>2, <1>3, NoneAssumption
  <1> HIDE DEF c
  <1>6. creds'[n] = c /\ \A k \in Names : k # n => creds'[k] = creds[k]
    BY <1>2, <1>4 DEF TypeOK, ObjectsOK
  <1> QED
    BY <1>2, <1>3, <1>5, <1>6

(* kubectl leaves a credential with the spec it applies.                    *)
LEMMA ApplyObjects ==
    ASSUME TypeOK, NEW m \in Manifests, ApplyCredential(m)
    PROVE  LET n == m.name IN
           /\ n \in Names /\ creds'[n] # None /\ creds'[n].spec = m.spec
           /\ \A k \in Names : k # n => creds'[k] = creds[k]
  <1> DEFINE n == m.name
  <1>1. n \in Names /\ m.spec \in CredentialSpec
    BY InputsAssumption DEF Manifest
  <1>2. CASE creds[n] = None
    <2>1. NewCredential(m.spec) # None /\ NewCredential(m.spec).spec = m.spec
      BY <1>1, NewCredentialType, NoneAssumption DEF TypeOK, NewCredential
    <2> QED
      BY <1>1, <1>2, <2>1 DEF ApplyCredential, TypeOK, ObjectsOK
  <1>3. CASE creds[n] # None
    <2> DEFINE c == Applied(creds[n], m.spec)
    <2>1. creds[n] \in Credential
      BY <1>1, <1>3 DEF TypeOK, ObjectsOK
    <2>2. c \in Credential /\ c.spec = m.spec
      BY <1>1, <2>1 DEF Applied, Credential
    <2>3. creds' = [creds EXCEPT ![n] = c]
      BY <1>3 DEF ApplyCredential
    <2> HIDE DEF c
    <2> QED
      BY <1>1, <2>2, <2>3, NoneAssumption DEF TypeOK, ObjectsOK
  <1> QED
    BY <1>2, <1>3

(* A deletion leaves none.                                                  *)
LEMMA RemoveObjects ==
    ASSUME TypeOK, NEW n \in Names,
           RemoveCredential(n) \/ \E h \in Handlers : DeleteListed(h, n)
    PROVE  /\ creds'[n] = creds[n] \/ creds'[n] = None
           /\ \A k \in Names : k # n => creds'[k] = creds[k]
  BY DEF RemoveCredential, DeleteListed, TypeOK, ObjectsOK

(* No other step writes a credential.                                       *)
LEMMA ObjectSteps ==
    ASSUME [Next]_vars
    PROVE  \/ creds' = creds
           \/ UpdateStatus
           \/ \E h \in Handlers, req \in Requests :
                 CreateCredential(h, req) \/ RevokeCredential(h, req)
           \/ \E m \in Manifests : ApplyCredential(m)
           \/ \E n \in Names : RemoveCredential(n) \/ \E h \in Handlers : DeleteListed(h, n)
  <1> USE DEF api, views, operator, world
  <1>1. CASE OperatorStep
    BY <1>1 DEF OperatorStep, Ensure, ReconcileGone, ReconcileUnresolved, EnsureSecretCreates,
       EnsureSecretUpdates, EnsureSecretKeeps, EnsureSecretFails, Resync, UpdateStatusFails,
       OperatorRestart
  <1>2. ASSUME NEW h \in Handlers, Serve(h)
        PROVE  creds' = creds \/ \E n \in Names : DeleteListed(h, n)
    BY <1>2 DEF Serve, StoreSecretCreates, StoreSecretUpdates, StoreSecretKeeps, StoreSecretFails,
       AwaitSecret, ListCredentials, FinishDelete, HandlerRestart
  <1>3. ASSUME NEW h \in Handlers, NEW req \in Requests, Accept(h, req)
        PROVE  creds' = creds \/ CreateCredential(h, req) \/ RevokeCredential(h, req)
    BY <1>3 DEF Accept, CreateCredentialExists, CreateCredentialFails, RevokeCredentialFails,
       DeleteUser, DeleteUserFails
  <1>4. CASE WatchStep
    BY <1>4 DEF WatchStep, SyncUser, SyncCredential, SyncSecret
  <1>5. CASE EnvironmentStep
    BY <1>5 DEF EnvironmentStep, ApplyUser, RemoveUser, ApplySecret, LoseSecret, CollectSecret,
       Expire
  <1>6. CASE UNCHANGED vars
    BY <1>6 DEF vars
  <1> QED
    BY <1>1, <1>2, <1>3, <1>4, <1>5, <1>6 DEF Next, HandlerStep

-----------------------------------------------------------------------------
(* A name means a user somebody meant by it.                                *)

(* kubectl means by a name the user its manifest says, a request the user   *)
(* it is for.                                                               *)
LEMMA MakersCases ==
    /\ \A m \in Manifests : <<m.name, m.spec.user>> \in Makers
    /\ \A q \in Requests :
          q.op = "create" => <<CredentialName[q.accessKey], q.user>> \in Makers
  BY DEF Makers, Asking

(* What is stored belongs to a user meant,                                  *)
LEMMA NextStored ==
    ASSUME TypeOK, UsersMeant, [Next]_vars
    PROVE  StoredMeant'
  <1> USE DEF UsersMeant, StoredMeant
  <1>1. CASE creds' = creds
    BY <1>1
  <1>2. CASE UpdateStatus
    BY <1>2, UpdateStatusObjects
  <1>3. ASSUME NEW h \in Handlers, NEW req \in Requests, CreateCredential(h, req)
        PROVE  StoredMeant'
    <2>1. req.op = "create" /\ RequestedSpec(req).user = req.user
      BY <1>3 DEF CreateCredential, Receive, RequestedSpec
    <2> QED
      BY <1>3, <2>1, CreateObjects, MakersCases
  <1>4. ASSUME NEW h \in Handlers, NEW req \in Requests, RevokeCredential(h, req)
        PROVE  StoredMeant'
    <2>1. PICK n \in Names :
             /\ creds[n] # None
             /\ creds[n].spec.user = req.user /\ creds'[n].spec.user = req.user
             /\ \A k \in Names : k # n => creds'[k] = creds[k]
      BY <1>4, RevokeObjects
    <2>2. <<n, creds'[n].spec.user>> \in Makers
      BY <2>1
    <2>3. ASSUME NEW k \in Names, k # n, creds'[k] # None
          PROVE  <<k, creds'[k].spec.user>> \in Makers
      <3>1. creds'[k] = creds[k]
        BY <2>1, <2>3
      <3> QED
        BY <2>3, <3>1
    <2> QED
      BY <2>2, <2>3
  <1>5. ASSUME NEW m \in Manifests, ApplyCredential(m) PROVE StoredMeant'
    BY <1>5, ApplyObjects, MakersCases
  <1>6. ASSUME NEW n \in Names, RemoveCredential(n) \/ \E h \in Handlers : DeleteListed(h, n)
        PROVE  StoredMeant'
    BY <1>6, RemoveObjects
  <1> QED
    BY <1>1, <1>2, <1>3, <1>4, <1>5, <1>6, ObjectSteps

(* so does what a cache learns of it,                                       *)
LEMMA NextSeen ==
    ASSUME TypeOK, UsersMeant, [Next]_vars
    PROVE  SeenMeant'
  <1> USE DEF UsersMeant, StoredMeant, SeenMeant, api, views, operator, world
  <1>0. seenCreds \in [Processes -> [Names -> Credential \cup {None}]]
    BY DEF TypeOK, ViewsOK
  <1>1. ASSUME NEW p \in Processes, seenCreds' = [seenCreds EXCEPT ![p] = creds]
        PROVE  SeenMeant'
    BY <1>0, <1>1
  <1>2. ASSUME NEW p \in Processes, NEW n \in Names, SyncCredential(p, n)
        PROVE  SeenMeant'
    BY <1>0, <1>2 DEF SyncCredential
  <1>3. CASE OperatorStep
    <2>1. CASE OperatorRestart
      BY <1>1, <2>1 DEF OperatorRestart, Processes
    <2>2. CASE ~OperatorRestart
      BY <1>3, <2>2 DEF OperatorStep, Ensure, ReconcileGone, ReconcileUnresolved,
         EnsureSecretCreates, EnsureSecretUpdates, EnsureSecretKeeps, EnsureSecretFails, Resync,
         UpdateStatus, UpdateStatusFails
    <2> QED
      BY <2>1, <2>2
  <1>4. ASSUME NEW h \in Handlers, Serve(h) PROVE SeenMeant'
    <2>1. CASE HandlerRestart(h)
      BY <1>1, <2>1 DEF HandlerRestart, Processes
    <2>2. CASE ~HandlerRestart(h)
      BY <1>4, <2>2 DEF Serve, StoreSecretCreates, StoreSecretUpdates, StoreSecretKeeps,
         StoreSecretFails, AwaitSecret, ListCredentials, DeleteListed, FinishDelete
    <2> QED
      BY <2>1, <2>2
  <1>5. ASSUME NEW h \in Handlers, NEW req \in Requests, Accept(h, req) PROVE SeenMeant'
    BY <1>5 DEF Accept, CreateCredential, CreateCredentialExists, CreateCredentialFails,
       RevokeCredential, RevokeCredentialFails, DeleteUser, DeleteUserFails
  <1>6. CASE WatchStep
    BY <1>2, <1>6 DEF WatchStep, SyncUser, SyncSecret
  <1>7. CASE EnvironmentStep
    BY <1>7 DEF EnvironmentStep, ApplyUser, RemoveUser, ApplyCredential, RemoveCredential,
       ApplySecret, LoseSecret, CollectSecret, Expire
  <1>8. CASE UNCHANGED vars
    BY <1>8 DEF vars
  <1> QED
    BY <1>3, <1>4, <1>5, <1>6, <1>7, <1>8 DEF Next, HandlerStep

(* A handler that takes up a state fit for it,                              *)
Fit(st) ==
    /\ st.pc = "secret" =>
          {<<CredentialName[st.req.accessKey], st.req.user>>,
           <<CredentialName[st.req.accessKey], st.spec.user>>} \subseteq Makers
    /\ st.pc = "cascade" => \A n \in st.todo : <<n, st.req.user>> \in Makers
LEMMA TakesUp ==
    ASSUME TypeOK, UsersMeant, NEW h \in Handlers, NEW st,
           handler' = [handler EXCEPT ![h] = st], Fit(st)
    PROVE  ServedMeant'
  <1>1. /\ handler'[h] = st
        /\ \A k \in Handlers : k # h => handler'[k] = handler[k]
    BY DEF TypeOK, HandlersOK
  <1> QED
    BY <1>1 DEF UsersMeant, ServedMeant, Fit

(* such as that of a request that is over,                                  *)
LEMMA IdleFit == Fit(Idle) /\ Fit([Idle EXCEPT !.created = TRUE])
  BY DEF Fit, Idle

(* keeps to users meant through the rest of its request:                    *)
LEMMA ServeServed ==
    ASSUME TypeOK, UsersMeant, NEW h \in Handlers, Serve(h)
    PROVE  ServedMeant'
  <1>0. handler[h] \in HandlerState /\ h \in Processes
    BY DEF TypeOK, HandlersOK, Processes
  <1>1. CASE \/ StoreSecretCreates(h) \/ StoreSecretUpdates(h) \/ StoreSecretKeeps(h)
             \/ StoreSecretFails(h) \/ AwaitSecret(h) \/ FinishDelete(h) \/ HandlerRestart(h)
    <2>1. \E st \in {Idle, [Idle EXCEPT !.created = TRUE]} :
             handler' = [handler EXCEPT ![h] = st]
      BY <1>1 DEF StoreSecretCreates, StoreSecretUpdates, StoreSecretKeeps, StoreSecretFails,
         AwaitSecret, FinishDelete, HandlerRestart, Answer, AnswerCreated
    <2> QED
      BY <2>1, IdleFit, TakesUp
  <1>2. CASE ListCredentials(h)
    <2> DEFINE listed == {n \in Names : /\ seenCreds[h][n] # None
                                        /\ seenCreds[h][n].spec.user = handler[h].req.user}
               st == [handler[h] EXCEPT !.pc = "cascade", !.todo = listed]
    <2>1. st.pc = "cascade" /\ st.todo = listed /\ st.req = handler[h].req
      BY <1>0 DEF HandlerState
    <2>2. handler' = [handler EXCEPT ![h] = st]
      BY <1>2 DEF ListCredentials, TypeOK, HandlersOK
    <2>3. \A n \in listed : <<n, handler[h].req.user>> \in Makers
      BY <1>0 DEF UsersMeant, SeenMeant
    <2> HIDE DEF st, listed
    <2>4. Fit(st)
      BY <2>1, <2>3 DEF Fit
    <2> QED
      BY <2>2, <2>4, TakesUp
  <1>3. ASSUME NEW n \in Names, DeleteListed(h, n) PROVE ServedMeant'
    <2> DEFINE st == [handler[h] EXCEPT !.todo = @ \ {n}]
    <2>1. /\ st.pc = "cascade" /\ st.req = handler[h].req
          /\ st.todo \subseteq handler[h].todo /\ handler[h].pc = "cascade"
      BY <1>0, <1>3 DEF HandlerState, DeleteListed
    <2>2. handler' = [handler EXCEPT ![h] = st]
      BY <1>3 DEF DeleteListed, TypeOK, HandlersOK
    <2> HIDE DEF st
    <2>3. Fit(st)
      BY <2>1 DEF Fit, UsersMeant, ServedMeant
    <2> QED
      BY <2>2, <2>3, TakesUp
  <1> QED
    BY <1>1, <1>2, <1>3 DEF Serve

(* the one that goes on to the Secret among them, with the credential it    *)
(* made or the one the cache has under its name.                            *)
LEMMA AcceptServed ==
    ASSUME TypeOK, UsersMeant, NEW h \in Handlers, NEW req \in Requests, Accept(h, req)
    PROVE  ServedMeant'
  <1> DEFINE n == CredentialName[req.accessKey]
  <1>0. n \in Names /\ h \in Processes
    BY NamesAssumption, InputsAssumption DEF Request, Processes
  <1>1. ASSUME NEW spec, <<n, spec.user>> \in Makers, req.op = "create", Proceed(h, req, spec)
        PROVE  ServedMeant'
    <2> DEFINE st == [Idle EXCEPT !.pc = "secret", !.req = req, !.spec = spec]
    <2>1. st.pc = "secret" /\ st.req = req /\ st.spec = spec
      BY DEF Idle
    <2>2. handler' = [handler EXCEPT ![h] = st]
      BY <1>1 DEF Proceed
    <2> HIDE DEF st
    <2>3. Fit(st)
      BY <1>1, <2>1, MakersCases DEF Fit
    <2> QED
      BY <2>2, <2>3, TakesUp
  <1>2. ASSUME Answer(h) PROVE ServedMeant'
    BY <1>2, IdleFit, TakesUp DEF Answer
  <1>3. CASE CreateCredential(h, req)
    <2>1. RequestedSpec(req).user = req.user /\ req.op = "create"
      BY <1>3 DEF RequestedSpec, CreateCredential, Receive
    <2>2. <<n, RequestedSpec(req).user>> \in Makers
      BY <2>1, MakersCases
    <2> QED
      BY <1>1, <1>3, <2>1, <2>2 DEF CreateCredential
  <1>4. CASE CreateCredentialExists(h, req)
    <2>1. CASE seenCreds[h][n] = None
      BY <1>2, <1>4, <2>1 DEF CreateCredentialExists
    <2>2. CASE seenCreds[h][n] # None
      <3>1. <<n, seenCreds[h][n].spec.user>> \in Makers
        BY <1>0, <2>2 DEF UsersMeant, SeenMeant
      <3>2. req.op = "create" /\ Proceed(h, req, seenCreds[h][n].spec)
        BY <1>4, <2>2 DEF CreateCredentialExists, Receive
      <3> QED
        BY <1>1, <3>1, <3>2
    <2> QED
      BY <2>1, <2>2
  <1>5. CASE DeleteUser(h, req)
    <2> DEFINE st == [Idle EXCEPT !.pc = "list", !.req = req]
    <2>1. st.pc = "list" /\ handler' = [handler EXCEPT ![h] = st]
      BY <1>5 DEF Idle, DeleteUser
    <2> HIDE DEF st
    <2>2. Fit(st)
      BY <2>1 DEF Fit
    <2> QED
      BY <2>1, <2>2, TakesUp
  <1> QED
    BY <1>2, <1>3, <1>4, <1>5
       DEF Accept, CreateCredentialFails, RevokeCredential, RevokeCredentialFails, DeleteUserFails

(* Only handlers write what they hold.                                      *)
LEMMA NextServed ==
    ASSUME TypeOK, UsersMeant, [Next]_vars
    PROVE  ServedMeant'
  <1> USE DEF api, views, operator, world
  <1>1. CASE handler' = handler
    BY <1>1 DEF UsersMeant, ServedMeant
  <1>2. CASE OperatorStep
    BY <1>1, <1>2 DEF OperatorStep, Ensure, ReconcileGone, ReconcileUnresolved,
       EnsureSecretCreates, EnsureSecretUpdates, EnsureSecretKeeps, EnsureSecretFails, Resync,
       UpdateStatus, UpdateStatusFails, OperatorRestart
  <1>3. CASE HandlerStep
    BY <1>3, ServeServed, AcceptServed DEF HandlerStep
  <1>4. CASE WatchStep
    BY <1>1, <1>4 DEF WatchStep, SyncUser, SyncCredential, SyncSecret
  <1>5. CASE EnvironmentStep
    BY <1>1, <1>5 DEF EnvironmentStep, ApplyUser, RemoveUser, ApplyCredential, RemoveCredential,
       ApplySecret, LoseSecret, CollectSecret, Expire
  <1>6. CASE UNCHANGED vars
    BY <1>1, <1>6 DEF vars
  <1> QED
    BY <1>2, <1>3, <1>4, <1>5, <1>6 DEF Next

(* Whatever is stored, cached, in use or to be cleared away under a name    *)
(* belongs to a user that some request or manifest means by that name.      *)
THEOREM UsersMeantHolds == Spec => []UsersMeant
  <1>1. Init => UsersMeant
    <2> SUFFICES ASSUME Init PROVE UsersMeant
      OBVIOUS
    <2>1. Idle.pc = "idle"
      BY DEF Idle
    <2> QED
      BY <2>1 DEF Init, UsersMeant, StoredMeant, SeenMeant, ServedMeant
  <1>2. TypeOK /\ UsersMeant /\ [Next]_vars => UsersMeant'
    BY NextStored, NextSeen, NextServed DEF UsersMeant
  <1> QED
    BY <1>1, <1>2, TypeCorrect, PTL DEF Spec

(* A 201 hands out an access key of the user it names, as long as nobody    *)
(* means two users by one name.                                             *)
THEOREM AnswersNameOwner ==
    ASSUME OneUserPerName
    PROVE  Spec => AnswerNamesOwner
  <1>1. ASSUME UsersMeant, NEW h \in Handlers, handler[h].pc = "secret"
        PROVE  handler[h].spec.user = handler[h].req.user
    <2> DEFINE n == CredentialName[handler[h].req.accessKey]
    <2>1. <<n, handler[h].req.user>> \in Makers /\ <<n, handler[h].spec.user>> \in Makers
      BY <1>1 DEF UsersMeant, ServedMeant
    <2> QED
      BY <2>1 DEF OneUserPerName
  <1>2. UsersMeant => [\A h \in Handlers :
                          (handler[h].pc = "secret" /\ handler'[h].created) =>
                              handler[h].spec.user = handler[h].req.user]_vars
    BY <1>1
  <1> QED
    BY <1>2, UsersMeantHolds, PTL DEF Spec, AnswerNamesOwner

-----------------------------------------------------------------------------
(* The keys that the stored credentials are.                                *)

(* They have the names of the credentials, and their specs.                 *)
LEMMA KeysWhat ==
    \A j : j \in StoredKeys <=>
              \E n \in Names :
                  /\ creds[n] # None
                  /\ j = [name |-> n, user |-> creds[n].spec.user,
                          accessKey |-> creds[n].spec.accessKey,
                          revoked |-> creds[n].spec.revoked]
  BY DEF StoredKeys, Key

(* After a step as well.                                                    *)
LEMMA KeysWhatNext ==
    \A j : j \in StoredKeys' <=>
              \E n \in Names :
                  /\ creds'[n] # None
                  /\ j = [name |-> n, user |-> creds'[n].spec.user,
                          accessKey |-> creds'[n].spec.accessKey,
                          revoked |-> creds'[n].spec.revoked]
  BY DEF StoredKeys, Key

(* A step that keeps every spec keeps them.                                 *)
LEMMA KeysKept ==
    ASSUME \A n \in Names : /\ creds[n] = None <=> creds'[n] = None
                            /\ creds[n] # None => creds'[n].spec = creds[n].spec
    PROVE  StoredKeys' = StoredKeys
  <1>1. \A j : j \in StoredKeys' <=> j \in StoredKeys
    BY KeysWhat, KeysWhatNext
  <1> QED
    BY <1>1

(* A step that changes one credential adds and takes away only its key.     *)
LEMMA KeysChange ==
    ASSUME NEW n \in Names, \A k \in Names : k # n => creds'[k] = creds[k]
    PROVE  /\ \A j \in StoredKeys' \ StoredKeys :
                 creds'[n] # None /\ j = Key(n, creds'[n].spec)
           /\ \A j \in StoredKeys \ StoredKeys' :
                 creds[n] # None /\ j = Key(n, creds[n].spec)
  BY KeysWhat, KeysWhatNext DEF Key

(* A deletion being served is one of a user, until the handler does         *)
(* something else.                                                          *)
LEMMA LeavingChange ==
    ASSUME TypeOK, NEW h \in Handlers, NEW st, handler' = [handler EXCEPT ![h] = st]
    PROVE  /\ Leaving \in [Handlers -> Users \cup {None}]
           /\ Leaving' = [Leaving EXCEPT ![h] =
                 IF st.pc \in {"list", "cascade"} THEN st.req.user ELSE None]
  <1>1. ASSUME NEW k \in Handlers, handler[k].pc \in {"list", "cascade"}
        PROVE  handler[k].req.user \in Users
    BY <1>1 DEF TypeOK, HandlersOK, HandlerState, Request
  <1>2. /\ handler'[h] = st /\ \A k \in Handlers : k # h => handler'[k] = handler[k]
    BY DEF TypeOK, HandlersOK
  <1> DEFINE v == IF st.pc \in {"list", "cascade"} THEN st.req.user ELSE None
  <1>3. Leaving \in [Handlers -> Users \cup {None}]
    BY <1>1 DEF Leaving
  <1>4. Leaving' = [k \in Handlers |-> IF k = h THEN v ELSE Leaving[k]]
    <2>1. \A k \in Handlers :
             (IF handler'[k].pc \in {"list", "cascade"} THEN handler'[k].req.user ELSE None)
                = IF k = h THEN v ELSE Leaving[k]
      BY <1>2 DEF Leaving
    <2>2. Leaving' = [k \in Handlers |->
             IF handler'[k].pc \in {"list", "cascade"} THEN handler'[k].req.user ELSE None]
      BY DEF Leaving
    <2> HIDE DEF v
    <2> QED
      BY <2>1, <2>2
  <1>5. [Leaving EXCEPT ![h] = v] = [k \in Handlers |-> IF k = h THEN v ELSE Leaving[k]]
    BY <1>3
  <1> QED
    BY <1>3, <1>4, <1>5

-----------------------------------------------------------------------------
(* Every step is one of Access.                                             *)

Stays == UNCHANGED <<users, StoredKeys, Leaving, inputs>>

(* Requests that go on without deleting a credential, or are over.          *)
LEMMA ServeDone ==
    ASSUME TypeOK, NEW h \in Handlers,
           \/ StoreSecretCreates(h) \/ StoreSecretUpdates(h) \/ StoreSecretKeeps(h)
           \/ StoreSecretFails(h) \/ AwaitSecret(h) \/ FinishDelete(h) \/ HandlerRestart(h)
    PROVE  Granted!Done(h)
  <1> USE DEF api, views, operator, world
  <1>1. PICK st \in {Idle, [Idle EXCEPT !.created = TRUE]} : handler' = [handler EXCEPT ![h] = st]
    BY DEF StoreSecretCreates, StoreSecretUpdates, StoreSecretKeeps, StoreSecretFails,
       AwaitSecret, FinishDelete, HandlerRestart, Answer, AnswerCreated
  <1>2. users' = users /\ creds' = creds /\ inputs' = inputs
    BY DEF StoreSecretCreates, StoreSecretUpdates, StoreSecretKeeps, StoreSecretFails,
       AwaitSecret, FinishDelete, HandlerRestart
  <1>3. st.pc = "idle"
    BY DEF Idle
  <1>4. Leaving' = [Leaving EXCEPT ![h] = None]
    BY <1>1, <1>3, LeavingChange
  <1>5. StoredKeys' = StoredKeys
    BY <1>2, KeysKept
  <1> QED
    BY <1>2, <1>4, <1>5 DEF Granted!Done

(* Listing takes nothing away yet.                                          *)
LEMMA ListStays ==
    ASSUME TypeOK, NEW h \in Handlers, ListCredentials(h)
    PROVE  Stays
  <1> DEFINE st == [handler[h] EXCEPT !.pc = "cascade", !.todo =
                       {n \in Names : /\ seenCreds[h][n] # None
                                      /\ seenCreds[h][n].spec.user = handler[h].req.user}]
  <1>0. handler[h] \in HandlerState /\ handler[h].pc = "list"
    BY DEF ListCredentials, TypeOK, HandlersOK
  <1>1. st.pc = "cascade" /\ st.req = handler[h].req
    BY <1>0 DEF HandlerState
  <1>2. handler' = [handler EXCEPT ![h] = st]
    BY DEF ListCredentials, TypeOK, HandlersOK
  <1> HIDE DEF st
  <1>3. Leaving' = [Leaving EXCEPT ![h] = handler[h].req.user]
    BY <1>1, <1>2, LeavingChange
  <1>4. Leaving[h] = handler[h].req.user /\ Leaving \in [Handlers -> Users \cup {None}]
    BY <1>0, <1>2, LeavingChange DEF Leaving
  <1>5. users' = users /\ creds' = creds /\ inputs' = inputs
    BY DEF ListCredentials, api, world
  <1>6. StoredKeys' = StoredKeys
    BY <1>5, KeysKept
  <1>7. Leaving' = Leaving
    BY <1>3, <1>4
  <1> QED
    BY <1>5, <1>6, <1>7 DEF Stays

(* What the cascade deletes by name is a credential of the deleted user.    *)
LEMMA DeleteListedPurges ==
    ASSUME OneUserPerName, TypeOK, UsersMeant, NEW h \in Handlers, NEW n \in Names,
           DeleteListed(h, n)
    PROVE  Granted!Purge(h)
  <1> DEFINE st == [handler[h] EXCEPT !.todo = @ \ {n}]
             u == handler[h].req.user
  <1>0. handler[h] \in HandlerState /\ handler[h].pc = "cascade" /\ n \in handler[h].todo
    BY DEF DeleteListed, TypeOK, HandlersOK
  <1>1. st.pc = "cascade" /\ st.req = handler[h].req
    BY <1>0 DEF HandlerState
  <1>2. handler' = [handler EXCEPT ![h] = st]
    BY DEF DeleteListed, TypeOK, HandlersOK
  <1> HIDE DEF st
  <1>3. Leaving' = [Leaving EXCEPT ![h] = u]
    BY <1>1, <1>2, LeavingChange
  <1>4. Leaving[h] = u /\ Leaving \in [Handlers -> Users \cup {None}]
    BY <1>0, <1>2, LeavingChange DEF Leaving
  <1>5. Leaving' = Leaving
    BY <1>3, <1>4
  <1>6. creds[n] # None => creds[n].spec.user = u
    <2>1. <<n, u>> \in Makers
      BY <1>0 DEF UsersMeant, ServedMeant
    <2>2. creds[n] # None => <<n, creds[n].spec.user>> \in Makers
      BY DEF UsersMeant, StoredMeant
    <2> QED
      BY <2>1, <2>2 DEF OneUserPerName
  <1>7. /\ creds'[n] = creds[n] \/ creds'[n] = None
        /\ \A k \in Names : k # n => creds'[k] = creds[k]
    BY RemoveObjects
  <1>8. \A j \in StoredKeys \ StoredKeys' : j.user = Leaving[h]
    BY <1>4, <1>6, <1>7, KeysChange DEF Key
  <1>9. StoredKeys' \subseteq StoredKeys
    BY <1>7, KeysChange, KeysWhat DEF Key
  <1>10. users' = users /\ inputs' = inputs
    BY DEF DeleteListed, world
  <1> QED
    BY <1>5, <1>8, <1>9, <1>10 DEF Granted!Purge

(* A request that leaves its handler idle, or makes it wait for a Secret,   *)
(* is not a deletion.                                                       *)
LEMMA AcceptNotLeaving ==
    ASSUME TypeOK, NEW h \in Handlers, handler[h].pc = "idle",
           Answer(h) \/ \E req, spec : Proceed(h, req, spec)
    PROVE  Leaving' = Leaving
  <1>1. PICK st : handler' = [handler EXCEPT ![h] = st] /\ st.pc \in {"idle", "secret"}
    <2>1. CASE Answer(h)
      <3>1. handler' = [handler EXCEPT ![h] = Idle]
        BY <2>1 DEF Answer
      <3>2. Idle.pc = "idle"
        BY DEF Idle
      <3> QED
        BY <3>1, <3>2
    <2>2. ASSUME NEW req, NEW spec, Proceed(h, req, spec)
          PROVE  \E st : handler' = [handler EXCEPT ![h] = st] /\ st.pc \in {"idle", "secret"}
      <3> DEFINE st == [Idle EXCEPT !.pc = "secret", !.req = req, !.spec = spec]
      <3>1. st.pc = "secret" /\ handler' = [handler EXCEPT ![h] = st]
        BY <2>2 DEF Idle, Proceed
      <3> HIDE DEF st
      <3> QED
        BY <3>1
    <2> QED
      BY <2>1, <2>2
  <1>2. Leaving[h] = None
    BY DEF Leaving
  <1>3. Leaving' = [Leaving EXCEPT ![h] = None] /\ Leaving \in [Handlers -> Users \cup {None}]
    BY <1>1, LeavingChange
  <1> QED
    BY <1>2, <1>3

(* What clients ask for, as Access has it.                                  *)
Issued == {Key(CredentialName[q.accessKey], RequestedSpec(q)) : q \in Asking("create")}
Revoking == {<<q.user, q.accessKey>> : q \in Asking("revoke")}
Departing == {q.user : q \in Asking("deleteUser")}
Commanded == {Key(m.name, m.spec) : m \in Manifests}

(* A credential that is created is one that was asked for.                  *)
LEMMA CreateIssues ==
    ASSUME TypeOK, NEW h \in Handlers, NEW req \in Requests, CreateCredential(h, req)
    PROVE  Granted!Input
  <1> DEFINE n == CredentialName[req.accessKey]
             k == Key(n, RequestedSpec(req))
  <1>1. /\ n \in Names /\ creds[n] = None
        /\ creds'[n] # None /\ creds'[n].spec = RequestedSpec(req)
        /\ \A m \in Names : m # n => creds'[m] = creds[m]
    BY CreateObjects
  <1>2. k \in Issued
    BY DEF CreateCredential, Receive, Issued, Asking
  <1>3. \A j \in StoredKeys : j.name # n
    BY <1>1, KeysWhat
  <1>4. StoredKeys' = StoredKeys \cup {k}
    <2>1. StoredKeys' \subseteq StoredKeys \cup {k}
      BY <1>1, KeysChange
    <2>2. StoredKeys \subseteq StoredKeys'
      BY <1>1, KeysChange
    <2>3. k \in StoredKeys'
      BY <1>1 DEF StoredKeys
    <2> QED
      BY <2>1, <2>2, <2>3
  <1>5. k.name = n
    BY DEF Key
  <1>6. Leaving' = Leaving
    BY AcceptNotLeaving DEF CreateCredential, Receive
  <1>7. users' = users /\ inputs' = inputs + 1
    BY DEF CreateCredential, Receive, Input
  <1> HIDE DEF k
  <1>8. Granted!Issue
    BY <1>2, <1>3, <1>4, <1>5, <1>6, <1>7 DEF Granted!Issue, Issued
  <1> QED
    BY <1>7, <1>8 DEF Granted!Input

(* One that is revoked had this user and access key, and stays, revoked.    *)
LEMMA RevokeRevokes ==
    ASSUME TypeOK, NEW h \in Handlers, NEW req \in Requests, RevokeCredential(h, req)
    PROVE  Granted!Input
  <1>1. PICK n \in Names :
           /\ creds[n] # None /\ creds'[n] # None
           /\ creds[n].spec.user = req.user /\ creds[n].spec.accessKey = req.accessKey
           /\ creds'[n].spec.user = req.user /\ creds'[n].spec.accessKey = req.accessKey
           /\ creds'[n].spec.revoked = TRUE
           /\ \A k \in Names : k # n => creds'[k] = creds[k]
    BY RevokeObjects
  <1> DEFINE old == Key(n, creds[n].spec)
             new == Key(n, creds'[n].spec)
  <1>2. new = Granted!Revoked(old)
    BY <1>1 DEF Key, Granted!Revoked
  <1>3. old \in StoredKeys /\ new \in StoredKeys'
    BY <1>1, KeysWhat, KeysWhatNext DEF Key
  <1>4. \A j \in StoredKeys' : j \in StoredKeys \/ j = new
    BY <1>1, KeysChange
  <1>5. \A j \in StoredKeys : j \in StoredKeys' \/ j = old
    BY <1>1, KeysChange
  <1>6. old \in StoredKeys' => old = new
    <2> SUFFICES ASSUME old \in StoredKeys' PROVE old = new
      OBVIOUS
    <2>1. PICK k \in Names : creds'[k] # None /\ old = Key(k, creds'[k].spec)
      BY KeysWhatNext DEF Key
    <2>2. k = n
      BY <2>1 DEF Key
    <2> QED
      BY <2>1, <2>2
  <1>7. <<old.user, old.accessKey>> \in Revoking
    <2>1. old.user = req.user /\ old.accessKey = req.accessKey
      BY <1>1 DEF Key
    <2>2. req \in Asking("revoke")
      BY DEF RevokeCredential, Receive, Asking
    <2> QED
      BY <2>1, <2>2 DEF Revoking
  <1> HIDE DEF old, new
  <1>8. StoredKeys' = (StoredKeys \ {old}) \cup {new}
    BY <1>3, <1>4, <1>5, <1>6
  <1>9. Leaving' = Leaving
    BY AcceptNotLeaving DEF RevokeCredential, Receive
  <1>10. users' = users /\ inputs' = inputs + 1
    BY DEF RevokeCredential, Receive, Input
  <1>11. Granted!Revoke
    BY <1>2, <1>3, <1>7, <1>8, <1>9, <1>10 DEF Granted!Revoke, Revoking
  <1> QED
    BY <1>10, <1>11 DEF Granted!Input

(* The account of a user who is deleted goes at once.                       *)
LEMMA DeleteUserLeaves ==
    ASSUME TypeOK, NEW h \in Handlers, NEW req \in Requests, DeleteUser(h, req)
    PROVE  Granted!Input
  <1> DEFINE st == [Idle EXCEPT !.pc = "list", !.req = req]
  <1>1. st.pc = "list" /\ st.req = req /\ handler' = [handler EXCEPT ![h] = st]
    BY DEF Idle, DeleteUser
  <1> HIDE DEF st
  <1>2. Leaving' = [Leaving EXCEPT ![h] = req.user]
    BY <1>1, LeavingChange
  <1>3. Leaving[h] = None
    BY DEF Leaving, DeleteUser, Receive
  <1>4. req.user \in Departing
    BY DEF DeleteUser, Receive, Departing, Asking
  <1>5. users' = users \ {req.user} /\ inputs' = inputs + 1 /\ creds' = creds
    BY DEF DeleteUser, Receive, Input
  <1>6. StoredKeys' = StoredKeys
    BY <1>5, KeysKept
  <1>7. Granted!Leave(h)
    BY <1>2, <1>3, <1>4, <1>5, <1>6 DEF Granted!Leave, Departing
  <1> QED
    BY <1>5, <1>7 DEF Granted!Input

(* A request that has no effect is refused.                                 *)
LEMMA AcceptInput ==
    ASSUME TypeOK, NEW h \in Handlers, NEW req \in Requests, Accept(h, req)
    PROVE  Granted!Input
  <1>1. CASE \/ CreateCredentialExists(h, req) \/ CreateCredentialFails(h, req)
             \/ RevokeCredentialFails(h, req) \/ DeleteUserFails(h, req)
    <2>1. /\ handler[h].pc = "idle" /\ inputs' = inputs + 1
          /\ users' = users /\ creds' = creds
      BY <1>1 DEF CreateCredentialExists, CreateCredentialFails, RevokeCredentialFails,
         DeleteUserFails, Receive, Input, api
    <2>2. Answer(h) \/ \E r, spec : Proceed(h, r, spec)
      BY <1>1 DEF CreateCredentialExists, CreateCredentialFails, RevokeCredentialFails,
         DeleteUserFails
    <2>3. Leaving' = Leaving
      BY <2>1, <2>2, AcceptNotLeaving
    <2>4. StoredKeys' = StoredKeys
      BY <2>1, KeysKept
    <2> QED
      BY <2>1, <2>3, <2>4 DEF Granted!Input, Granted!Refuse
  <1> QED
    BY <1>1, CreateIssues, RevokeRevokes, DeleteUserLeaves DEF Accept

(* Nor do operator and caches change anything here.                         *)
LEMMA OperatorStays ==
    ASSUME TypeOK, OperatorStep \/ WatchStep \/ UNCHANGED vars
    PROVE  Stays
  <1> USE DEF api, views, operator, world
  <1>1. handler' = handler /\ users' = users /\ inputs' = inputs
    BY DEF OperatorStep, Ensure, ReconcileGone, ReconcileUnresolved, EnsureSecretCreates,
       EnsureSecretUpdates, EnsureSecretKeeps, EnsureSecretFails, Resync, UpdateStatus,
       UpdateStatusFails, OperatorRestart, WatchStep, SyncUser, SyncCredential, SyncSecret, vars
  <1>2. creds' = creds \/ UpdateStatus
    BY DEF OperatorStep, Ensure, ReconcileGone, ReconcileUnresolved, EnsureSecretCreates,
       EnsureSecretUpdates, EnsureSecretKeeps, EnsureSecretFails, Resync, UpdateStatusFails,
       OperatorRestart, WatchStep, SyncUser, SyncCredential, SyncSecret, vars
  <1>3. StoredKeys' = StoredKeys
    BY <1>2, UpdateStatusObjects, KeysKept
  <1>4. Leaving' = Leaving
    BY <1>1 DEF Leaving
  <1> QED
    BY <1>1, <1>3, <1>4 DEF Stays

(* kubectl changes one account or one credential, to one it applies.        *)
LEMMA EnvironmentCommands ==
    ASSUME TypeOK, EnvironmentStep
    PROVE  Granted!Input \/ Stays
  <1> USE DEF api, views, operator, world, Input
  <1>1. handler' = handler
    BY DEF EnvironmentStep, ApplyUser, RemoveUser, ApplyCredential, RemoveCredential,
       ApplySecret, LoseSecret, CollectSecret, Expire
  <1>2. Leaving' = Leaving
    BY <1>1 DEF Leaving
  <1>3. ASSUME NEW u \in Users, ApplyUser(u) \/ RemoveUser(u) PROVE Granted!Input
    <2>1. users' \in SUBSET Users /\ creds' = creds /\ inputs' = inputs + 1
      BY <1>3 DEF ApplyUser, RemoveUser, TypeOK, ObjectsOK
    <2>2. StoredKeys' = StoredKeys
      BY <2>1, KeysKept
    <2> QED
      BY <1>2, <2>1, <2>2 DEF Granted!Input, Granted!Command
  <1>4. ASSUME NEW n \in Names, \A k \in Names : k # n => creds'[k] = creds[k],
               creds'[n] # None => Key(n, creds'[n].spec) \in Commanded,
               users' = users, inputs' = inputs + 1
        PROVE  Granted!Input
    <2>1. \A j \in StoredKeys' \ StoredKeys : j.name = n /\ j \in Commanded
      BY <1>4, KeysChange DEF Key
    <2>2. \A j \in StoredKeys \ StoredKeys' : j.name = n
      BY <1>4, KeysChange DEF Key
    <2>3. Granted!Command
      BY <1>2, <1>4, <2>1, <2>2 DEF Granted!Command, Commanded
    <2> QED
      BY <1>4, <2>3 DEF Granted!Input
  <1>5. ASSUME NEW m \in Manifests, ApplyCredential(m) PROVE Granted!Input
    <2>1. users' = users /\ inputs' = inputs + 1
      BY <1>5 DEF ApplyCredential
    <2>2. Key(m.name, m.spec) \in Commanded
      BY DEF Commanded
    <2> QED
      BY <1>4, <1>5, <2>1, <2>2, ApplyObjects
  <1>6. ASSUME NEW n \in Names, RemoveCredential(n) PROVE Granted!Input
    <2>1. users' = users /\ inputs' = inputs + 1 /\ creds'[n] = None
      BY <1>6 DEF RemoveCredential, TypeOK, ObjectsOK
    <2> QED
      BY <1>4, <1>6, <2>1, RemoveObjects
  <1>7. ASSUME NEW m \in LooseSecrets, ApplySecret(m) PROVE Granted!Input
    <2>1. users' = users /\ creds' = creds /\ inputs' = inputs + 1
      BY <1>7 DEF ApplySecret
    <2> QED
      BY <1>2, <2>1, KeysKept DEF Granted!Input, Granted!Refuse
  <1>8. CASE (\E n \in Names : LoseSecret(n) \/ CollectSecret(n)) \/ Expire
    <2>1. users' = users /\ creds' = creds /\ inputs' = inputs
      BY <1>8 DEF LoseSecret, CollectSecret, Expire
    <2> QED
      BY <1>2, <2>1, KeysKept DEF Stays
  <1> QED
    BY <1>3, <1>5, <1>6, <1>7, <1>8 DEF EnvironmentStep

(* So every step is one of Access, or changes nothing it speaks of.         *)
LEMMA NextGranted ==
    ASSUME OneUserPerName, TypeOK, UsersMeant, [Next]_vars
    PROVE  Granted!Next \/ Stays
  <1>1. ASSUME NEW h \in Handlers, Serve(h) PROVE Granted!Next \/ Stays
    BY <1>1, ServeDone, ListStays, DeleteListedPurges DEF Serve, Granted!Next
  <1>2. ASSUME NEW h \in Handlers, NEW req \in Requests, Accept(h, req) PROVE Granted!Next
    BY <1>2, AcceptInput DEF Granted!Next
  <1>3. CASE EnvironmentStep
    BY <1>3, EnvironmentCommands DEF Granted!Next
  <1> QED
    BY <1>1, <1>2, <1>3, OperatorStays DEF Next, HandlerStep

(* As long as nobody means two users by one name, operator, auth server and *)
(* kubectl implement Access: accounts and keys come and go as requested,    *)
(* the operator changes none, and the cascade of a deleted user, from an    *)
(* old list and by name, takes nobody else's.                               *)
THEOREM ImplementsAccessHolds ==
    ASSUME OneUserPerName
    PROVE  Spec => ImplementsAccess
  <1>1. Init => Granted!Init
    <2> SUFFICES ASSUME Init PROVE Granted!Init
      OBVIOUS
    <2>1. Idle.pc = "idle"
      BY DEF Idle
    <2>2. StoredKeys = {} /\ Leaving = [h \in Handlers |-> None]
      BY <2>1, KeysWhat DEF Init, Leaving
    <2> QED
      BY <2>2 DEF Init, Granted!Init
  <1>2. TypeOK /\ UsersMeant /\ [Next]_vars =>
            [Granted!Next]_<<users, StoredKeys, Leaving, inputs>>
    BY NextGranted DEF Stays
  <1> QED
    BY <1>1, <1>2, TypeCorrect, UsersMeantHolds, PTL DEF Spec, ImplementsAccess, Granted!Spec

-----------------------------------------------------------------------------
(* While no Secret is deleted by hand, a replica that has caught up with the *)
(* credentials and with the Secret and user of one that the operator's       *)
(* current status calls Ready may answer from it, and does, whether the      *)
(* route names the user or not, if it is the only one of its access key.     *)
THEOREM ReadyIsServedHolds == Spec => []ReadyIsServed
  <1>1. ASSUME TypeOK, ReadyIsBacked, losses = 0, NEW h \in Handlers, NEW n \in Names,
               Reports(n, "Resolved"), ~Expired(creds[n].spec), UpToDate(h, n),
               NEW expected \in {None, creds[n].spec.user}
        PROVE  /\ n \in Answers(h, creds[n].spec.accessKey, expected)
               /\ Sole(n) => Answers(h, creds[n].spec.accessKey, expected) = {n}
    <2> DEFINE ak == creds[n].spec.accessKey
    <2>1. ~creds[n].spec.revoked /\ Holds(creds[n].spec.secret, n, creds[n].uid)
      BY <1>1 DEF ReadyIsBacked
    <2>2. Passes(h, n, expected)
      BY <1>1, <2>1 DEF Passes, UpToDate, Holds, Reports, Usable
    <2>3. n \in Found(h, ak)
      BY <1>1 DEF Found, UpToDate, Reports
    <2>4. Sole(n) => Found(h, ak) = {n}
      BY <1>1, <2>3 DEF Found, UpToDate, Sole
    <2>5. Answers(h, ak, expected) =
              {IF Passes(h, m, expected) THEN m ELSE None : m \in Found(h, ak)}
      BY <2>3 DEF Answers
    <2> HIDE DEF ak
    <2>6. n \in Answers(h, ak, expected) /\ (Sole(n) => Answers(h, ak, expected) = {n})
      BY <2>2, <2>3, <2>4, <2>5
    <2> QED
      BY <2>6 DEF ak
  <1>2. TypeOK /\ ReadyIsBacked => ReadyIsServed
    BY <1>1 DEF ReadyIsServed
  <1> QED
    BY <1>2, TypeCorrect, ReadyIsBackedHolds, PTL

================================================================================
