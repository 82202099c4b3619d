------------------------------ MODULE Credentials ------------------------------
(***************************************************************************)
(* The life of a LakeFSCredential: operator, auth server and kubectl        *)
(* working on the same objects, and what holds of it.                       *)
(***************************************************************************)
EXTENDS CredentialOperator, CredentialServer

Ensure(n) ==
    \/ ReconcileGone(n)
    \/ ReconcileUnresolved(n)
    \/ EnsureSecretCreates(n)
    \/ EnsureSecretUpdates(n)
    \/ EnsureSecretKeeps(n)
    \/ EnsureSecretFails(n)

OperatorStep ==
    \/ \E n \in Names : Ensure(n) \/ Resync(n)
    \/ UpdateStatus
    \/ UpdateStatusFails
    \/ OperatorRestart

Serve(h) ==
    \/ StoreSecretCreates(h)
    \/ StoreSecretUpdates(h)
    \/ StoreSecretKeeps(h)
    \/ StoreSecretFails(h)
    \/ AwaitSecret(h)
    \/ ListCredentials(h)
    \/ \E n \in Names : DeleteListed(h, n)
    \/ FinishDelete(h)
    \/ HandlerRestart(h)

Accept(h, req) ==
    \/ CreateCredential(h, req)
    \/ CreateCredentialExists(h, req)
    \/ CreateCredentialFails(h, req)
    \/ RevokeCredential(h, req)
    \/ RevokeCredentialFails(h, req)
    \/ DeleteUser(h, req)
    \/ DeleteUserFails(h, req)

HandlerStep == \E h \in Handlers : Serve(h) \/ \E req \in Requests : Accept(h, req)

WatchStep ==
    \E p \in Processes :
        \/ \E u \in Users : SyncUser(p, u)
        \/ \E n \in Names : SyncCredential(p, n) \/ SyncSecret(p, n)

EnvironmentStep ==
    \/ \E u \in Users : ApplyUser(u) \/ RemoveUser(u)
    \/ \E m \in Manifests : ApplyCredential(m)
    \/ \E m \in LooseSecrets : ApplySecret(m)
    \/ \E n \in Names : RemoveCredential(n) \/ LoseSecret(n) \/ CollectSecret(n)
    \/ Expire

Next == OperatorStep \/ HandlerStep \/ WatchStep \/ EnvironmentStep

Spec == Init /\ [][Next]_vars

-----------------------------------------------------------------------------
(* Fairness.  Watch events arrive, the work queue is served, resyncs come,  *)
(* and a call that is retried for ever is not refused for ever.             *)

Fairness ==
    /\ \A p \in Processes, u \in Users : WF_vars(SyncUser(p, u))
    /\ \A p \in Processes, n \in Names :
          WF_vars(SyncCredential(p, n)) /\ WF_vars(SyncSecret(p, n))
    /\ \A n \in Names :
          /\ WF_vars(Resync(n))
          /\ SF_vars(Ensure(n))
          /\ SF_vars(EnsureSecretCreates(n))
          /\ SF_vars(EnsureSecretUpdates(n))
    /\ SF_vars(UpdateStatus)
    /\ WF_vars(UpdateStatus \/ UpdateStatusFails)

LiveSpec == Spec /\ Fairness

-----------------------------------------------------------------------------
(* Properties.                                                             *)

Holds(s, n, uid) ==
    /\ secrets[s] # None
    /\ ControlledBy(secrets[s], n, uid)
    /\ secrets[s].key # None

Reports(n, reason) ==
    creds[n] # None /\ creds[n].current /\ creds[n].ready = reason

(* While nobody deletes Secrets by hand, a credential whose up-to-date      *)
(* status is Ready/Resolved is not revoked, and its Secret exists, carries  *)
(* a key and is controlled by this very object.  At risk: the status comes  *)
(* from a copy, and from two cached reads around a write that other         *)
(* credentials, requests and the garbage collector race with.               *)
ReadyIsBacked ==
    losses = 0 =>
        \A n \in Names :
            Reports(n, "Resolved") =>
               /\ ~creds[n].spec.revoked
               /\ Holds(creds[n].spec.secret, n, creds[n].uid)

(* Why ReadyIsBacked holds: the invariant its proof carries through.         *)
Seen(n) == seenCreds[Operator][n]
Owned(secret) == secret # None /\ secret.owner # None

(* No uid is ahead of the counter that the next one is taken from.          *)
UidsPast ==
    /\ \A n \in Names :
          /\ creds[n] # None => creds[n].uid <= inputs
          /\ Seen(n) # None => Seen(n).uid <= inputs
          /\ Owned(secrets[n]) => secrets[n].owner.uid <= inputs
          /\ Owned(seenSecrets[Operator][n])
                => seenSecrets[Operator][n].owner.uid <= inputs
    /\ reconcile # None => reconcile.cred.uid <= inputs

(* The operator, which alone makes Secrets owned, never leaves them blank,  *)
OwnedHasKey == \A s \in Names : Owned(secrets[s]) => secrets[s].key # None

(* has seen the credential that owns a Secret for as long as it exists,     *)
OwnerSeen ==
    \A s \in Names : Owned(secrets[s]) /\ Exists(secrets[s].owner) =>
        LET owner == secrets[s].owner IN
        Seen(owner.name) # None /\ Seen(owner.name).uid = owner.uid

(* can rely on a cached Secret being there while its owner exists,          *)
ViewStored ==
    \A s \in Names :
        LET seen == seenSecrets[Operator][s] IN
        Owned(seen) /\ Exists(seen.owner) =>
            secrets[s] # None /\ secrets[s].owner = seen.owner

(* and brings what ensureSecret established to the status update.           *)
InFlight ==
    reconcile # None /\ reconcile.outcome = "Ensured" =>
        LET cred == reconcile.cred IN
        /\ ~cred.spec.revoked
        /\ Exists([name |-> reconcile.name, uid |-> cred.uid])
              => Holds(cred.spec.secret, reconcile.name, cred.uid)

IInv ==
    /\ TypeOK
    /\ UidsPast
    /\ OwnedHasKey
    /\ OwnerSeen
    /\ losses = 0 => ViewStored /\ InFlight
    /\ ReadyIsBacked

(* A stored secret access key gives way only to a key that a request        *)
(* supplied for that Secret, by a handler whose cache held what it          *)
(* replaces, and a Secret never passes from the credential that controls it *)
(* to one of another name: the operator, which rewrites the Secret it read  *)
(* from its cache, neither rotates a key nor takes over a Secret, and of    *)
(* two racing requests none overwrites the other unseen.                    *)
KeepsKeys ==
    \A s \in Names :
        secrets[s] # None /\ secrets'[s] # None =>
        /\ (secrets[s].key # None /\ secrets'[s].key # secrets[s].key) =>
              \E h \in Handlers :
                 /\ Storing(h)
                 /\ handler[h].spec.secret = s
                 /\ handler[h].req.key = secrets'[s].key
                 /\ seenSecrets[h][s] = secrets[s]
        /\ secrets[s].owner # None =>
              secrets'[s].owner # None /\ secrets'[s].owner.name = secrets[s].owner.name

KeysStay == [][KeepsKeys]_vars

(* What the operator calls Ready the auth server serves: a replica whose    *)
(* caches have the credentials, the Secret and the user as they are may     *)
(* answer from it until it expires, and answers from nothing else if no     *)
(* other credential has the access key: with two of them the server takes   *)
(* one, and either may hide the other.  Operator and server decide apart,   *)
(* on caches of different moments, what a usable credential is.             *)
Sole(n) ==
    \A m \in Names \ {n} :
        creds[m] # None => creds[m].spec.accessKey # creds[n].spec.accessKey
UpToDate(h, n) ==
    LET spec == creds[n].spec IN
    /\ seenCreds[h] = creds
    /\ seenSecrets[h][spec.secret] = secrets[spec.secret]
    /\ spec.user \in seenUsers[h]
ReadyIsServed ==
    losses = 0 =>
        \A h \in Handlers, n \in Names :
            LET spec == creds[n].spec IN
            Reports(n, "Resolved") /\ ~Expired(spec) /\ UpToDate(h, n) =>
                \A expected \in {None, spec.user} :
                    LET answers == Answers(h, spec.accessKey, expected) IN
                    n \in answers /\ (Sole(n) => answers = {n})

(* Whoever makes a credential of some name means the same user by it.  The  *)
(* code does not see to it: names and access keys are given from outside.   *)
Asking(op) == {q \in Requests : q.op = op}
Makers ==
    {<<m.name, m.spec.user>> : m \in Manifests}
    \cup {<<CredentialName[q.accessKey], q.user>> : q \in Asking("create")}
OneUserPerName == \A a, b \in Makers : a[1] = b[1] => a[2] = b[2]

(* Then lakeFS, kubectl, operator and server implement Access.  The server  *)
(* clears away by name what an older, cached list had for the deleted user, *)
(* and stops anywhere; credentials are made, revoked and made again         *)
(* meanwhile, and the operator writes their status from copies.             *)
Key(n, spec) ==
    [name |-> n, user |-> spec.user, accessKey |-> spec.accessKey, revoked |-> spec.revoked]
StoredKeys == {Key(n, creds[n].spec) : n \in {m \in Names : creds[m] # None}}
Leaving ==
    [h \in Handlers |->
        IF handler[h].pc \in {"list", "cascade"} THEN handler[h].req.user ELSE None]

Granted == INSTANCE Access WITH
    Replicas <- Handlers, Nobody <- None,
    Issues <- {Key(CredentialName[q.accessKey], RequestedSpec(q)) : q \in Asking("create")},
    Revocations <- {<<q.user, q.accessKey>> : q \in Asking("revoke")},
    Departures <- {q.user : q \in Asking("deleteUser")},
    Commands <- {Key(m.name, m.spec) : m \in Manifests},
    accounts <- users, keys <- StoredKeys, leaving <- Leaving

ImplementsAccess == Granted!Spec

(* Why they do: what is stored, cached, in use or still to be cleared away  *)
(* under some name belongs to a user somebody meant by it.                  *)
StoredMeant ==
    \A n \in Names : creds[n] # None => <<n, creds[n].spec.user>> \in Makers
SeenMeant ==
    \A p \in Processes, n \in Names :
        seenCreds[p][n] # None => <<n, seenCreds[p][n].spec.user>> \in Makers
ServedMeant ==
    \A h \in Handlers :
        /\ handler[h].pc = "secret" =>
              LET n == CredentialName[handler[h].req.accessKey] IN
              {<<n, handler[h].req.user>>, <<n, handler[h].spec.user>>} \subseteq Makers
        /\ handler[h].pc = "cascade" =>
              \A n \in handler[h].todo : <<n, handler[h].req.user>> \in Makers
UsersMeant == StoredMeant /\ SeenMeant /\ ServedMeant

Spent(spec) == spec.revoked \/ (spec.expires /\ timeUp)

(* Nothing stands in the way of credential n: it is usable, its user exists *)
(* and no other credential controls its Secret.                             *)
Sound(n) ==
    /\ creds[n] # None
    /\ ~Spent(creds[n].spec)
    /\ creds[n].spec.user \in users
    /\ secrets[creds[n].spec.secret] # None
          => secrets[creds[n].spec.secret].owner \in {None} \cup [name: {n}, uid: Nat]

(* A credential that stays sound becomes and stays Ready, although the      *)
(* reconciler watches neither its user nor its Secret.                      *)
ReadyEventually ==
    \A n \in Names :
        <>[]Sound(n) => <>[]Reports(n, "Resolved")

(* A credential that stays sound, and the only one of its access key, ends  *)
(* up served by every replica, and nothing else in its place.               *)
Serves(h, n) ==
    /\ creds[n] # None
    /\ \A expected \in {None, creds[n].spec.user} :
          Answers(h, creds[n].spec.accessKey, expected) = {n}
ServedEventually ==
    \A n \in Names :
        <>[](Sound(n) /\ Sole(n)) => <>[](\A h \in Handlers : Serves(h, n))

(* A credential that stays revoked or expired ends up refused by every      *)
(* replica, whatever else has its access key, and reported Invalid; no      *)
(* event tells of an expiry.                                                *)
InvalidEventually ==
    \A n \in Names :
        <>[](creds[n] # None /\ Spent(creds[n].spec))
        => <>[](/\ Reports(n, "Invalid")
                /\ \A h \in Handlers, ak \in AccessKeys : n \notin Answers(h, ak, None))

(* TestCreateUserCredentialHonorsProvidedSecret: a request that supplies a  *)
(* secret access key and is answered 201 finds that key in the Secret.      *)
HonorsProvidedSecret ==
    [][\A h \in Handlers :
        (Storing(h) /\ handler'[h].created) =>
            LET s == handler[h].spec.secret IN
            secrets'[s] # None /\ secrets'[s].key = handler[h].req.key]_vars

(* A 201 hands out the access key of a credential bound to the user the     *)
(* request, and the answer, name.                                           *)
AnswerNamesOwner ==
    [][\A h \in Handlers :
        (handler[h].pc = "secret" /\ handler'[h].created) =>
            handler[h].spec.user = handler[h].req.user]_vars
================================================================================
