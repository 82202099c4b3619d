-------------------------- MODULE CredentialOperator ---------------------------
(***************************************************************************)
(* The operator's LakeFSCredentialReconciler: one work queue, one worker.   *)
(* A reconcile is two steps, up to its write to the Secret (if it makes     *)
(* one) and up to its write to the credential's status.                     *)
(***************************************************************************)
EXTENDS CredentialObjects

Start(n) ==
    /\ n \in queue
    /\ reconcile = None
    /\ queue' = queue \ {n}

ReconcileGone(n) ==
    /\ Start(n)
    /\ seenCreds[Operator][n] = None
    /\ UNCHANGED <<api, views, reconcile, handler, world>>

Carry(n, cred, outcome) ==
    reconcile' = [name |-> n, cred |-> cred, outcome |-> outcome]

(* Refused before the Secret is looked at: revoked, expired or no user.     *)
ReconcileUnresolved(n) ==
    LET cred == seenCreds[Operator][n] IN
    /\ Start(n)
    /\ cred # None
    /\ \/ ~Usable(cred.spec) /\ Carry(n, cred, "Invalid")
       \/ /\ Usable(cred.spec)
          /\ cred.spec.user \notin seenUsers[Operator]
          /\ Carry(n, cred, "Unavailable")
    /\ UNCHANGED <<api, views, handler, world>>

StartEnsure(n) ==
    LET cred == seenCreds[Operator][n] IN
    /\ Start(n)
    /\ cred # None
    /\ Usable(cred.spec)
    /\ cred.spec.user \in seenUsers[Operator]

(* ensureSecret: the Secret is as wanted and no call is made.               *)
Ensured(secret, n, cred) ==
    /\ secret # None
    /\ secret.about = AboutOf(cred.spec)
    /\ secret.key # None
    /\ ControlledBy(secret, n, cred.uid)

EnsureSecretCreates(n) ==
    LET cred == seenCreds[Operator][n]
        s == cred.spec.secret
    IN  /\ StartEnsure(n)
        /\ seenSecrets[Operator][s] = None
        /\ secrets[s] = None
        /\ \E k \in GeneratedKeys :
              /\ Random(k)
              /\ secrets' = [secrets EXCEPT ![s] =
                    [about |-> AboutOf(cred.spec), key |-> k,
                     owner |-> [name |-> n, uid |-> cred.uid]]]
        /\ Carry(n, cred, "Ensured")
        /\ UNCHANGED <<users, creds, views, handler, world>>

EnsureSecretUpdates(n) ==
    LET cred == seenCreds[Operator][n]
        s == cred.spec.secret
        old == seenSecrets[Operator][s]
    IN  /\ StartEnsure(n)
        /\ old # None
        /\ ~Ensured(old, n, cred)
        /\ MayControl(old, n)
        /\ SameVersion(secrets[s], old)
        /\ \E k \in Keys :
              /\ IF old.key = None THEN Random(k) ELSE k = old.key
              /\ secrets' = [secrets EXCEPT ![s] =
                    [about |-> AboutOf(cred.spec), key |-> k,
                     owner |-> [name |-> n, uid |-> cred.uid]]]
        /\ Carry(n, cred, "Ensured")
        /\ UNCHANGED <<users, creds, views, handler, world>>

EnsureSecretKeeps(n) ==
    LET cred == seenCreds[Operator][n] IN
    /\ StartEnsure(n)
    /\ Ensured(seenSecrets[Operator][cred.spec.secret], n, cred)
    /\ Carry(n, cred, "Ensured")
    /\ UNCHANGED <<api, views, handler, world>>

(* AlreadyExists, a conflict, another controller, or a call that fails.     *)
EnsureSecretFails(n) ==
    LET cred == seenCreds[Operator][n] IN
    /\ StartEnsure(n)
    /\ ~Ensured(seenSecrets[Operator][cred.spec.secret], n, cred)
    /\ Carry(n, cred, "Unavailable")
    /\ UNCHANGED <<api, views, handler, world>>

(* resolveCredential's last steps: the Secret is read again from the cache. *)
OutcomeAsReason(r) == r.outcome
Reason(r) ==
    LET secret == seenSecrets[Operator][r.cred.spec.secret] IN
    IF r.outcome # "Ensured" THEN r.outcome
    ELSE IF secret = None THEN "Unavailable"
    ELSE IF secret.key = None THEN "Invalid"
    ELSE "Resolved"

UpdateStatus ==
    /\ reconcile # None
    /\ SameVersion(creds[reconcile.name], reconcile.cred)
    /\ creds' = [creds EXCEPT ![reconcile.name] =
          [@ EXCEPT !.ready = Reason(reconcile), !.current = TRUE]]
    /\ reconcile' = None
    /\ UNCHANGED <<users, secrets, views, queue, handler, world>>

(* Not found, a conflict or a failed call: the request is queued again.     *)
UpdateStatusFails ==
    /\ reconcile # None
    /\ reconcile' = None
    /\ queue' = queue \cup {reconcile.name}
    /\ UNCHANGED <<api, views, handler, world>>

(* A new leader fills its caches and reconciles every credential.           *)
OperatorRestart ==
    /\ seenUsers' = [seenUsers EXCEPT ![Operator] = users]
    /\ seenCreds' = [seenCreds EXCEPT ![Operator] = creds]
    /\ seenSecrets' = [seenSecrets EXCEPT ![Operator] = secrets]
    /\ queue' = {n \in Names : creds[n] # None}
    /\ reconcile' = None
    /\ UNCHANGED <<api, handler, world>>

(* The informer's periodic resync.                                          *)
ResyncNever(n) == FALSE
Resync(n) ==
    /\ seenCreds[Operator][n] # None
    /\ n \notin queue
    /\ queue' = queue \cup {n}
    /\ UNCHANGED <<api, views, reconcile, handler, world>>
================================================================================
