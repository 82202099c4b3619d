--------------------------- MODULE CredentialServer ----------------------------
(***************************************************************************)
(* The auth server's handlers of /auth/users/{user}/credentials, of         *)
(* /auth/credentials/{accessKeyId} and of DELETE /auth/users/{user} as far  *)
(* as it concerns credentials.  Every handler has a view of its own: two    *)
(* requests may be served by different replicas.                            *)
(***************************************************************************)
EXTENDS CredentialObjects

(* resolveCredential returns the first of the credentials with the access   *)
(* key, in the index's order, which is arbitrary.                           *)
Found(h, ak) ==
    {n \in Names : seenCreds[h][n] # None /\ seenCreds[h][n].spec.accessKey = ak}

(* getCredentialByAccessKey, of the credential found and of the user whom   *)
(* the route names, if it does.                                             *)
Passes(h, n, expected) ==
    LET spec == seenCreds[h][n].spec
        secret == seenSecrets[h][spec.secret]
    IN  /\ Usable(spec)
        /\ spec.user \in seenUsers[h]
        /\ expected \in {None, spec.user}
        /\ secret # None
        /\ secret.key # None

(* The credentials it may answer 200 from; None stands for 404.             *)
Answers(h, ak, expected) ==
    IF Found(h, ak) = {} THEN {None}
    ELSE {IF Passes(h, n, expected) THEN n ELSE None : n \in Found(h, ak)}

Receive(h, req, op) ==
    /\ req.op = op
    /\ handler[h].pc = "idle"
    /\ Input
    /\ losses' = losses

(* 201, or any other answer.                                                *)
AnswerCreated(h) == handler' = [handler EXCEPT ![h] = [Idle EXCEPT !.created = TRUE]]
Answer(h) == handler' = [handler EXCEPT ![h] = Idle]

Proceed(h, req, spec) ==
    handler' = [handler EXCEPT ![h] =
        [Idle EXCEPT !.pc = "secret", !.req = req, !.spec = spec]]

RequestedSpec(req) ==
    [user |-> req.user, accessKey |-> req.accessKey,
     secret |-> CredentialName[req.accessKey], expires |-> FALSE, revoked |-> FALSE]

(* createUserCredential up to the credential object.                        *)
CreateCredential(h, req) ==
    LET n == CredentialName[req.accessKey] IN
    /\ Receive(h, req, "create")
    /\ req.user \in seenUsers[h]
    /\ creds[n] = None
    /\ creds' = [creds EXCEPT ![n] = NewCredential(RequestedSpec(req))]
    /\ Proceed(h, req, RequestedSpec(req))
    /\ UNCHANGED <<users, secrets, views, operator, timeUp>>

(* AlreadyExists: the existing credential is read, from the cache.          *)
CreateCredentialExists(h, req) ==
    LET n == CredentialName[req.accessKey] IN
    /\ Receive(h, req, "create")
    /\ req.user \in seenUsers[h]
    /\ creds[n] # None
    /\ IF seenCreds[h][n] = None THEN Answer(h)
       ELSE Proceed(h, req, seenCreds[h][n].spec)
    /\ UNCHANGED <<api, views, operator, timeUp>>

(* 404 for a user the cache does not know, 500 for a call that fails.       *)
CreateCredentialFails(h, req) ==
    /\ Receive(h, req, "create")
    /\ Answer(h)
    /\ UNCHANGED <<api, views, operator, timeUp>>

(* ensureCredentialSecret.                                                  *)
Storing(h) == handler[h].pc = "secret" /\ handler[h].req.key # None

Stored(secret, h) ==
    /\ secret # None
    /\ secret.about = AboutOf(handler[h].spec)
    /\ secret.key = handler[h].req.key

StoreSecretCreates(h) ==
    LET s == handler[h].spec.secret IN
    /\ Storing(h)
    /\ seenSecrets[h][s] = None
    /\ secrets[s] = None
    /\ secrets' = [secrets EXCEPT ![s] = [about |-> AboutOf(handler[h].spec),
                                         key |-> handler[h].req.key, owner |-> None]]
    /\ AnswerCreated(h)
    /\ UNCHANGED <<users, creds, views, operator, world>>

StoreSecretUpdates(h) ==
    LET s == handler[h].spec.secret
        old == seenSecrets[h][s]
    IN  /\ Storing(h)
        /\ old # None
        /\ ~Stored(old, h)
        /\ SameVersion(secrets[s], old)
        /\ secrets' = [secrets EXCEPT ![s] =
              [old EXCEPT !.about = AboutOf(handler[h].spec),
                          !.key = handler[h].req.key]]
        /\ AnswerCreated(h)
        /\ UNCHANGED <<users, creds, views, operator, world>>

StoreSecretKeeps(h) ==
    /\ Storing(h)
    /\ Stored(seenSecrets[h][handler[h].spec.secret], h)
    /\ AnswerCreated(h)
    /\ UNCHANGED <<api, views, operator, world>>

StoreSecretFails(h) ==
    /\ Storing(h)
    /\ ~Stored(seenSecrets[h][handler[h].spec.secret], h)
    /\ Answer(h)
    /\ UNCHANGED <<api, views, operator, world>>

(* waitForCredentialSecret: polled from the cache for ten seconds.          *)
AwaitSecret(h) ==
    LET secret == seenSecrets[h][handler[h].spec.secret] IN
    /\ handler[h].pc = "secret"
    /\ handler[h].req.key = None
    /\ IF secret # None /\ secret.key # None THEN AnswerCreated(h) ELSE Answer(h)
    /\ UNCHANGED <<api, views, operator, world>>

(* revokeUserCredential.                                                    *)
Revoked(cred) == [cred EXCEPT !.current = @ /\ cred.spec.revoked, !.spec.revoked = TRUE]

RevokeCredential(h, req) ==
    /\ Receive(h, req, "revoke")
    /\ req.user \in seenUsers[h]
    /\ \E n \in Found(h, req.accessKey) :
          /\ seenCreds[h][n].spec.user = req.user
          /\ SameVersion(creds[n], seenCreds[h][n])
          /\ creds' = [creds EXCEPT ![n] = Revoked(@)]
    /\ Answer(h)
    /\ UNCHANGED <<users, secrets, views, operator, timeUp>>

(* Nothing revoked: no credential found (204), another user's (404), or a   *)
(* call that fails (500).                                                   *)
RevokeCredentialFails(h, req) ==
    /\ Receive(h, req, "revoke")
    /\ Answer(h)
    /\ UNCHANGED <<api, views, operator, timeUp>>

(* deleteUser: the user object goes first, then the credentials a cached    *)
(* list names, one by one; the errors of those deletions are dropped.       *)
(* DeleteUserAnyway, which nothing uses, drops the first error too: it shows *)
(* that ImplementsAccess depends on the action.                             *)
DeleteUserAnyway(h, req) ==
    /\ Receive(h, req, "deleteUser")
    /\ req.user \in seenUsers[h]
    /\ handler' = [handler EXCEPT ![h] = [Idle EXCEPT !.pc = "list", !.req = req]]
    /\ UNCHANGED <<api, views, operator, timeUp>>
DeleteUser(h, req) ==
    /\ Receive(h, req, "deleteUser")
    /\ req.user \in seenUsers[h]
    /\ users' = users \ {req.user}
    /\ handler' = [handler EXCEPT ![h] = [Idle EXCEPT !.pc = "list", !.req = req]]
    /\ UNCHANGED <<creds, secrets, views, operator, timeUp>>

(* A user the cache does not know (204: nothing is cleaned up), or 500.     *)
DeleteUserFails(h, req) ==
    /\ Receive(h, req, "deleteUser")
    /\ Answer(h)
    /\ UNCHANGED <<api, views, operator, timeUp>>

ListCredentials(h) ==
    /\ handler[h].pc = "list"
    /\ handler' = [handler EXCEPT ![h].pc = "cascade", ![h].todo =
          {n \in Names : /\ seenCreds[h][n] # None
                         /\ seenCreds[h][n].spec.user = handler[h].req.user}]
    /\ UNCHANGED <<api, views, operator, world>>

DeleteListed(h, n) ==
    /\ handler[h].pc = "cascade"
    /\ n \in handler[h].todo
    /\ handler' = [handler EXCEPT ![h].todo = @ \ {n}]
    /\ creds' \in {creds, [creds EXCEPT ![n] = None]}
    /\ UNCHANGED <<users, secrets, views, operator, world>>

FinishDelete(h) ==
    /\ handler[h].pc = "cascade"
    /\ handler[h].todo = {}
    /\ Answer(h)
    /\ UNCHANGED <<api, views, operator, world>>

(* The replica restarts: the request is lost, its caches are filled anew.   *)
HandlerRestart(h) ==
    /\ handler' = [handler EXCEPT ![h] = Idle]
    /\ seenUsers' = [seenUsers EXCEPT ![h] = users]
    /\ seenCreds' = [seenCreds EXCEPT ![h] = creds]
    /\ seenSecrets' = [seenSecrets EXCEPT ![h] = secrets]
    /\ UNCHANGED <<api, operator, world>>
================================================================================
