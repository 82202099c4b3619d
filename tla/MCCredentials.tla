----------------------------- MODULE MCCredentials -----------------------------
(***************************************************************************)
(* Instances of Credentials for TLC.                                        *)
(***************************************************************************)
EXTENDS Credentials, TLC

CONSTANTS u1, u2, n1, n2, ak1, ak2, sk1, sk2

(* Each access key has a credential name of its own ...                     *)
OwnNames == (ak1 :> n1) @@ (ak2 :> n2)
(* ... or two of them, equal up to case, share one.                         *)
SharedName == [ak \in AccessKeys |-> n1]

Create(u, ak, k) == [op |-> "create", user |-> u, accessKey |-> ak, key |-> k]
Revoke(u, ak) == [op |-> "revoke", user |-> u, accessKey |-> ak, key |-> None]
Delete(u) == [op |-> "deleteUser", user |-> u, accessKey |-> ak1, key |-> None]

ManifestOf(n, u, ak, s, exp) ==
    [name |-> n, spec |-> [user |-> u, accessKey |-> ak, secret |-> s,
                           expires |-> exp, revoked |-> FALSE]]

Empty == {}

(* One credential, created with one supplied key or another or none,        *)
(* revoked, or deleted with its user.                                       *)
LifecycleRequests ==
    {Create(u1, ak1, k) : k \in {sk1, sk2, None}} \cup {Revoke(u1, ak1), Delete(u1)}

(* Two credentials whose secretRef names one Secret.                        *)
SharedSecretManifests == {ManifestOf(n1, u1, ak1, n1, FALSE), ManifestOf(n2, u1, ak2, n1, FALSE)}
BlankSecrets == {[name |-> n1, key |-> None]}

ExpiringManifests == {ManifestOf(n1, u1, ak1, n1, TRUE)}

LiveRequests == {Create(u1, ak1, sk1), Revoke(u1, ak1)}
RivalRequests == {Create(u1, ak1, sk1), Create(u1, ak1, sk2)}
TwoUserRequests == {Create(u1, ak1, None), Create(u2, ak1, None)}

Symmetry == Permutations(GeneratedKeys)
KeySymmetry == Permutations(GeneratedKeys) \cup Permutations(SuppliedKeys)
================================================================================
