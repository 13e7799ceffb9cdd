---------------------------- MODULE MCTokenCache ----------------------------
(* Instances of TokenCache for TLC. *)
EXTENDS TokenCache, TLC

CONSTANTS t1, t2, c1, c2, k1, k2

\* Two short-lived instances of one account, one thread each.
OneEach == (t1 :> c1) @@ (t2 :> c2)

OurAccount == [base |-> "eu", app |-> "a", api |-> "p", secret |-> "s"]
SameAccount == [c \in Clients |-> OurAccount]

\* The same app and api_token with another secret, which the cloud accepts too
\* (a rotation, or a second account).
OtherSecret == [OurAccount EXCEPT !.secret = "s2"]
TwoSecrets == (c1 :> OurAccount) @@ (c2 :> OtherSecret)

\* The auth endpoint takes every credential in use.
AnyCredential == Creds

TokenSymmetry == Permutations(Tokens)
==============================================================================
