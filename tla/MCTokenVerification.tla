------------------------ MODULE MCTokenVerification ------------------------
(* Instances of TokenVerification for TLC. *)
EXTENDS TokenVerification

CONSTANTS t1, t2, t3

(* Tokens of one user that show different prefixes. *)
DistinctPrefixes == (t1 :> "pa" @@ t2 :> "pb" @@ t3 :> "pc")

(* Two tokens that share a prefix: revocation has to refuse to guess. *)
SharedPrefix == (t1 :> "pa" @@ t2 :> "pa" @@ t3 :> "pc")
=============================================================================
