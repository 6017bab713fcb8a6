------------------------------ MODULE Platform ------------------------------
(***************************************************************************)
(* The platform as the tools see it through SwfteClient                    *)
(* (src/src/client.ts): which artifacts exist, and how a call can end.  A  *)
(* call is answered, refused for good, or of unknown effect: a server      *)
(* error, a reset or a timeout, after which the request may have been      *)
(* served, may be served later, or never.                                  *)
(***************************************************************************)
EXTENDS Naturals, FiniteSets, TLC

CONSTANTS
  Things,  \* ids of artifacts
  None

VARIABLES exists  \* the artifacts that the platform holds

Outcomes == {"answered", "refused", "unsure"}

(* What becomes of a request that was not refused: served before the answer  *)
(* or the failure comes, still on its way when the client has given up, or   *)
(* never served.                                                             *)
Fates(o) ==
  CASE o = "answered" -> {"served"}
    [] o = "refused" -> {"dropped"}
    [] o = "unsure" -> {"served", "flying", "dropped"}

(* Mutant: one attempt too many. *)
AgainOnceMore(o, retries) == o = "unsure" /\ retries >= 0

(* request(): whether one more attempt follows.                              *)
Again(o, retries) == o = "unsure" /\ retries > 0

=============================================================================
