---------------------------- MODULE MCBuildOrder ----------------------------
(* Instances of BuildOrder for TLC. *)
EXTENDS BuildOrder

CONSTANTS a, b, c, d

(* Four components, three, and three of which two share a key. *)
SmallLists == {<<a, b, c, d>>, <<a, b, c>>, <<a, b, a>>}
=============================================================================
