--------------------------- MODULE DependencyBuild ---------------------------
(***************************************************************************)
(* What the build pass of a solution promises, without saying how: work on *)
(* a component begins at most once, and only when everything it depends on *)
(* can be referred to; a component can be referred to only when it was     *)
(* adopted or its building had begun.                                      *)
(***************************************************************************)
CONSTANT Key

VARIABLES
  needs,    \* per component of the plan, what has to exist before it
  given,    \* the components that exist already
  begun,    \* the components whose building has begun
  usable    \* the components others may refer to

vars == <<needs, given, begun, usable>>

Init ==
  /\ \E K \in SUBSET Key : needs \in [K -> SUBSET K] /\ given \in SUBSET K
  /\ begun = {}
  /\ usable = {}

Begin(k) ==
  /\ k \in DOMAIN needs \ (begun \cup given)
  /\ needs[k] \subseteq usable
  /\ begun' = begun \cup {k}
  /\ UNCHANGED <<needs, given, usable>>

Provide(k) ==
  /\ k \in (begun \cup given) \ usable
  /\ usable' = usable \cup {k}
  /\ UNCHANGED <<needs, given, begun>>

Next == \E k \in Key : Begin(k) \/ Provide(k)

Spec == Init /\ [][Next]_vars

=============================================================================
