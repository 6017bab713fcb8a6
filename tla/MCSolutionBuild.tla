--------------------------- MODULE MCSolutionBuild ---------------------------
(* Instances of SolutionBuild for TLC. *)
EXTENDS SolutionBuild

C(key, maker, given, entry) == [key |-> key, maker |-> maker, given |-> given, entry |-> entry]

W(from, to, blocks, external, field) ==
  [from |-> from, to |-> to, blocks |-> blocks, external |-> external, field |-> field]

(* A widget bound to a chatflow that hands off to an existing agent. *)
WidgetPlan ==
  [components |-> <<C("widget", "created", "no", "yes"), C("chatflow", "persisted", "no", "no"),
                    C("agent", "created", "yes", "yes")>>,
   wiring |-> <<W("widget", "chatflow", "yes", "no", "one"),
                W("chatflow", "agent", "yes", "no", "one")>>]

(* An agent grounded on a dataset, with a wire back that is declared         *)
(* external. *)
DatasetPlan ==
  [components |-> <<C("agent", "created", "no", "yes"), C("data", "dataset", "no", "no")>>,
   wiring |-> <<W("agent", "data", "yes", "no", "many"),
                W("data", "agent", "no", "yes", "none")>>]

(* Two wires contend for the single field of one widget. *)
ContendingPlan ==
  [components |-> <<C("widget", "persisted", "yes", "yes"), C("x", "created", "yes", "no"),
                    C("y", "created", "yes", "no")>>,
   wiring |-> <<W("widget", "x", "yes", "no", "one"), W("widget", "y", "yes", "no", "one")>>]

(* Wires that lead nowhere, that nothing can carry, and a component without  *)
(* a generator. *)
OddPlan ==
  [components |-> <<C("flow", "created", "no", "no"), C("model", "none", "no", "no"),
                    C("lone", "created", "yes", "no")>>,
   wiring |-> <<W("flow", "model", "no", "no", "many"), W("flow", "nobody", "yes", "no", "many"),
                W("lone", "flow", "no", "no", "none")>>]

(* A cycle: refused. *)
CyclePlan ==
  [components |-> <<C("a", "created", "no", "yes"), C("b", "created", "no", "yes")>>,
   wiring |-> <<W("a", "b", "yes", "no", "many"), W("b", "a", "yes", "no", "many")>>]

(* One workflow to build. *)
LonePlan == [components |-> <<C("flow", "created", "no", "yes")>>, wiring |-> << >>]

(* The smaller plans are built while others work on what they name.          *)
SharedPlans == {DatasetPlan, LonePlan}
AllPlans == {WidgetPlan, ContendingPlan, OddPlan, CyclePlan} \cup SharedPlans

MCDefects == [p \in AllPlans |-> IF p \in SharedPlans THEN {"stub", "unscanned stub", "thin"} ELSE {"stub"}]
MCMaxEdits == [p \in AllPlans |-> IF p \in SharedPlans THEN 1 ELSE 0]
=============================================================================
