---------------------------- MODULE SolutionPlan ----------------------------
(***************************************************************************)
(* A solution plan and the order its components are built in               *)
(* (src/src/orchestrator.ts, orderComponents).                             *)
(*                                                                         *)
(* A plan is a record of                                                   *)
(*   components : a sequence of [key, maker, given, entry]                 *)
(*     maker  how the component's kind comes into being: "persisted" by    *)
(*            its generation, "created" from a generated draft, "dataset", *)
(*            or "none" when the server has no generator for it            *)
(*     given  "yes" when the plan names an existing artifact to adopt      *)
(*     entry  "yes" when it is an entry or a terminal of the solution      *)
(*   wiring     : a sequence of [from, to, blocks, external, field]        *)
(*     blocks "yes" for a relation in BLOCKING_RELATIONS                   *)
(*     field  the source field that carries the reference: "one" holds a   *)
(*            single id, "many" a list, "none" when no field can carry it  *)
(***************************************************************************)
EXTENDS Naturals, SequencesExt

Keys(plan) == {plan.components[n].key : n \in DOMAIN plan.components}

(* byKey, a Map filled in plan order: the last component of a key stays.     *)
Component(plan, k) ==
  plan.components[CHOOSE n \in DOMAIN plan.components :
                    /\ plan.components[n].key = k
                    /\ \A m \in DOMAIN plan.components : plan.components[m].key = k => m <= n]

Wires(plan) == DOMAIN plan.wiring

(* What has to exist before k can be built: the targets of its blocking      *)
(* wires.  Unknown ends and wires to itself do not count.                    *)
Deps(plan, k) ==
  {plan.wiring[w].to : w \in {v \in Wires(plan) : /\ plan.wiring[v].blocks = "yes"
                                                  /\ plan.wiring[v].from = k
                                                  /\ plan.wiring[v].to # k}} \cap Keys(plan)

-----------------------------------------------------------------------------
(* One look at key k: it joins the order when all it depends on is there.    *)
Visit(order, k, deps) ==
  IF Contains(order, k) \/ \E d \in deps[k] : ~Contains(order, d)
  THEN order
  ELSE Append(order, k)

(* One pass over the keys, and the order after at most n passes.             *)
Pass(order, keys, deps) ==
  LET upTo[n \in 0..Len(keys)] == IF n = 0 THEN order ELSE Visit(upTo[n - 1], keys[n], deps)
  IN  upTo[Len(keys)]

OrderOf(keys, deps) ==
  LET after[n \in 0..Len(keys)] == IF n = 0 THEN << >> ELSE Pass(after[n - 1], keys, deps)
  IN  after[Len(keys)]

(* The keys no pass could place; orderComponents calls them the cycle.       *)
Unplaced(order, keys) == {k \in ToSet(keys) : ~Contains(order, k)}

=============================================================================
