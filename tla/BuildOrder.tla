----------------------------- MODULE BuildOrder -----------------------------
(***************************************************************************)
(* The topological sort of a solution plan, one look at one key per step   *)
(* (src/src/orchestrator.ts, orderComponents): passes over the keys in     *)
(* plan order, each placing every key whose dependencies are placed, until *)
(* all keys are placed or a pass places none.                              *)
(***************************************************************************)
EXTENDS SolutionPlan

CONSTANTS
  Key,        \* component keys
  KeyLists    \* the key lists a plan may have, in plan order

ASSUME KeyListsAssumption == KeyLists \subseteq Seq(Key)

VARIABLES
  keys,       \* plan.components.map((c) => c.key): a key may occur twice
  deps,       \* per key, the keys its blocking wires lead to
  order,      \* the keys placed so far
  at,         \* position of the pass in keys
  progressed, \* has this pass placed a key?
  done        \* the sort has returned

vars == <<keys, deps, order, at, progressed, done>>

TypeOK ==
  /\ keys \in KeyLists
  /\ deps \in [Key -> SUBSET Key]
  /\ order \in Seq(Key)
  /\ at \in Nat \ {0} /\ at <= Len(keys) + 1
  /\ progressed \in {"yes", "no"}
  /\ done \in {"yes", "no"}

Init ==
  /\ keys \in KeyLists
  /\ deps \in [Key -> SUBSET ToSet(keys)]
  /\ \A k \in Key : k \notin deps[k] /\ (k \notin ToSet(keys) => deps[k] = {})
  /\ order = << >>
  /\ at = 1
  /\ progressed = "no"
  /\ done = "no"

(* Mutant: one dependency in place is enough. *)
ReadyOnOne(k) == deps[k] = {} \/ \E d \in deps[k] : Contains(order, d)

Ready(k) == \A d \in deps[k] : Contains(order, d)

Place ==
  /\ done = "no" /\ at <= Len(keys)
  /\ ~Contains(order, keys[at]) /\ Ready(keys[at])
  /\ order' = Append(order, keys[at])
  /\ progressed' = "yes"
  /\ at' = at + 1
  /\ UNCHANGED <<keys, deps, done>>

Pending ==
  /\ done = "no" /\ at <= Len(keys)
  /\ Contains(order, keys[at]) \/ ~Ready(keys[at])
  /\ at' = at + 1
  /\ UNCHANGED <<keys, deps, order, progressed, done>>

(* Mutant: the second pass starts before the first key. *)
NextPassFromZero ==
  /\ done = "no" /\ at > Len(keys)
  /\ Len(order) < Len(keys) /\ progressed = "yes"
  /\ at' = 0
  /\ progressed' = "no"
  /\ UNCHANGED <<keys, deps, order, done>>

(* Mutant: passes repeat although nothing can be placed any more. *)
NextPassAlways ==
  /\ done = "no" /\ at > Len(keys)
  /\ Len(order) < Len(keys)
  /\ at' = 1
  /\ progressed' = "no"
  /\ UNCHANGED <<keys, deps, order, done>>

NextPass ==
  /\ done = "no" /\ at > Len(keys)
  /\ Len(order) < Len(keys) /\ progressed = "yes"
  /\ at' = 1
  /\ progressed' = "no"
  /\ UNCHANGED <<keys, deps, order, done>>

(* Mutant: the sort stops after its first pass. *)
ReturnAfterOnePass ==
  /\ done = "no" /\ at > Len(keys)
  /\ done' = "yes"
  /\ UNCHANGED <<keys, deps, order, at, progressed>>

Return ==
  /\ done = "no" /\ at > Len(keys)
  /\ Len(order) >= Len(keys) \/ progressed = "no"
  /\ done' = "yes"
  /\ UNCHANGED <<keys, deps, order, at, progressed>>

Next == Place \/ Pending \/ NextPass \/ Return

Spec == Init /\ [][Next]_vars

(* The sort is synchronous code: it runs on until it returns.                *)
FairSpec == Spec /\ WF_vars(Next)

-----------------------------------------------------------------------------
(* A component is placed once, and only after everything its blocking wires  *)
(* lead to: "a widget cannot bind to a chatflow that does not exist yet"     *)
(* (orchestrator.ts:8, 169-176).                                                *)
DepsPrecede ==
  \A n \in DOMAIN order :
    /\ \A m \in 1..(n - 1) : order[m] # order[n]
    /\ \A d \in deps[order[n]] : \E m \in 1..(n - 1) : order[m] = d

(* Reference: k can never be built when a chain of dependencies starting at  *)
(* it comes back to one of its own links.                                    *)
Reach(S) == S \cup UNION {deps[k] : k \in S}

Downstream(k) ==
  LET grow[n \in 0..Len(keys)] == IF n = 0 THEN deps[k] ELSE Reach(grow[n - 1])
  IN  grow[Len(keys)]

Cyclic(k) == \E j \in {k} \cup Downstream(k) : j \in Downstream(j)

(* What the sort leaves out is exactly what hangs on a cycle: an acyclic     *)
(* plan is always ordered completely, and the order is the one that          *)
(* SolutionPlan computes (orchestrator.ts:167-184).                          *)
LeftOutIsCyclic ==
  done = "yes" => /\ order = OrderOf(keys, deps)
                  /\ Unplaced(order, keys) = {k \in ToSet(keys) : Cyclic(k)}

(* The passes come to an end, on cyclic plans too (the progressed flag).     *)
SortReturns == <>(done = "yes")

=============================================================================
