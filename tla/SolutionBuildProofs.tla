------------------------ MODULE SolutionBuildProofs ------------------------
(***************************************************************************)
(* One run of the orchestrator, for every plan, however long, and for      *)
(* every interleaving of the run with the platform and with other users.   *)
(*                                                                         *)
(* The argument: the build order holds every key of the plan once          *)
(* (OrderKeeps), so that components are concluded one by one; what a run   *)
(* knows of a component, what it asked for and what the platform holds of  *)
(* it go through one life (KeyInv); and what the review read stays as it   *)
(* was but for what others change (ReviewInv).  Inv collects these facts;  *)
(* it is inductive, and the properties of SolutionBuild follow from it.    *)
(***************************************************************************)
EXTENDS SolutionBuild, Integers, WellFoundedInduction, TLAPS

-----------------------------------------------------------------------------
(* Recursion over 0..N: a least number, N steps that stay in a set, and      *)
(* functions that go on alike.                                               *)

(* A set of natural numbers has a least one.                                *)
LEMMA LeastOf ==
  ASSUME NEW T, T \subseteq Nat, T # {}
  PROVE  \E n \in T : \A m \in T : n <= m
<1> DEFINE R == {p \in Nat \X Nat : p[1] < p[2]}
<1>1. IsWellFoundedOn(R, Nat)
  <2>1. IsWellFoundedOn(OpToRel(<, Nat), Nat)
    BY NatLessThanWellFounded, Zenon
  <2>2. OpToRel(<, Nat) = R
    BY Zenon DEF OpToRel
  <2> QED BY <2>1, <2>2
<1>2. PICK n \in T : \A m \in T : ~(<<m, n>> \in R)
  <2> HIDE DEF R
  <2> QED BY <1>1, WFMin, Zenon
<1>3. ASSUME NEW m \in T, m < n PROVE <<m, n>> \in R
  <2>1. <<m, n>> \in Nat \X Nat /\ <<m, n>>[1] = m /\ <<m, n>>[2] = n
    OBVIOUS
  <2> QED BY <1>3, <2>1
<1>4. \A m \in T : ~(m < n)
  <2> HIDE DEF R
  <2> QED BY <1>2, <1>3, Zenon
<1> QED BY <1>4

(* N steps inside S, and what they make of a.                                *)
Steps(S, N) == [1..N -> [S -> S]]

Traces(S, a, N, do) ==
  {f \in [0..N -> S] : f[0] = a /\ \A n \in 1..N : f[n] = do[n][f[n - 1]]}

(* Steps have a result, and it stays where every step stays.                 *)
LEMMA Repeated ==
  ASSUME NEW S, NEW a \in S, NEW N \in Nat, NEW do \in Steps(S, N)
  PROVE  \E f : f \in Traces(S, a, N, do)
<1> USE DEF Steps, Traces
<1> DEFINE Upto(n, f) == f \in [0..n -> S] /\ f[0] = a /\ \A m \in 1..n : f[m] = do[m][f[m - 1]]
           Bad == {n \in 0..N : ~ \E f : Upto(n, f)}
<1>1. Bad = {}
  <2> SUFFICES ASSUME Bad # {} PROVE FALSE
    OBVIOUS
  <2>1. PICK n \in Bad : \A m \in Bad : n <= m
    <3>1. Bad \subseteq Nat
      OBVIOUS
    <3> HIDE DEF Bad
    <3> QED BY <3>1, LeastOf
  <2>2. n # 0
    <3>1. Upto(0, [m \in 0..0 |-> a])
      OBVIOUS
    <3> QED BY <3>1
  <2>3. n - 1 \in 0..N /\ n - 1 \notin Bad
    <3>1. n \in 0..N
      OBVIOUS
    <3> HIDE DEF Bad
    <3> QED BY <2>1, <2>2, <3>1
  <2>4. PICK f : Upto(n - 1, f)
    BY <2>3
  <2> DEFINE g == [m \in 0..n |-> IF m = n THEN do[n][f[n - 1]] ELSE f[m]]
  <2>5. n \in 1..N /\ f[n - 1] \in S /\ do[n] \in [S -> S]
    BY <2>2, <2>3, <2>4
  <2>6. g \in [0..n -> S]
    BY <2>4, <2>5
  <2>7. g[0] = a
    BY <2>4, <2>5
  <2>8. ASSUME NEW m \in 1..n PROVE g[m] = do[m][g[m - 1]]
    BY <2>4, <2>5
  <2> QED BY <2>1, <2>6, <2>7, <2>8
<1>2. \E f : Upto(N, f)
  <2>1. N \in 0..N
    OBVIOUS
  <2> HIDE DEF Upto
  <2> QED BY <1>1, <2>1
<1> QED BY <1>2

(* Two functions that start alike and go on alike are alike.                 *)
GoAlike(N, f, g) == f[0] = g[0] /\ \A n \in 1..N : f[n - 1] = g[n - 1] => f[n] = g[n]
Alike(N, f, g)   == \A n \in 0..N : f[n] = g[n]

LEMMA StayAlike ==
  ASSUME NEW N \in Nat, NEW f, NEW g, GoAlike(N, f, g)
  PROVE  Alike(N, f, g)
<1> USE DEF GoAlike, Alike
<1> DEFINE Bad == {n \in 0..N : g[n] # f[n]}
<1> SUFFICES ASSUME Bad # {} PROVE FALSE
  OBVIOUS
<1>1. PICK n \in Bad : \A m \in Bad : n <= m
  <2>1. Bad \subseteq Nat
    OBVIOUS
  <2> HIDE DEF Bad
  <2> QED BY <2>1, LeastOf
<1>2. n \in 1..N
  OBVIOUS
<1>3. n - 1 \in 0..N /\ n - 1 \notin Bad
  BY <1>1, <1>2
<1> QED BY <1>2, <1>3

-----------------------------------------------------------------------------
(* The order.                                                                *)

(* Sequences over S in which nothing stands twice.                           *)
Orders(S) == {s \in Seq(S) : \A m, n \in 1..Len(s) : s[m] = s[n] => m = n}

(* Looking at a key keeps the order free of repetitions.                     *)
LEMMA VisitKeeps ==
  ASSUME NEW S, NEW o \in Orders(S), NEW k \in S, NEW deps
  PROVE  Visit(o, k, deps) \in Orders(S)
<1>1. CASE Contains(o, k) \/ \E d \in deps[k] : ~Contains(o, d)
  BY <1>1 DEF Visit
<1>2. CASE ~(Contains(o, k) \/ \E d \in deps[k] : ~Contains(o, d))
  <2>1. Visit(o, k, deps) = Append(o, k)
    BY <1>2 DEF Visit
  <2>2. o \in Seq(S) /\ \A m \in 1..Len(o) : o[m] # k
    BY <1>2 DEF Contains, Orders
  <2>3. Append(o, k) \in Seq(S)
    BY <2>2
  <2>4. ASSUME NEW m \in 1..Len(Append(o, k)), NEW n \in 1..Len(Append(o, k)),
               Append(o, k)[m] = Append(o, k)[n]
        PROVE  m = n
    BY <2>2, <2>4 DEF Orders
  <2> QED BY <2>1, <2>3, <2>4 DEF Orders
<1> QED BY <1>1, <1>2

(* So does a pass over all of them, and so does any number of passes.        *)
LEMMA PassKeeps ==
  ASSUME NEW keys, NEW S, keys \in Seq(S), NEW o \in Orders(S), NEW deps
  PROVE  Pass(o, keys, deps) \in Orders(S)
<1> DEFINE N == Len(keys)
           do == [n \in 1..N |-> [p \in Orders(S) |-> Visit(p, keys[n], deps)]]
           Rec(f) == f = [n \in 0..N |-> IF n = 0 THEN o ELSE Visit(f[n - 1], keys[n], deps)]
<1>1. N \in Nat /\ \A n \in 1..N : keys[n] \in S
  OBVIOUS
<1>2. do \in Steps(Orders(S), N)
  BY <1>1, VisitKeeps DEF Steps
<1>3. PICK f : f \in Traces(Orders(S), o, N, do)
  <2>1. N \in Nat
    BY <1>1
  <2> HIDE DEF do, N
  <2> QED BY <1>2, <2>1, Repeated, Zenon
<1>4. Rec(f)
  <2>1. ASSUME NEW n \in 1..N PROVE f[n] = Visit(f[n - 1], keys[n], deps)
    <3>1. f[n - 1] \in Orders(S) /\ f[n] = do[n][f[n - 1]]
      <4> HIDE DEF do
      <4> QED BY <1>1, <1>3 DEF Traces
    <3>2. do[n] = [p \in Orders(S) |-> Visit(p, keys[n], deps)]
      OBVIOUS
    <3> HIDE DEF do, Rec
    <3> QED BY <3>1, <3>2
  <2> HIDE DEF do
  <2> QED BY <1>1, <1>3, <2>1 DEF Traces
<1>5. ASSUME NEW g, Rec(g) PROVE g = f
  <2>1. f[0] = g[0]
    BY <1>1, <1>4, <1>5
  <2>2. ASSUME NEW n \in 1..N, f[n - 1] = g[n - 1] PROVE f[n] = g[n]
    BY <1>1, <1>4, <1>5, <2>2
  <2>3. \A n \in 0..N : f[n] = g[n]
    <3>1. N \in Nat /\ GoAlike(N, f, g)
      BY <1>1, <2>1, <2>2 DEF GoAlike
    <3>2. Alike(N, f, g)
      <4> HIDE DEF N, do, Rec
      <4> QED BY <3>1, StayAlike, Zenon
    <3> QED BY <3>2 DEF Alike
  <2> QED BY <1>1, <1>3, <1>5, <2>3 DEF Traces
<1>6. Pass(o, keys, deps) = f[N]
  <2> DEFINE u == CHOOSE g : Rec(g)
  <2>1. Rec(u)
    BY <1>4
  <2>2. Pass(o, keys, deps) = u[N]
    BY DEF Pass
  <2> QED BY <1>5, <2>1, <2>2
<1> QED BY <1>1, <1>3, <1>6 DEF Traces

(* Nothing stands twice in the order, and it holds nothing but keys.         *)
LEMMA OrderKeeps ==
  ASSUME NEW keys, NEW S, keys \in Seq(S), NEW deps
  PROVE  OrderOf(keys, deps) \in Orders(S)
<1> DEFINE N == Len(keys)
           do == [n \in 1..N |-> [p \in Orders(S) |-> Pass(p, keys, deps)]]
           Rec(f) == f = [n \in 0..N |-> IF n = 0 THEN << >> ELSE Pass(f[n - 1], keys, deps)]
<1>1. N \in Nat /\ \A n \in 1..N : keys[n] \in S
  OBVIOUS
<1>2. do \in Steps(Orders(S), N)
  BY <1>1, PassKeeps DEF Steps
<1>3. PICK f : f \in Traces(Orders(S), << >>, N, do)
  <2>1. N \in Nat /\ << >> \in Orders(S)
    BY <1>1 DEF Orders
  <2> HIDE DEF do, N
  <2> QED BY <1>2, <2>1, Repeated, Zenon
<1>4. Rec(f)
  <2>1. ASSUME NEW n \in 1..N PROVE f[n] = Pass(f[n - 1], keys, deps)
    <3>1. f[n - 1] \in Orders(S) /\ f[n] = do[n][f[n - 1]]
      <4> HIDE DEF do
      <4> QED BY <1>1, <1>3 DEF Traces
    <3>2. do[n] = [p \in Orders(S) |-> Pass(p, keys, deps)]
      OBVIOUS
    <3> HIDE DEF do, Rec
    <3> QED BY <3>1, <3>2
  <2> HIDE DEF do
  <2> QED BY <1>1, <1>3, <2>1 DEF Traces
<1>5. ASSUME NEW g, Rec(g) PROVE g = f
  <2>1. f[0] = g[0]
    BY <1>1, <1>4, <1>5
  <2>2. ASSUME NEW n \in 1..N, f[n - 1] = g[n - 1] PROVE f[n] = g[n]
    BY <1>1, <1>4, <1>5, <2>2
  <2>3. \A n \in 0..N : f[n] = g[n]
    <3>1. N \in Nat /\ GoAlike(N, f, g)
      BY <1>1, <2>1, <2>2 DEF GoAlike
    <3>2. Alike(N, f, g)
      <4> HIDE DEF N, do, Rec
      <4> QED BY <3>1, StayAlike, Zenon
    <3> QED BY <3>2 DEF Alike
  <2> QED BY <1>1, <1>3, <1>5, <2>3 DEF Traces
<1>6. OrderOf(keys, deps) = f[N]
  <2> DEFINE u == CHOOSE g : Rec(g)
  <2>1. Rec(u)
    BY <1>4
  <2>2. OrderOf(keys, deps) = u[N]
    BY DEF OrderOf
  <2> QED BY <1>5, <2>1, <2>2
<1> QED BY <1>1, <1>3, <1>6 DEF Traces
-----------------------------------------------------------------------------
(* The inductive invariant.                                                  *)

Asked(kind, k)  == [kind |-> kind, of |-> k] \in sent
NothingAsked(k) == \A kind \in {"build", "create", "dataset"} : ~Asked(kind, k)

(* The component that is being built.                                        *)
Turn(k) == AtComponent /\ step # "next" /\ k = Key

(* What no step has touched yet.                                             *)
Untouched(k) ==
  /\ known[k] = {} /\ k \notin ids
  /\ NothingAsked(k) /\ session[k] = "none"
  /\ Given(k) \/ stored[k] = "none"

(* The order is the whole plan, each key once, or the plan was refused.      *)
OrderInv ==
  /\ order \in Orders(Keys(plan))
  /\ \/ Keys(plan) \subseteq ToSet(order)
     \/ pc = "done" /\ status = "BROKEN" /\ \A k \in Keys(plan) : outcome[k].state = "none"

(* Components are concluded one after the other, in the order.               *)
PassInv ==
  /\ pc = "build" => \A n \in DOMAIN order : n < pos <=> outcome[order[n]].state # "none"
  /\ pc \in {"wire", "inputs", "review"} => \A k \in Keys(plan) : outcome[k].state # "none"
  /\ pc # "done" => status = "none" /\ \A k \in Keys(plan) : outcome[k].state # "pending"

(* Every artifact goes through one life: it is given, or asked for as a      *)
(* dataset, or generated and then perhaps created.                           *)
LifeOf(k) ==
  /\ Given(k) => stored[k] # "none"
  /\ ~NothingAsked(k) \/ session[k] # "none" => ~Given(k)
  /\ Asked("build", k) => session[k] = "none" /\ stored[k] = "none" /\ ~Asked("dataset", k)
  /\ Asked("create", k) => session[k] = "finished"
  /\ Asked("dataset", k) => session[k] = "none" /\ stored[k] = "none"
  /\ session[k] \in {"running", "empty", "failed"} => stored[k] = "none"
  /\ session[k] = "finished" /\ Maker(k) = "persisted" => stored[k] # "none"

(* What the run knows and has asked for while it builds a component.         *)
TurnOf(k) ==
  Turn(k) =>
    /\ ~Given(k) /\ k \notin ids /\ Deps(plan, k) \subseteq ids
    /\ step \in {"build", "poll1", "poll", "create", "dataset", "indexing"}
    /\ step = "build" => /\ known[k] = {} /\ ~Asked("create", k)
                         /\ Asked("build", k) \/ session[k] # "none"
    /\ step \in {"poll1", "poll"} => known[k] = {"session"} /\ NothingAsked(k) /\ session[k] # "none"
    /\ step = "create" => /\ known[k] = {"session"} /\ session[k] = "finished"
                          /\ Asked("create", k) \/ stored[k] # "none"
    /\ step = "dataset" => /\ known[k] = {} /\ session[k] = "none"
                           /\ Asked("dataset", k) \/ stored[k] # "none"
    /\ step = "indexing" => /\ known[k] = {"id"} /\ NothingAsked(k)
                            /\ session[k] = "none" /\ stored[k] # "none"

(* A report that names what was told of a component, unless that is nothing  *)
(* or there is nothing to be had by it.                                      *)
Traceable(told, names, generation) ==
  told = {} \/ told \cap names # {} \/ generation = "empty" \/ "no id" \in told

(* What is true of a component from its conclusion on.                       *)
EndOf(k) ==
  /\ outcome[k].state = "none" /\ ~Turn(k) => Untouched(k)
  /\ outcome[k].state = "skipped" => Untouched(k)
  /\ outcome[k].state = "built" => /\ k \in ids /\ "id" \in outcome[k].names
                                   /\ stored[k] # "none" /\ NothingAsked(k) /\ session[k] # "running"
  /\ outcome[k].state = "adopted" => Given(k) /\ "id" \in outcome[k].names
  /\ outcome[k].state # "none" => /\ Traceable(known[k], outcome[k].names, session[k])
                                  /\ "id" \in known[k] => "id" \in outcome[k].names
  /\ k \in ids => outcome[k].state \in {"adopted", "built"}

(* Nothing is begun before what it depends on can be referred to.            *)
BasisOf(k) == Begun(k) => Deps(plan, k) \subseteq ids

KeyInv(k) == LifeOf(k) /\ TurnOf(k) /\ EndOf(k) /\ BasisOf(k)

(* Requests are about the plan, and a wire write that was given up failed.   *)
WiresInv ==
  /\ \A m \in sent : m.of \in (IF m.kind = "wire" THEN Wires(plan) ELSE Keys(plan))
  /\ \A w \in Wires(plan) : Asked("wire", w) =>
       /\ pc # "build"
       /\ \/ wired[w] = "failed" /\ (pc = "wire" => w < pos)
          \/ AtWire /\ pos = w /\ step = "wire"

(* What the review read is still so, but for what others changed.            *)
ReviewInv ==
  /\ pc \in {"build", "wire", "inputs"} => review = NoReview
  /\ pc = "review" => \A n \in DOMAIN order : n < pos /\ Named(order[n]) => order[n] \in Verifiable
  /\ \A w \in review.links : Wire(w).from \in review.read
  /\ pc = "review" \/ status = "READY" =>
       /\ \A k \in review.read \ drift : outcome[k].state \in {"adopted", "built"} =>
            /\ stored[k] = "stored"
            /\ content[k] = "stub" => k \in review.stubs
            /\ content[k] = "thin" => k \in review.thin
       /\ ~WireFailed => \A w \in review.links : Wire(w).from \notin drift => w \in linked

ReadyInv ==
  status = "READY" =>
    /\ pc = "done" /\ ~WireFailed /\ review.stubs = {} /\ review.thin = {}
    /\ \A k \in Keys(plan) : outcome[k].state \in {"adopted", "built"} /\ k \in review.read
    /\ \A w \in Wires(plan) : Wire(w).from \in Keys(plan) /\ Wire(w).external = "no" => w \in review.links

AllKeyInv == \A k \in Keys(plan) : KeyInv(k)

Inv ==
  /\ TypeOK /\ OrderInv /\ PassInv /\ AllKeyInv
  /\ WiresInv /\ ReviewInv /\ ReadyInv

-----------------------------------------------------------------------------
(* Types.                                                                    *)

(* What the run itself keeps is well typed.                                  *)
RunTypeOK ==
  /\ pc \in {"build", "wire", "inputs", "review", "done"}
  /\ step \in {"next", "build", "poll1", "poll", "create", "dataset", "indexing",
               "preflight", "source", "wire", "confirm"}
  /\ pos \in Nat \ {0}
  /\ late \subseteq {"slice", "total"}
  /\ outcome \in [AllKeys -> [state : {"none", "adopted", "built", "failed", "skipped", "pending"},
                              names : SUBSET {"session", "id"}]]
  /\ ids \subseteq Keys(plan)
  /\ wired \in [AllWires -> {"none", "connected", "external", "needs-backend",
                             "target-missing", "failed", "write-not-reflected"}]
  /\ inputs \subseteq Keys(plan)
  /\ review \in [read : SUBSET Keys(plan), gone : SUBSET Keys(plan), links : SUBSET Wires(plan),
                 stubs : SUBSET Keys(plan), thin : SUBSET Keys(plan)]
  /\ status \in {"none", "READY", "NEEDS_INPUT", "BROKEN", "PARTIAL"}

(* Positions of the order hold keys, positions of the wiring are wires.      *)
LEMMA PlanFacts ==
  ASSUME TypeOK
  PROVE  /\ Keys(plan) \subseteq AllKeys /\ Wires(plan) \subseteq AllWires
         /\ DOMAIN order = 1..Len(order) /\ Len(order) \in Nat
         /\ Wires(plan) = 1..Len(plan.wiring) /\ Len(plan.wiring) \in Nat
         /\ \A n \in 1..Len(order) : order[n] \in Keys(plan)
<1>1. plan.wiring \in Seq(ToSet(plan.wiring))
  BY PlansAssumption DEF TypeOK
<1>2. Keys(plan) \subseteq AllKeys /\ Wires(plan) \subseteq AllWires
  BY DEF TypeOK, AllKeys, AllWires
<1>3. order \in Seq(Keys(plan))
  BY DEF TypeOK
<1> QED BY <1>1, <1>2, <1>3 DEF Wires

(* Conclusions keep the run well typed.                                      *)
LEMMA PartialTyped ==
  ASSUME TypeOK, NEW o, UNCHANGED <<plan, order, ids, late>>, Partial(o),
         o \in [AllKeys -> [state : {"none", "adopted", "built", "failed", "skipped", "pending"},
                           names : SUBSET {"session", "id"}]]
  PROVE  RunTypeOK'
<1>1. PartialOutcome(o) \in [AllKeys -> [state : {"none", "adopted", "built", "failed", "skipped", "pending"},
                                        names : SUBSET {"session", "id"}]]
  BY DEF PartialOutcome
<1> QED BY <1>1 DEF TypeOK, RunTypeOK, Partial

(* A conclusion keeps the run well typed, whatever it says.                  *)
LEMMA ConcludeTyped ==
  ASSUME TypeOK, NEW k \in Keys(plan), NEW names \in SUBSET {"session", "id"},
         NEW state \in {"adopted", "built", "failed", "skipped", "pending"},
         UNCHANGED <<plan, order>>, Conclude(k, state, names)
  PROVE  RunTypeOK'
<1> DEFINE o == [outcome EXCEPT ![k] = [state |-> state, names |-> names]]
<1>1. o \in [AllKeys -> [state : {"none", "adopted", "built", "failed", "skipped", "pending"},
                        names : SUBSET {"session", "id"}]]
  BY PlanFacts DEF TypeOK
<1>2. CASE state = "pending"
  <2>1. Partial(o) /\ UNCHANGED <<plan, order, ids, late>>
    BY <1>2 DEF Conclude
  <2> HIDE DEF o
  <2> QED BY <1>1, <2>1, PartialTyped
<1>3. CASE state # "pending"
  <2>1. /\ outcome' = o /\ pos' = pos + 1 /\ step' = "next" /\ late' = late \ {"slice"}
        /\ ids' \in {ids \cup {k}, ids \ {k}}
        /\ UNCHANGED <<pc, wired, inputs, review, status>>
    BY <1>3 DEF Conclude
  <2> HIDE DEF o
  <2> QED BY <1>1, <2>1 DEF TypeOK, RunTypeOK
<1> QED BY <1>2, <1>3

(* So does a step inside a component or a wire.                              *)
LEMMA EnterTyped ==
  ASSUME TypeOK, UNCHANGED <<plan, order>>, NEW s, Enter(s),
         s \in {"next", "build", "poll1", "poll", "create", "dataset", "indexing",
                "preflight", "source", "wire", "confirm"}
  PROVE  RunTypeOK'
BY DEF TypeOK, RunTypeOK, Enter

(* So does the end of a wire.                                                *)
LEMMA SettleTyped ==
  ASSUME TypeOK, UNCHANGED <<plan, order>>, AtWire, NEW s, Settle(s),
         s \in {"connected", "external", "needs-backend", "target-missing", "failed", "write-not-reflected"}
  PROVE  RunTypeOK'
BY PlanFacts DEF TypeOK, RunTypeOK, Settle, AtWire

KnownOK == known \in [AllKeys -> SUBSET Told]
SentOK  == sent \subseteq Requests

(* The build pass keeps what it may know, and what it may have asked for.    *)
LEMMA BuildTyped ==
  ASSUME TypeOK, AllKeyInv, UNCHANGED <<plan, order>>, Build
  PROVE  RunTypeOK' /\ KnownOK' /\ SentOK'
<1> USE DEF KnownOK, SentOK
<1>0. AtComponent => Key \in Keys(plan) /\ Key \in AllKeys
  BY PlanFacts DEF TypeOK, AtComponent, Key
<1>1. ASSUME AtComponent, NEW what \in Told, Learn(Key, what) PROVE KnownOK'
  BY <1>0, <1>1 DEF TypeOK, Learn
<1>2. ASSUME AtComponent, NEW kind \in {"build", "create", "dataset"}, Send([kind |-> kind, of |-> Key])
      PROVE  RunTypeOK' /\ SentOK'
  <2>1. Enter(kind) /\ sent' = sent \cup {[kind |-> kind, of |-> Key]}
    BY <1>2 DEF Send
  <2>2. RunTypeOK'
    BY <1>2, <2>1, EnterTyped
  <2> QED BY <1>0, <1>2, <2>1, <2>2 DEF TypeOK, Requests
<1>b. ASSUME AtComponent, step # "next" PROVE known[Key] \in SUBSET {"session", "id"}
  <2>1. Turn(Key) /\ TurnOf(Key)
    BY <1>0, <1>b DEF Turn, AllKeyInv, KeyInv
  <2> QED BY <2>1 DEF TurnOf
<1>3. ASSUME AtComponent, step # "next", Thrown(Key, known[Key]) PROVE RunTypeOK'
  BY <1>0, <1>b, <1>3, ConcludeTyped DEF Thrown, TypeOK
<1>4. CASE Adopt
  BY <1>0, <1>4, ConcludeTyped DEF Adopt, TypeOK
<1>5. CASE Skip
  BY <1>0, <1>5, ConcludeTyped DEF Skip, TypeOK
<1>6. CASE StartBuild
  <2>1. CASE Conclude(Key, "failed", {}) /\ UNCHANGED sent
    BY <1>0, <1>6, <2>1, ConcludeTyped DEF StartBuild, TypeOK
  <2> QED BY <1>2, <1>6, <2>1 DEF StartBuild, TypeOK
<1>7. CASE BuildAnswered
  <2>1. CASE step = "build"
    BY <1>1, <1>7, <2>1, EnterTyped DEF BuildAnswered, TypeOK, Told
  <2>2. CASE step = "create"
    BY <1>0, <1>1, <1>7, <2>2, ConcludeTyped DEF BuildAnswered, TypeOK, Told
  <2>3. CASE step = "dataset"
    BY <1>1, <1>7, <2>3, EnterTyped DEF BuildAnswered, TypeOK, Told
  <2> QED BY <1>7, <2>1, <2>2, <2>3 DEF BuildAnswered
<1>8. CASE BuildCallFailed
  BY <1>3, <1>8 DEF BuildCallFailed, TypeOK
<1>9. CASE Indexed
  <2>1. CASE Conclude(Key, "built", {"id"}) \/ Conclude(Key, "failed", {"id"})
    BY <1>0, <1>9, <2>1, ConcludeTyped DEF Indexed, TypeOK
  <2> QED BY <1>3, <1>9, <2>1 DEF Indexed, TypeOK
<1>10. CASE PollRunning
  BY <1>10, EnterTyped DEF PollRunning, TypeOK
<1>11. CASE PollFailed
  BY <1>3, <1>11 DEF PollFailed, TypeOK
<1>12. CASE PollTimedOut
  BY <1>0, <1>b, <1>12, ConcludeTyped DEF PollTimedOut, TypeOK
<1>13. CASE PollFinished
  <2>0. AtComponent /\ step # "next"
    BY <1>13 DEF PollFinished
  <2>1. CASE Thrown(Key, known[Key]) /\ UNCHANGED <<known, sent>>
    BY <1>3, <2>0, <2>1 DEF TypeOK
  <2>2. CASE Conclude(Key, "failed", {}) /\ UNCHANGED <<known, sent>>
    BY <1>0, <2>0, <2>2, ConcludeTyped DEF TypeOK
  <2>3. CASE Learn(Key, "id") /\ Conclude(Key, "built", {"session", "id"}) /\ UNCHANGED sent
    BY <1>0, <1>1, <2>0, <2>3, ConcludeTyped DEF TypeOK, Told
  <2>4. CASE Conclude(Key, "pending", known[Key]) /\ UNCHANGED <<known, sent>>
    BY <1>0, <1>b, <2>0, <2>4, ConcludeTyped DEF TypeOK
  <2>5. CASE Send([kind |-> "create", of |-> Key]) /\ UNCHANGED known
    BY <1>2, <2>0, <2>5 DEF TypeOK
  <2>6. CASE Learn(Key, "no id") /\ Conclude(Key, "failed", {}) /\ UNCHANGED sent
    BY <1>0, <1>1, <2>0, <2>6, ConcludeTyped DEF TypeOK, Told
  <2> QED BY <1>13, <2>1, <2>2, <2>3, <2>4, <2>5, <2>6 DEF PollFinished
<1>14. CASE BuildOver
  BY <1>14 DEF BuildOver, TypeOK, RunTypeOK
<1> QED BY <1>4, <1>5, <1>6, <1>7, <1>8, <1>9, <1>10, <1>11, <1>12, <1>13, <1>14 DEF Build

(* So does the wire pass.                                                    *)
LEMMA WireTyped ==
  ASSUME TypeOK, UNCHANGED <<plan, order>>, WirePass
  PROVE  RunTypeOK' /\ KnownOK' /\ SentOK'
<1> USE DEF KnownOK, SentOK
<1>1. CASE WireStart
  BY <1>1, SettleTyped, EnterTyped DEF WireStart, TypeOK
<1>2. CASE Preflight
  BY <1>2, SettleTyped, EnterTyped DEF Preflight, TypeOK
<1>3. CASE SourceRead
  <2>1. CASE Settle("connected") \/ Settle("failed")
    BY <1>3, <2>1, SettleTyped DEF SourceRead, TypeOK, Send, Enter, Settle
  <2>2. CASE Send([kind |-> "wire", of |-> pos])
    <3>1. Enter("wire") /\ sent' = sent \cup {[kind |-> "wire", of |-> pos]}
      BY <2>2 DEF Send
    <3>2. pos \in AllWires
      BY <1>3, PlanFacts DEF SourceRead, AtWire, TypeOK
    <3> QED BY <1>3, <3>1, <3>2, EnterTyped DEF SourceRead, TypeOK, Requests
  <2> QED BY <1>3, <2>1, <2>2 DEF SourceRead
<1>4. CASE WriteAnswered
  BY <1>4, EnterTyped DEF WriteAnswered, TypeOK
<1>5. CASE WriteFailed
  BY <1>5, SettleTyped DEF WriteFailed, TypeOK
<1>6. CASE Confirm
  BY <1>6, SettleTyped DEF Confirm, TypeOK
<1>7. CASE WireOver
  BY <1>7 DEF WireOver, TypeOK, RunTypeOK
<1> QED BY <1>1, <1>2, <1>3, <1>4, <1>5, <1>6, <1>7 DEF WirePass

(* So do the passes that only read, the verdict and the end of the time.     *)
LEMMA RestTyped ==
  ASSUME TypeOK, UNCHANGED <<plan, order, platform>>,
         InputsRead \/ InputsUnread \/ InputsOver \/ ReviewRead \/ ReviewUnread \/ Verdict \/ OutOfTime
  PROVE  RunTypeOK' /\ KnownOK' /\ SentOK'
<1> USE DEF KnownOK, SentOK
<1>0. AtInput \/ AtReview => Key \in Keys(plan)
  BY PlanFacts DEF TypeOK, AtInput, AtReview, Key
<1>1. CASE InputsRead
  <2>1. inputs' \in {inputs, inputs \cup {Key}}
    BY <1>1 DEF InputsRead
  <2>2. inputs' \subseteq Keys(plan)
    BY <1>0, <1>1, <2>1 DEF InputsRead, TypeOK
  <2>3. pos' = pos + 1 /\ UNCHANGED <<pc, step, outcome, ids, wired, review, status, late, known, sent>>
    BY <1>1 DEF InputsRead
  <2> QED BY <2>2, <2>3 DEF TypeOK, RunTypeOK
<1>2. CASE InputsUnread
  BY <1>2 DEF InputsUnread, TypeOK, RunTypeOK
<1>3. CASE InputsOver
  BY <1>3 DEF InputsOver, TypeOK, RunTypeOK
<1>4. CASE ReviewRead
  <2>1. LinksOf(Key) \subseteq Wires(plan)
    BY DEF LinksOf, TypeOK
  <2>2. Key \in Keys(plan)
    BY <1>0, <1>4 DEF ReviewRead
  <2>3. review' \in [read : SUBSET Keys(plan), gone : SUBSET Keys(plan), links : SUBSET Wires(plan),
                    stubs : SUBSET Keys(plan), thin : SUBSET Keys(plan)]
    <3>1. CASE review' = review
      BY <3>1 DEF TypeOK
    <3>2. CASE review' = [review EXCEPT !.gone = @ \cup {Key}]
      BY <2>2, <3>2 DEF TypeOK
    <3>3. CASE review' = [review EXCEPT !.read = @ \cup {Key},
                                        !.links = @ \cup LinksOf(Key),
                                        !.stubs = IF content[Key] = "stub" THEN @ \cup {Key} ELSE @,
                                        !.thin  = IF content[Key] = "thin" THEN @ \cup {Key} ELSE @]
      <4>1. /\ (IF content[Key] = "stub" THEN review.stubs \cup {Key} ELSE review.stubs) \in SUBSET Keys(plan)
            /\ (IF content[Key] = "thin" THEN review.thin \cup {Key} ELSE review.thin) \in SUBSET Keys(plan)
            /\ review.links \cup LinksOf(Key) \in SUBSET Wires(plan)
            /\ review.read \cup {Key} \in SUBSET Keys(plan)
        BY <2>1, <2>2 DEF TypeOK
      <4> QED BY <3>3, <4>1 DEF TypeOK
    <3> QED BY <1>4, <3>1, <3>2, <3>3 DEF ReviewRead
  <2>4. /\ pos' = pos + 1
        /\ UNCHANGED <<pc, step, outcome, ids, wired, inputs, status, late, known, sent>>
    BY <1>4 DEF ReviewRead
  <2> QED BY <2>3, <2>4 DEF TypeOK, RunTypeOK
<1>5. CASE ReviewUnread
  <2>1. review' \in [read : SUBSET Keys(plan), gone : SUBSET Keys(plan), links : SUBSET Wires(plan),
                    stubs : SUBSET Keys(plan), thin : SUBSET Keys(plan)]
    BY <1>0, <1>5 DEF ReviewUnread, TypeOK
  <2>2. /\ pos' = pos + 1
        /\ UNCHANGED <<pc, step, outcome, ids, wired, inputs, status, late, known, sent>>
    BY <1>5 DEF ReviewUnread
  <2> QED BY <2>1, <2>2 DEF TypeOK, RunTypeOK
<1>6. CASE Verdict
  BY <1>6 DEF Verdict, TypeOK, RunTypeOK
<1>7. CASE OutOfTime
  BY <1>7, PartialTyped DEF OutOfTime, TypeOK
<1> QED BY <1>1, <1>2, <1>3, <1>4, <1>5, <1>6, <1>7

(* Stored artifacts hold what they may hold.                                 *)
LEMMA StoreTyped ==
  ASSUME TypeOK, UNCHANGED plan, NEW k \in AllKeys, Store(k)
  PROVE  /\ stored' = [stored EXCEPT ![k] = "stored"]
         /\ stored' \in [AllKeys -> {"none", "stored", "gone"}]
         /\ content' \in [AllKeys -> {"good"} \cup Defects[plan]]
<1>1. \A c \in Contents(k) : c \in {"good"} \cup Defects[plan]
  BY DEF Contents
<1> QED BY <1>1 DEF Store, TypeOK

(* No step of the run, of the platform or of others breaks a type.           *)
LEMMA TypeStep ==
  ASSUME TypeOK, AllKeyInv, WiresInv, [Next]_vars
  PROVE  TypeOK'
<1> USE DEF platform, server
<1>1. CASE Orchestrate
  <2>1. UNCHANGED <<plan, order, platform, drift, edits>>
    BY <1>1 DEF Orchestrate
  <2>2. RunTypeOK' /\ KnownOK' /\ SentOK'
    <3>1. UNCHANGED <<plan, order>>
      BY <2>1
    <3> QED BY <1>1, <2>1, <3>1, BuildTyped, WireTyped, RestTyped DEF Orchestrate
  <2> QED BY <2>1, <2>2 DEF TypeOK, RunTypeOK, KnownOK, SentOK
<1>2. ASSUME NEW m \in Requests, TakesEffect(m) PROVE TypeOK'
  <2>0. UNCHANGED <<plan, order, server, late, drift, edits>> /\ sent' \subseteq Requests
    BY <1>2 DEF TakesEffect, TypeOK
  <2>1. CASE m.kind = "build"
    BY <1>2, <2>0, <2>1 DEF TakesEffect, TypeOK
  <2>2. CASE m.kind \in {"create", "dataset"}
    <3>1. m.of \in AllKeys
      BY <1>2, <2>2, PlanFacts DEF TakesEffect, WiresInv
    <3>2. Store(m.of) /\ UNCHANGED <<session, linked>>
      BY <1>2, <2>2 DEF TakesEffect
    <3> QED BY <2>0, <3>1, <3>2, StoreTyped DEF TypeOK
  <2>3. CASE m.kind = "wire"
    <3>1. m.of \in Wires(plan)
      BY <1>2, <2>3 DEF TakesEffect, WiresInv
    <3>2. linked' \in SUBSET Wires(plan) /\ UNCHANGED <<session, stored, content>>
      BY <1>2, <2>3, <3>1 DEF TakesEffect, TypeOK
    <3> QED BY <2>0, <3>2 DEF TypeOK
  <2> QED BY <1>2, <2>1, <2>2, <2>3 DEF TakesEffect
<1>3. ASSUME NEW k \in AllKeys, Generates(k) PROVE TypeOK'
  <2>1. UNCHANGED <<plan, order, server, late, linked, sent, drift, edits>>
    BY <1>3 DEF Generates
  <2>2. session' \in [AllKeys -> {"none", "running", "finished", "empty", "failed"}]
    BY <1>3 DEF Generates, TypeOK
  <2>3. CASE Store(k)
    BY <2>1, <2>2, <2>3, StoreTyped DEF TypeOK
  <2>4. CASE UNCHANGED <<stored, content>>
    BY <2>1, <2>2, <2>4 DEF TypeOK
  <2> QED BY <1>3, <2>3, <2>4 DEF Generates
<1>4. ASSUME NEW k \in AllKeys, SomeoneEdits(k) PROVE TypeOK'
  <2>1. UNCHANGED <<plan, order, server, late, session, sent>>
    BY <1>4 DEF SomeoneEdits
  <2>2. drift' \subseteq Keys(plan)
    BY <1>4 DEF SomeoneEdits, TypeOK, Verifiable
  <2>3. edits' \in 0..MaxEdits[plan]
    BY <1>4, EditsAssumption DEF SomeoneEdits, TypeOK
  <2>4. linked' \subseteq Wires(plan) /\ stored' \in [AllKeys -> {"none", "stored", "gone"}]
    BY <1>4 DEF SomeoneEdits, TypeOK
  <2>5. content' \in [AllKeys -> {"good"} \cup Defects[plan]]
    BY <1>4 DEF SomeoneEdits, TypeOK, Contents
  <2> QED BY <2>1, <2>2, <2>3, <2>4, <2>5 DEF TypeOK
<1>5. CASE ComponentExpires
  BY <1>5 DEF ComponentExpires, TypeOK
<1>6. CASE OperationExpires
  BY <1>6 DEF OperationExpires, TypeOK
<1>7. CASE UNCHANGED vars
  BY <1>7 DEF vars, TypeOK
<1> QED BY <1>1, <1>2, <1>3, <1>4, <1>5, <1>6, <1>7 DEF Next

-----------------------------------------------------------------------------
(* The components.                                                           *)

(* Nothing that matters to k is changed, but that more may be referred to.   *)
Same(k) ==
  /\ plan' = plan /\ ids \subseteq ids' /\ (k \in ids' <=> k \in ids)
  /\ known'[k] = known[k] /\ session'[k] = session[k] /\ stored'[k] = stored[k]
  /\ \A kind \in {"build", "create", "dataset"} :
       [kind |-> kind, of |-> k] \in sent' <=> [kind |-> kind, of |-> k] \in sent

(* The outcome of k stays, or tells that the run did not come to it.         *)
Carried(k) ==
  \/ outcome'[k] = outcome[k]
  \/ /\ outcome[k].state = "none"
     /\ outcome'[k] = [state |-> IF Given(k) THEN "adopted" ELSE "skipped",
                       names |-> IF Given(k) THEN {"id"} ELSE {}]

(* A component that is not being built keeps what is so of it then.          *)
LEMMA KeyFrame ==
  ASSUME NEW k, KeyInv(k), Same(k), Carried(k), ~Turn(k), ~Turn(k)'
  PROVE  KeyInv(k)'
<1>0. (Given(k))' = Given(k) /\ (Maker(k))' = Maker(k) /\ (Deps(plan, k))' = Deps(plan, k)
  BY DEF Same, Given, Maker
<1>1. (NothingAsked(k))' <=> NothingAsked(k)
  BY DEF Same, NothingAsked, Asked
<1>2. (LifeOf(k))'
  BY <1>0, <1>1 DEF KeyInv, LifeOf, Same, Asked
<1>3. (TurnOf(k))'
  BY DEF TurnOf
<1>4. (Untouched(k))' <=> Untouched(k)
  BY <1>0, <1>1 DEF Untouched, Same
<1>5. (EndOf(k))'
  <2>1. CASE outcome'[k] = outcome[k]
    BY <1>0, <1>1, <1>4, <2>1 DEF KeyInv, EndOf, Same
  <2>2. CASE outcome[k].state = "none" /\ outcome'[k] # outcome[k]
    <3>1. Untouched(k)
      BY <2>2 DEF KeyInv, EndOf
    <3>2. outcome'[k] = [state |-> IF Given(k) THEN "adopted" ELSE "skipped",
                         names |-> IF Given(k) THEN {"id"} ELSE {}]
      BY <2>2 DEF Carried
    <3>3. CASE Given(k)
      <4>1. outcome'[k].state = "adopted" /\ outcome'[k].names = {"id"}
        BY <3>2, <3>3
      <4> QED BY <1>0, <1>4, <3>1, <3>3, <4>1 DEF EndOf, Untouched, Same, Traceable
    <3>4. CASE ~Given(k)
      <4>1. outcome'[k].state = "skipped" /\ outcome'[k].names = {}
        BY <3>2, <3>4
      <4> QED BY <1>0, <1>4, <3>1, <3>4, <4>1 DEF EndOf, Untouched, Same, Traceable
    <3> QED BY <3>3, <3>4
  <2> QED BY <2>1, <2>2 DEF Carried
<1>6. (BasisOf(k))'
  BY <1>0 DEF KeyInv, BasisOf, Begun, Same
<1> QED BY <1>2, <1>3, <1>5, <1>6 DEF KeyInv

(* What is over is over, and the others are left as they were.               *)
LEMMA PartialFacts ==
  ASSUME TypeOK, UNCHANGED <<plan, order>>, NEW o, Partial(o)
  PROVE  /\ \A j : ~(Turn(j))'
         /\ \A j \in Keys(plan) : o[j].state # "none" => outcome'[j] = o[j]
         /\ \A j \in Keys(plan) : o[j] = outcome[j] => Carried(j)
<1>1. \A j \in Keys(plan) : outcome'[j] = PartialOutcome(o)[j] /\ j \in AllKeys
  BY PlanFacts DEF Partial
<1>2. \A j : ~(Turn(j))'
  BY DEF Partial, Turn
<1>3. ASSUME NEW j \in Keys(plan), o[j].state # "none" PROVE outcome'[j] = o[j]
  BY <1>1, <1>3 DEF PartialOutcome
<1>4. ASSUME NEW j \in Keys(plan), o[j] = outcome[j] PROVE Carried(j)
  BY <1>1, <1>4 DEF PartialOutcome, Carried
<1> QED BY <1>2, <1>3, <1>4

(* What a conclusion leaves.                                                 *)
LEMMA ConcludeFacts ==
  ASSUME TypeOK, UNCHANGED <<plan, order>>, NEW k \in Keys(plan), k \notin ids, NEW names,
         NEW state \in {"adopted", "built", "failed", "skipped", "pending"}, Conclude(k, state, names)
  PROVE  /\ \A j : ~(Turn(j))'
         /\ outcome'[k].state = state /\ outcome'[k].names = names
         /\ ids' = IF state \in {"adopted", "built"} THEN ids \cup {k} ELSE ids
         /\ \A j \in Keys(plan) \ {k} : Carried(j)
<1> DEFINE o == [outcome EXCEPT ![k] = [state |-> state, names |-> names]]
<1>1. o[k] = [state |-> state, names |-> names] /\ \A j \in Keys(plan) \ {k} : o[j] = outcome[j]
  BY PlanFacts DEF TypeOK
<1>2. CASE state = "pending"
  <2>1. Partial(o) /\ UNCHANGED ids
    BY <1>2 DEF Conclude
  <2>2. o[k].state # "none"
    BY <1>1, <1>2
  <2> HIDE DEF o
  <2> QED BY <1>1, <1>2, <2>1, <2>2, PartialFacts
<1>3. CASE state # "pending"
  <2>1. /\ outcome' = o /\ step' = "next"
        /\ ids' = IF state \in {"adopted", "built"} THEN ids \cup {k} ELSE ids
    BY <1>3 DEF Conclude
  <2>2. \A j : ~(Turn(j))'
    BY <2>1 DEF Turn
  <2> HIDE DEF o
  <2> QED BY <1>1, <2>1, <2>2 DEF Carried
<1> QED BY <1>2, <1>3

(* A conclusion that says of the component what is so.                       *)
LEMMA KeyConcluded ==
  ASSUME TypeOK, UNCHANGED <<plan, order, session, stored, sent>>,
         NEW k \in Keys(plan), k \notin ids, LifeOf(k), BasisOf(k), NEW names,
         NEW state \in {"adopted", "built", "failed", "skipped", "pending"}, Conclude(k, state, names),
         state = "skipped" => NothingAsked(k) /\ session[k] = "none" /\ stored[k] = "none" /\ known'[k] = {},
         state = "built" => "id" \in names /\ stored[k] # "none" /\ NothingAsked(k) /\ session[k] # "running",
         state = "adopted" => Given(k) /\ "id" \in names,
         Traceable(known'[k], names, session[k]),
         "id" \in known'[k] => "id" \in names
  PROVE  KeyInv(k)'
<1>0. (Given(k))' = Given(k) /\ (Maker(k))' = Maker(k) /\ (Deps(plan, k))' = Deps(plan, k)
  BY DEF Given, Maker
<1>1. ~(Turn(k))' /\ outcome'[k].state = state /\ outcome'[k].names = names
  BY ConcludeFacts
<1>2. ids' = IF state \in {"adopted", "built"} THEN ids \cup {k} ELSE ids
  BY ConcludeFacts
<1>3. (NothingAsked(k))' <=> NothingAsked(k)
  BY DEF NothingAsked, Asked
<1>4. (LifeOf(k))'
  BY <1>0, <1>3 DEF LifeOf, Asked
<1>5. (TurnOf(k))'
  BY <1>1 DEF TurnOf
<1>6. (EndOf(k))'
  BY <1>0, <1>1, <1>2, <1>3 DEF EndOf, Untouched
<1>7. (BasisOf(k))'
  BY <1>0, <1>2 DEF BasisOf, Begun
<1> QED BY <1>4, <1>5, <1>6, <1>7 DEF KeyInv

(* What the run learns and asks for concerns the component it is at.         *)
AboutKey ==
  /\ \A j \in Keys(plan) \ {Key} :
       /\ known'[j] = known[j]
       /\ \A kind \in {"build", "create", "dataset"} :
            [kind |-> kind, of |-> j] \in sent' <=> [kind |-> kind, of |-> j] \in sent
  /\ UNCHANGED <<plan, order, session, stored>>

(* The build pass learns and asks about no other component.                  *)
LEMMA LearnsAboutKey ==
  ASSUME TypeOK, AtComponent, UNCHANGED <<plan, order, session, stored>>,
         known' = known \/ \E what : Learn(Key, what),
         sent' = sent \/ \E kind : sent' = sent \cup {[kind |-> kind, of |-> Key]}
  PROVE  AboutKey
<1>1. ASSUME NEW j \in Keys(plan) \ {Key} PROVE known'[j] = known[j]
  <2>1. CASE known' = known
    BY <2>1
  <2>2. ASSUME NEW what, Learn(Key, what) PROVE known'[j] = known[j]
    BY <2>2, PlanFacts DEF Learn, TypeOK
  <2> QED BY <2>1, <2>2
<1>2. ASSUME NEW j \in Keys(plan) \ {Key}, NEW kind
      PROVE  [kind |-> kind, of |-> j] \in sent' <=> [kind |-> kind, of |-> j] \in sent
  <2>1. ASSUME NEW other PROVE [kind |-> kind, of |-> j] # [kind |-> other, of |-> Key]
    OBVIOUS
  <2> QED BY <2>1
<1> QED BY <1>1, <1>2 DEF AboutKey

(* A true conclusion keeps the invariant of every component.                 *)
LEMMA Concluded ==
  ASSUME TypeOK, AllKeyInv, AtComponent, Key \in Keys(plan), Key \notin ids, AboutKey, sent' = sent, NEW names,
         NEW state \in {"adopted", "built", "failed", "skipped", "pending"}, Conclude(Key, state, names),
         state = "skipped" => NothingAsked(Key) /\ session[Key] = "none" /\ stored[Key] = "none" /\ known'[Key] = {},
         state = "built" => "id" \in names /\ stored[Key] # "none" /\ NothingAsked(Key) /\ session[Key] # "running",
         state = "adopted" => Given(Key) /\ "id" \in names,
         Traceable(known'[Key], names, session[Key]),
         "id" \in known'[Key] => "id" \in names
  PROVE  AllKeyInv'
<1>0. plan' = plan /\ UNCHANGED <<plan, order, session, stored, sent>> /\ UNCHANGED <<plan, order>>
  BY DEF AboutKey
<1>1. ASSUME NEW j \in Keys(plan) PROVE KeyInv(j)'
  <2>1. CASE j = Key
    <3>1. LifeOf(j) /\ BasisOf(j)
      BY DEF AllKeyInv, KeyInv
    <3> QED BY <1>0, <2>1, <3>1, KeyConcluded
  <2>2. CASE j # Key
    <3>1. Carried(j) /\ ~(Turn(j))' /\ ids \subseteq ids' /\ (j \in ids' <=> j \in ids)
      BY <1>0, <2>2, ConcludeFacts
    <3>2. Same(j)
      BY <2>2, <3>1 DEF Same, AboutKey
    <3>3. ~Turn(j) /\ KeyInv(j)
      BY <2>2 DEF Turn, AllKeyInv
    <3> QED BY <3>1, <3>2, <3>3, KeyFrame
  <2> QED BY <2>1, <2>2
<1> QED BY <1>0, <1>1 DEF AllKeyInv

(* So does a step inside the component that is being built.                  *)
LEMMA Entered ==
  ASSUME TypeOK, AllKeyInv, AtComponent, Key \in Keys(plan), AboutKey, NEW s, Enter(s),
         (LifeOf(Key))', (TurnOf(Key))', (EndOf(Key))', (BasisOf(Key))'
  PROVE  AllKeyInv'
<1>0. plan' = plan /\ Key' = Key
  BY DEF AboutKey, Key, Enter
<1>1. ASSUME NEW j \in Keys(plan) PROVE KeyInv(j)'
  <2>1. CASE j = Key
    <3>1. (LifeOf(j))' /\ (TurnOf(j))' /\ (EndOf(j))' /\ (BasisOf(j))'
      BY <1>0, <2>1 DEF LifeOf, TurnOf, EndOf, BasisOf, Asked, NothingAsked, Turn, Untouched, Begun
    <3> QED BY <3>1 DEF KeyInv
  <2>2. CASE j # Key
    <3>1. Carried(j) /\ ids' = ids
      BY DEF Enter, Carried
    <3>2. Same(j)
      BY <2>2, <3>1 DEF Same, AboutKey
    <3>3. ~Turn(j) /\ ~(Turn(j))' /\ KeyInv(j)
      BY <1>0, <2>2 DEF Turn, AllKeyInv
    <3> QED BY <3>1, <3>2, <3>3, KeyFrame
  <2> QED BY <2>1, <2>2
<1> QED BY <1>0, <1>1 DEF AllKeyInv

(* The component the run is at has no outcome and cannot be referred to.     *)
LEMMA AtKey ==
  ASSUME TypeOK, OrderInv, PassInv, AllKeyInv, AtComponent
  PROVE  /\ Key \in Keys(plan) /\ Key \in AllKeys /\ Key \notin ids /\ outcome[Key].state = "none"
         /\ LifeOf(Key) /\ EndOf(Key) /\ BasisOf(Key)
         /\ step = "next" => Untouched(Key)
         /\ step # "next" => Turn(Key) /\ TurnOf(Key)
<1>1. pos \in 1..Len(order) /\ pos \in DOMAIN order /\ Key \in Keys(plan) /\ Key \in AllKeys
  BY PlanFacts DEF TypeOK, AtComponent, Key
<1>2. outcome[Key].state = "none"
  BY <1>1 DEF PassInv, AtComponent, Key, TypeOK
<1>3. KeyInv(Key)
  BY <1>1 DEF AllKeyInv
<1>4. step = "next" => Untouched(Key)
  BY <1>2, <1>3 DEF KeyInv, EndOf, Turn
<1>5. step # "next" => Turn(Key)
  BY DEF Turn
<1>6. Key \notin ids
  BY <1>2, <1>3 DEF KeyInv, EndOf
<1> QED BY <1>1, <1>2, <1>3, <1>4, <1>5, <1>6 DEF KeyInv

(* Every step of the build pass keeps the invariant of every component.      *)
LEMMA BuildKeys ==
  ASSUME TypeOK, OrderInv, PassInv, AllKeyInv, Build, UNCHANGED <<plan, order, session, stored>>
  PROVE  AllKeyInv'
<1>a. ASSUME AtComponent, Thrown(Key, known[Key]), UNCHANGED <<known, sent>>
      PROVE  AllKeyInv'
  <2>1. AboutKey /\ sent' = sent
    BY <1>a, LearnsAboutKey
  <2>2. known'[Key] = known[Key] /\ Thrown(Key, known'[Key])
    BY <1>a
  <2>3. known'[Key] = {} \/ known'[Key] \cap known'[Key] # {}
    OBVIOUS
  <2>4. Conclude(Key, "pending", known'[Key]) \/ Conclude(Key, "failed", known'[Key])
    BY <2>2 DEF Thrown
  <2> QED BY <1>a, <2>1, <2>3, <2>4, AtKey, Concluded DEF Traceable
<1>1. CASE Adopt
  <2>1. AtComponent /\ AboutKey /\ sent' = sent /\ known' = known
    BY <1>1, LearnsAboutKey DEF Adopt
  <2>2. known'[Key] = {}
    BY <1>1, <2>1, AtKey DEF Adopt, Untouched
  <2> QED BY <1>1, <2>1, <2>2, AtKey, Concluded DEF Adopt, Traceable
<1>2. CASE Skip
  <2>1. AtComponent /\ AboutKey /\ sent' = sent /\ known' = known
    BY <1>2, LearnsAboutKey DEF Skip
  <2>2. known'[Key] = {} /\ Untouched(Key)
    BY <1>2, <2>1, AtKey DEF Skip, Untouched
  <2>3. NothingAsked(Key) /\ session[Key] = "none" /\ stored[Key] = "none"
    BY <1>2, <2>2 DEF Skip, Untouched
  <2> QED BY <1>2, <2>1, <2>2, <2>3, AtKey, Concluded DEF Skip, Traceable
<1>3. CASE StartBuild
  <2>0. AtComponent /\ step = "next" /\ known' = known /\ Untouched(Key) /\ ~Given(Key)
    BY <1>3, AtKey DEF StartBuild
  <2>1. CASE Conclude(Key, "failed", {}) /\ UNCHANGED sent
    <3>1. AboutKey /\ known'[Key] = {}
      BY <2>0, <2>1, LearnsAboutKey DEF Untouched
    <3> QED BY <2>0, <2>1, <3>1, AtKey, Concluded DEF Traceable
  <2>2. ASSUME NEW kind \in {"build", "dataset"}, Send([kind |-> kind, of |-> Key])
        PROVE  AllKeyInv'
    <3>1. Enter(kind) /\ sent' = sent \cup {[kind |-> kind, of |-> Key]}
      BY <2>2 DEF Send
    <3>2. AboutKey
      BY <2>0, <3>1, LearnsAboutKey
    <3>3. Key' = Key /\ plan' = plan /\ ids' = ids /\ outcome' = outcome /\ step' = kind
      BY <3>1 DEF Enter, Key
    <3>4. (Given(Key))' = Given(Key) /\ (Maker(Key))' = Maker(Key) /\ (Deps(plan, Key))' = Deps(plan, Key)
      BY <3>3 DEF Given, Maker
    <3>5. \A other \in {"build", "create", "dataset"} : (Asked(other, Key))' <=> other = kind
      BY <2>0, <3>1, <3>3 DEF Untouched, NothingAsked, Asked
    <3>6. Deps(plan, Key) \subseteq ids
      BY <1>3 DEF StartBuild, Unmet, Deps, Wire
    <3>7. (LifeOf(Key))'
      BY <2>0, <2>2, <3>3, <3>4, <3>5, AtKey DEF LifeOf, Untouched
    <3>8. (TurnOf(Key))'
      BY <2>0, <2>2, <3>3, <3>4, <3>5, <3>6, AtKey DEF TurnOf, Untouched
    <3>9. (Turn(Key))'
      BY <2>0, <2>2, <3>1, <3>3 DEF Turn, AtComponent, Enter
    <3>10. (EndOf(Key))'
      BY <2>0, <3>3, <3>9, AtKey DEF EndOf
    <3>11. (BasisOf(Key))'
      BY <3>3, <3>4, <3>6 DEF BasisOf
    <3> QED BY <2>0, <3>1, <3>2, <3>7, <3>8, <3>10, <3>11, AtKey, Entered
  <2> QED BY <1>3, <2>1, <2>2 DEF StartBuild
<1>b. ASSUME AtComponent, step # "next", NEW t, Enter(t), sent' = sent,
             known' = known \/ \E what : Learn(Key, what), (TurnOf(Key))', t # "next"
      PROVE  AllKeyInv'
  <2>1. AboutKey
    BY <1>b, LearnsAboutKey
  <2>2. Key' = Key /\ plan' = plan /\ ids' = ids /\ outcome' = outcome /\ step' = t
    BY <1>b DEF Enter, Key
  <2>3. (Given(Key))' = Given(Key) /\ (Maker(Key))' = Maker(Key) /\ (Deps(plan, Key))' = Deps(plan, Key)
    BY <2>2 DEF Given, Maker
  <2>4. (NothingAsked(Key))' <=> NothingAsked(Key)
    BY <1>b, <2>2 DEF NothingAsked, Asked
  <2>5. (LifeOf(Key))'
    BY <1>b, <2>2, <2>3, <2>4, AtKey DEF LifeOf, Asked
  <2>6. (Turn(Key))'
    BY <1>b, <2>2 DEF Turn, AtComponent, Enter
  <2>7. (EndOf(Key))'
    BY <2>2, <2>6, <1>b, AtKey DEF EndOf
  <2>8. (BasisOf(Key))'
    BY <1>b, <2>2, <2>3, AtKey DEF BasisOf, Begun
  <2> QED BY <1>b, <2>1, <2>5, <2>7, <2>8, AtKey, Entered
<1>4. CASE BuildAnswered
  <2>0. /\ AtComponent /\ sent' = sent /\ ~Asked(step, Key) /\ step # "next"
        /\ TurnOf(Key) /\ Turn(Key) /\ LifeOf(Key) /\ Key \in AllKeys
    BY <1>4, AtKey DEF BuildAnswered, Asked
  <2>1. CASE step = "build"
    <3>1. Learn(Key, "session") /\ Enter("poll1")
      BY <1>4, <2>1 DEF BuildAnswered
    <3>2. known'[Key] = {"session"} /\ Key' = Key /\ ids' = ids /\ step' = "poll1"
      BY <2>0, <2>1, <3>1 DEF Learn, TypeOK, TurnOf, Enter, Key
    <3>3. NothingAsked(Key) /\ session[Key] # "none"
      BY <2>0, <2>1 DEF TurnOf, NothingAsked, LifeOf
    <3>4. (NothingAsked(Key))'
      BY <2>0, <3>2, <3>3 DEF NothingAsked, Asked
    <3>5. (TurnOf(Key))'
      <4>1. ~Given(Key) /\ Key \notin ids /\ Deps(plan, Key) \subseteq ids
        BY <2>0 DEF TurnOf
      <4>2. ~(Given(Key))' /\ (Deps(plan, Key))' = Deps(plan, Key)
        BY <3>2, <4>1 DEF Given
      <4> QED BY <3>2, <3>3, <3>4, <4>1, <4>2 DEF TurnOf
    <3> QED BY <1>b, <2>0, <3>1, <3>5
  <2>2. CASE step = "create"
    <3>1. Learn(Key, "id") /\ Conclude(Key, "built", {"session", "id"})
      BY <1>4, <2>2 DEF BuildAnswered
    <3>2. NothingAsked(Key) /\ stored[Key] # "none" /\ session[Key] # "running"
      BY <2>0, <2>2 DEF TurnOf, NothingAsked, LifeOf
    <3>3. AboutKey /\ known'[Key] = {"session", "id"}
      BY <2>0, <2>2, <3>1, LearnsAboutKey DEF Learn, TypeOK, TurnOf
    <3> QED BY <2>0, <3>1, <3>2, <3>3, AtKey, Concluded DEF Traceable
  <2>3. CASE step = "dataset"
    <3>1. Learn(Key, "id") /\ Enter("indexing")
      BY <1>4, <2>3 DEF BuildAnswered
    <3>2. known'[Key] = {"id"} /\ Key' = Key /\ ids' = ids /\ step' = "indexing"
      BY <2>0, <2>3, <3>1 DEF Learn, TypeOK, TurnOf, Enter, Key
    <3>3. NothingAsked(Key) /\ session[Key] = "none" /\ stored[Key] # "none"
      BY <2>0, <2>3 DEF TurnOf, NothingAsked, LifeOf
    <3>4. (NothingAsked(Key))'
      BY <2>0, <3>2, <3>3 DEF NothingAsked, Asked
    <3>5. (TurnOf(Key))'
      <4>1. ~Given(Key) /\ Key \notin ids /\ Deps(plan, Key) \subseteq ids
        BY <2>0 DEF TurnOf
      <4>2. ~(Given(Key))' /\ (Deps(plan, Key))' = Deps(plan, Key)
        BY <3>2, <4>1 DEF Given
      <4> QED BY <3>2, <3>3, <3>4, <4>1, <4>2 DEF TurnOf
    <3> QED BY <1>b, <2>0, <3>1, <3>5
  <2> QED BY <1>4, <2>1, <2>2, <2>3 DEF BuildAnswered
<1>5. CASE BuildCallFailed
  BY <1>a, <1>5 DEF BuildCallFailed
<1>6. CASE Indexed
  <2>0. AtComponent /\ AboutKey /\ sent' = sent /\ known' = known /\ TurnOf(Key) /\ Turn(Key)
    BY <1>6, LearnsAboutKey, AtKey DEF Indexed
  <2>1. known'[Key] = {"id"} /\ stored[Key] # "none" /\ NothingAsked(Key) /\ session[Key] # "running"
    BY <1>6, <2>0 DEF Indexed, TurnOf
  <2>2. CASE Conclude(Key, "built", {"id"})
    BY <2>0, <2>1, <2>2, AtKey, Concluded DEF Traceable
  <2>3. CASE Conclude(Key, "failed", {"id"})
    BY <2>0, <2>1, <2>3, AtKey, Concluded DEF Traceable
  <2> QED BY <1>a, <1>6, <2>0, <2>2, <2>3 DEF Indexed
<1>7. CASE PollRunning
  <2>0. AtComponent /\ sent' = sent /\ known' = known /\ TurnOf(Key) /\ Turn(Key) /\ step = "poll1" /\ Enter("poll")
    BY <1>7, AtKey DEF PollRunning
  <2>1. Key' = Key /\ ids' = ids /\ step' = "poll" /\ plan' = plan
    BY <2>0 DEF Enter, Key
  <2>2. (NothingAsked(Key))' <=> NothingAsked(Key)
    BY <2>0, <2>1 DEF NothingAsked, Asked
  <2>3. (Given(Key))' = Given(Key) /\ (Deps(plan, Key))' = Deps(plan, Key)
    BY <2>1 DEF Given
  <2>4. (TurnOf(Key))'
    BY <2>0, <2>1, <2>2, <2>3 DEF TurnOf
  <2> QED BY <1>b, <2>0, <2>4
<1>8. CASE PollFailed
  BY <1>a, <1>8 DEF PollFailed
<1>9. CASE PollTimedOut
  <2>1. AtComponent /\ AboutKey /\ sent' = sent /\ known' = known /\ TurnOf(Key) /\ Turn(Key)
    BY <1>9, LearnsAboutKey, AtKey DEF PollTimedOut
  <2>2. known'[Key] = known[Key] /\ known[Key] = {"session"}
    BY <1>9, <2>1 DEF PollTimedOut, TurnOf
  <2> QED BY <1>9, <2>1, <2>2, AtKey, Concluded DEF PollTimedOut, Traceable
<1>10. CASE PollFinished
  <2>0. AtComponent /\ TurnOf(Key) /\ Turn(Key) /\ LifeOf(Key) /\ step \in {"poll1", "poll"}
    BY <1>10, AtKey DEF PollFinished
  <2>1. known[Key] = {"session"} /\ NothingAsked(Key) /\ ~Given(Key)
    BY <2>0 DEF TurnOf
  <2>2. CASE Thrown(Key, known[Key]) /\ UNCHANGED <<known, sent>>
    BY <1>a, <2>0, <2>2
  <2>3. CASE session[Key] = "empty" /\ Conclude(Key, "failed", {}) /\ UNCHANGED <<known, sent>>
    <3>1. AboutKey /\ sent' = sent /\ known'[Key] = {"session"}
      BY <2>0, <2>1, <2>3, LearnsAboutKey
    <3> QED BY <2>0, <2>3, <3>1, AtKey, Concluded DEF Traceable
  <2>4. CASE /\ session[Key] = "finished" /\ Maker(Key) = "persisted" /\ Learn(Key, "id")
             /\ Conclude(Key, "built", {"session", "id"}) /\ UNCHANGED sent
    <3>1. stored[Key] # "none"
      BY <2>0, <2>4 DEF LifeOf
    <3>2. AboutKey /\ sent' = sent /\ known'[Key] = {"session", "id"}
      BY <2>0, <2>1, <2>4, LearnsAboutKey, AtKey DEF Learn, TypeOK
    <3> QED BY <2>0, <2>1, <2>4, <3>1, <3>2, AtKey, Concluded DEF Traceable
  <2>5. CASE Conclude(Key, "pending", known[Key]) /\ UNCHANGED <<known, sent>>
    <3>1. AboutKey /\ sent' = sent /\ known'[Key] = {"session"}
      BY <2>0, <2>1, <2>5, LearnsAboutKey
    <3> QED BY <2>0, <2>1, <2>5, <3>1, AtKey, Concluded DEF Traceable
  <2>6. CASE session[Key] = "finished" /\ Send([kind |-> "create", of |-> Key]) /\ UNCHANGED known
    <3>1. Enter("create") /\ sent' = sent \cup {[kind |-> "create", of |-> Key]}
      BY <2>6 DEF Send
    <3>2. AboutKey
      BY <2>0, <2>6, <3>1, LearnsAboutKey
    <3>3. Key' = Key /\ plan' = plan /\ ids' = ids /\ outcome' = outcome /\ step' = "create"
      BY <3>1, <3>2 DEF Enter, Key, AboutKey
    <3>4. (Given(Key))' = Given(Key) /\ (Maker(Key))' = Maker(Key) /\ (Deps(plan, Key))' = Deps(plan, Key)
      BY <3>3 DEF Given, Maker
    <3>5. \A other \in {"build", "create", "dataset"} : (Asked(other, Key))' <=> other = "create"
      BY <2>1, <3>1, <3>3 DEF NothingAsked, Asked
    <3>6. (LifeOf(Key))'
      BY <2>0, <2>1, <2>6, <3>3, <3>4, <3>5 DEF LifeOf
    <3>7. (TurnOf(Key))'
      BY <2>0, <2>1, <2>6, <3>3, <3>4, <3>5 DEF TurnOf
    <3>8. (Turn(Key))'
      BY <2>0, <3>1, <3>3 DEF Turn, AtComponent, Enter
    <3>9. (EndOf(Key))'
      BY <2>0, <3>3, <3>8, AtKey DEF EndOf
    <3>10. (BasisOf(Key))'
      BY <2>0, <3>3, <3>4 DEF BasisOf, TurnOf
    <3> QED BY <2>0, <3>1, <3>2, <3>6, <3>7, <3>9, <3>10, AtKey, Entered
  <2>7. CASE Learn(Key, "no id") /\ Conclude(Key, "failed", {}) /\ UNCHANGED sent
    <3>1. AboutKey /\ sent' = sent /\ known'[Key] = {"session", "no id"}
      BY <2>0, <2>1, <2>7, LearnsAboutKey, AtKey DEF Learn, TypeOK
    <3> QED BY <2>0, <2>1, <2>7, <3>1, AtKey, Concluded DEF Traceable
  <2> QED BY <1>10, <2>2, <2>3, <2>4, <2>5, <2>6, <2>7 DEF PollFinished
<1>11. CASE BuildOver
  <2>1. ASSUME NEW k \in Keys(plan) PROVE KeyInv(k)'
    <3>1. Same(k) /\ Carried(k) /\ ~Turn(k) /\ ~(Turn(k))'
      <4>1. ~AtComponent /\ pc' = "wire" /\ UNCHANGED <<known, outcome, ids, sent>>
        BY <1>11, PlanFacts DEF BuildOver, AtComponent, TypeOK
      <4> QED BY <4>1 DEF Same, Carried, Turn, AtComponent
    <3> QED BY <3>1, KeyFrame DEF AllKeyInv
  <2> QED BY <2>1 DEF AllKeyInv
<1> QED BY <1>1, <1>2, <1>3, <1>4, <1>5, <1>6, <1>7, <1>8, <1>9, <1>10, <1>11 DEF Build

(* Outside of the build pass nothing is begun and nothing is concluded, but  *)
(* for the report of a run whose time is over.                               *)
LEMMA OtherKeys ==
  ASSUME TypeOK, AllKeyInv, UNCHANGED <<plan, order, session, stored, known, ids>>,
         \/ WirePass \/ InputsRead \/ InputsUnread \/ InputsOver
         \/ ReviewRead \/ ReviewUnread \/ Verdict \/ OutOfTime
  PROVE  AllKeyInv'
<1>1. ASSUME NEW k \in Keys(plan), NEW kind \in {"build", "create", "dataset"}
      PROVE  [kind |-> kind, of |-> k] \in sent' <=> [kind |-> kind, of |-> k] \in sent
  <2>1. CASE sent' = sent
    BY <2>1
  <2>2. CASE sent' = sent \cup {[kind |-> "wire", of |-> pos]}
    <3>1. [kind |-> kind, of |-> k].kind # [kind |-> "wire", of |-> pos].kind
      OBVIOUS
    <3> QED BY <2>2, <3>1
  <2> QED BY <2>1, <2>2 DEF WirePass, WireStart, Preflight, SourceRead, WriteAnswered, WriteFailed, Confirm, WireOver,
                            InputsRead, InputsUnread, InputsOver, ReviewRead, ReviewUnread, Verdict, OutOfTime, Send
<1>2. CASE OutOfTime
  <2>1. Partial(outcome)
    BY <1>2 DEF OutOfTime
  <2>2. ASSUME NEW k \in Keys(plan) PROVE KeyInv(k)'
    <3>1. Carried(k) /\ ~(Turn(k))'
      BY <2>1, PartialFacts
    <3>2. ~Turn(k)
      BY <1>2 DEF OutOfTime, DeadlineChecked, Turn, AtComponent
    <3>3. Same(k)
      BY <1>1 DEF Same
    <3> QED BY <3>1, <3>2, <3>3, KeyFrame DEF AllKeyInv
  <2> QED BY <2>2 DEF AllKeyInv
<1>3. CASE ~OutOfTime
  <2>1. outcome' = outcome /\ pc # "build" /\ pc' # "build"
    BY <1>3 DEF WirePass, WireStart, Preflight, SourceRead, WriteAnswered, WriteFailed, Confirm, WireOver, AtWire,
                InputsRead, InputsUnread, InputsOver, ReviewRead, ReviewUnread, Verdict, AtInput, AtReview, Send, Enter, Settle
  <2>2. ASSUME NEW k \in Keys(plan) PROVE KeyInv(k)'
    <3>1. Same(k) /\ Carried(k) /\ ~Turn(k) /\ ~(Turn(k))'
      BY <1>1, <2>1 DEF Same, Carried, Turn, AtComponent
    <3> QED BY <3>1, KeyFrame DEF AllKeyInv
  <2> QED BY <2>2 DEF AllKeyInv
<1> QED BY <1>2, <1>3

(* What the platform and others do to a component while the run looks on:    *)
(* requests take effect, a generation ends, an artifact may come or go.      *)
Onward(k) ==
  /\ \A kind \in {"build", "create", "dataset"} : (Asked(kind, k))' => Asked(kind, k)
  /\ Asked("build", k) => (Asked("build", k))' \/ session'[k] # "none"
  /\ \A kind \in {"create", "dataset"} : Asked(kind, k) => (Asked(kind, k))' \/ stored'[k] # "none"
  /\ session'[k] # session[k] => Asked("build", k) \/ session[k] = "running"
  /\ session[k] # "none" => session'[k] # "none"
  /\ stored[k] # "none" => stored'[k] # "none"
  /\ stored[k] = "none" /\ stored'[k] # "none" => ~NothingAsked(k) \/ session[k] = "running"

(* None of these breaks what is so of a component.                           *)
LEMMA KeyLookedOn ==
  ASSUME NEW k, KeyInv(k), UNCHANGED <<plan, order, server>>, (LifeOf(k))', Onward(k)
  PROVE  KeyInv(k)'
<1>0. /\ plan' = plan /\ ids' = ids /\ outcome' = outcome /\ known' = known /\ step' = step
      /\ (Given(k))' = Given(k) /\ (Maker(k))' = Maker(k) /\ (Deps(plan, k))' = Deps(plan, k)
      /\ (Turn(k))' = Turn(k)
  BY DEF server, Given, Maker, Turn, AtComponent, Key
<1>1. /\ NothingAsked(k) => (NothingAsked(k))'
      /\ \A kind \in {"build", "create", "dataset"} : (Asked(kind, k))' => ~NothingAsked(k)
  BY DEF Onward, NothingAsked
<1>2. Untouched(k) => (Untouched(k))'
  BY <1>0, <1>1 DEF Untouched, NothingAsked, Onward
<1>3. (TurnOf(k))'
  BY <1>0, <1>1 DEF KeyInv, TurnOf, LifeOf, NothingAsked, Onward
<1>4. (EndOf(k))'
  <2>1. session[k] = "empty" => session'[k] = "empty"
    BY DEF KeyInv, LifeOf, Onward
  <2>2. Traceable(known[k], outcome[k].names, session[k]) => (Traceable(known[k], outcome[k].names, session[k]))'
    BY <1>0, <2>1 DEF Traceable
  <2> QED BY <1>0, <1>1, <1>2, <2>2 DEF KeyInv, EndOf, LifeOf, NothingAsked, Onward
<1>5. (BasisOf(k))'
  <2>1. (Begun(k))' => Begun(k)
    BY <1>0, <1>1 DEF Begun, KeyInv, LifeOf, Asked, NothingAsked, Onward
  <2> QED BY <1>0, <2>1 DEF KeyInv, BasisOf
<1> QED BY <1>3, <1>4, <1>5 DEF KeyInv

(* Requests that take effect, generations that end, edits.                   *)
LEMMA PlatformKeys ==
  ASSUME TypeOK, WiresInv, AllKeyInv, NEW m, NEW g \in AllKeys,
         (m \in Requests /\ TakesEffect(m)) \/ Generates(g) \/ SomeoneEdits(g)
  PROVE  AllKeyInv' /\ \A k \in Keys(plan) : Onward(k)
<1>0. UNCHANGED <<plan, order, server>>
  BY DEF TakesEffect, Generates, SomeoneEdits
<1> SUFFICES ASSUME NEW k \in Keys(plan) PROVE KeyInv(k)' /\ Onward(k)
  BY <1>0 DEF AllKeyInv
<1>1. KeyInv(k) /\ LifeOf(k) /\ k \in AllKeys
  BY PlanFacts DEF AllKeyInv, KeyInv
<1>2. (Given(k))' = Given(k) /\ (Maker(k))' = Maker(k)
  BY <1>0 DEF Given, Maker
<1> SUFFICES (LifeOf(k))' /\ Onward(k)
  BY <1>0, <1>1, KeyLookedOn
<1>3. ASSUME UNCHANGED <<session, stored, content>>, NEW w, sent' = sent \ {[kind |-> "wire", of |-> w]}
      PROVE  (LifeOf(k))' /\ Onward(k)
  <2>1. \A kind \in {"build", "create", "dataset"} : (Asked(kind, k))' <=> Asked(kind, k)
    <3>1. \A kind \in {"build", "create", "dataset"} : [kind |-> kind, of |-> k].kind # [kind |-> "wire", of |-> w].kind
      OBVIOUS
    <3> QED BY <1>3, <3>1 DEF Asked
  <2>2. (NothingAsked(k))' <=> NothingAsked(k)
    BY <2>1 DEF NothingAsked
  <2> QED BY <1>1, <1>2, <1>3, <2>1, <2>2 DEF LifeOf, Onward
<1>4. ASSUME sent' = sent, session'[k] = session[k], stored[k] # "none" => stored'[k] # "none",
             stored[k] = "none" => stored'[k] = "none"
      PROVE  (LifeOf(k))' /\ Onward(k)
  <2>1. (NothingAsked(k))' <=> NothingAsked(k)
    BY <1>4 DEF NothingAsked, Asked
  <2> QED BY <1>1, <1>2, <1>4, <2>1 DEF LifeOf, Onward, Asked
<1>5. ASSUME m \in Requests, TakesEffect(m) PROVE (LifeOf(k))' /\ Onward(k)
  <2>0. m \in sent /\ sent' = sent \ {m}
    BY <1>5 DEF TakesEffect
  <2>1. CASE m.kind = "wire"
    <3>1. m = [kind |-> "wire", of |-> m.of] /\ UNCHANGED <<session, stored, content>>
      BY <1>5, <2>1 DEF TakesEffect, Requests
    <3> QED BY <1>3, <2>0, <3>1
  <2>2. CASE m.kind # "wire"
    <3>1. m = [kind |-> m.kind, of |-> m.of] /\ m.kind \in {"build", "create", "dataset"} /\ m.of \in AllKeys
      BY <1>5, <2>2 DEF Requests
    <3>2. CASE m.of # k
      <4>1. \A kind \in {"build", "create", "dataset"} : (Asked(kind, k))' <=> Asked(kind, k)
        <5>1. \A kind \in {"build", "create", "dataset"} : [kind |-> kind, of |-> k].of # m.of
          BY <3>2
        <5> QED BY <2>0, <5>1 DEF Asked
      <4>2. (NothingAsked(k))' <=> NothingAsked(k)
        BY <4>1 DEF NothingAsked
      <4>3. session'[k] = session[k] /\ stored'[k] = stored[k]
        BY <1>1, <1>5, <2>2, <3>1, <3>2 DEF TakesEffect, Store, TypeOK
      <4> QED BY <1>1, <1>2, <4>1, <4>2, <4>3 DEF LifeOf, Onward
    <3>3. CASE m.of = k
      <4>1. Asked(m.kind, k) /\ \A kind \in {"build", "create", "dataset"} :
                                  (Asked(kind, k))' <=> Asked(kind, k) /\ kind # m.kind
        BY <2>0, <3>1, <3>3 DEF Asked
      <4>2. CASE m.kind = "build"
        <5>1. session'[k] = "running" /\ stored'[k] = stored[k]
          BY <1>1, <1>5, <3>3, <4>2 DEF TakesEffect, TypeOK
        <5> QED BY <1>1, <1>2, <4>1, <4>2, <5>1 DEF LifeOf, Onward, NothingAsked
      <4>3. CASE m.kind # "build"
        <5>1. session'[k] = session[k] /\ stored'[k] = "stored"
          BY <1>1, <1>5, <3>1, <3>3, <4>3 DEF TakesEffect, TypeOK, Store
        <5> QED BY <1>1, <1>2, <3>1, <4>1, <4>3, <5>1 DEF LifeOf, Onward, NothingAsked
      <4> QED BY <4>2, <4>3
    <3> QED BY <3>2, <3>3
  <2> QED BY <2>1, <2>2
<1>6. ASSUME Generates(g) PROVE (LifeOf(k))' /\ Onward(k)
  <2>0. sent' = sent
    BY <1>6 DEF Generates
  <2>1. CASE g # k
    BY <1>1, <1>4, <1>6, <2>0, <2>1 DEF Generates, Store, TypeOK
  <2>2. CASE g = k
    <3>1. PICK e \in {"finished", "empty", "failed"} :
            /\ session[k] = "running" /\ session'[k] = e
            /\ stored'[k] = IF e = "finished" /\ Maker(k) = "persisted" THEN "stored" ELSE stored[k]
      BY <1>1, <1>6, <2>2 DEF Generates, Store, TypeOK
    <3>2. \A kind : (Asked(kind, k))' <=> Asked(kind, k)
      BY <2>0 DEF Asked
    <3>3. (NothingAsked(k))' <=> NothingAsked(k)
      BY <3>2 DEF NothingAsked
    <3> QED BY <1>1, <1>2, <3>1, <3>2, <3>3 DEF LifeOf, Onward
  <2> QED BY <2>1, <2>2
<1>7. ASSUME SomeoneEdits(g) PROVE (LifeOf(k))' /\ Onward(k)
  <2>1. sent' = sent /\ session' = session
    BY <1>7 DEF SomeoneEdits
  <2>2. stored'[k] = stored[k] \/ (stored[k] = "stored" /\ stored'[k] = "gone")
    BY <1>1, <1>7 DEF SomeoneEdits, TypeOK
  <2> QED BY <1>4, <2>1, <2>2
<1> QED BY <1>5, <1>6, <1>7

(* No step breaks the invariant of a component.                              *)
LEMMA KeyStep ==
  ASSUME TypeOK, OrderInv, PassInv, AllKeyInv, WiresInv, [Next]_vars
  PROVE  AllKeyInv'
<1> USE DEF server, platform
<1>1. CASE Orchestrate
  <2>1. UNCHANGED <<plan, order, session, stored>>
    BY <1>1 DEF Orchestrate
  <2>2. CASE Build
    BY <2>1, <2>2, BuildKeys
  <2>3. CASE ~Build
    <3>1. \/ WirePass \/ InputsRead \/ InputsUnread \/ InputsOver
          \/ ReviewRead \/ ReviewUnread \/ Verdict \/ OutOfTime
      BY <1>1, <2>3 DEF Orchestrate
    <3>2. UNCHANGED <<known, ids>>
      BY <3>1 DEF WirePass, WireStart, Preflight, SourceRead, WriteAnswered, WriteFailed, Confirm, WireOver,
                  InputsRead, InputsUnread, InputsOver, ReviewRead, ReviewUnread, Verdict, OutOfTime, Send, Enter, Settle
    <3> QED BY <2>1, <3>1, <3>2, OtherKeys
  <2> QED BY <2>2, <2>3
<1>2. ASSUME NEW m \in Requests, TakesEffect(m) PROVE AllKeyInv'
  <2>1. CASE AllKeys = {}
    <3>1. plan' = plan /\ Keys(plan) = {}
      BY <1>2, <2>1, PlanFacts DEF TakesEffect
    <3> QED BY <3>1 DEF AllKeyInv
  <2>2. ASSUME NEW g \in AllKeys PROVE AllKeyInv'
    BY <1>2, <2>2, PlatformKeys
  <2> QED BY <2>1, <2>2
<1>3. ASSUME NEW g \in AllKeys, Generates(g) \/ SomeoneEdits(g) PROVE AllKeyInv'
  BY <1>3, PlatformKeys
<1>4. CASE ComponentExpires \/ OperationExpires \/ UNCHANGED vars
  <2>1. UNCHANGED <<plan, order, server, session, stored, sent>>
    BY <1>4 DEF ComponentExpires, OperationExpires, vars
  <2>2. ASSUME NEW k \in Keys(plan) PROVE KeyInv(k)'
    <3>1. (NothingAsked(k))' <=> NothingAsked(k)
      BY <2>1 DEF NothingAsked, Asked
    <3>2. KeyInv(k) /\ (Given(k))' = Given(k) /\ (Maker(k))' = Maker(k)
      BY <2>1 DEF AllKeyInv, Given, Maker
    <3>3. (LifeOf(k))' /\ Onward(k)
      BY <2>1, <3>1, <3>2 DEF KeyInv, LifeOf, Onward, Asked
    <3> QED BY <2>1, <3>2, <3>3, KeyLookedOn
  <2> QED BY <2>1, <2>2 DEF AllKeyInv
<1> QED BY <1>1, <1>2, <1>3, <1>4 DEF Next

-----------------------------------------------------------------------------
(* The passes, the wires and the review.                                     *)

(* Whatever is no step of the run leaves what the run keeps.                 *)
LEMMA RunOrWatch ==
  ASSUME [Next]_vars
  PROVE  /\ UNCHANGED <<plan, order>>
         /\ Orchestrate \/ UNCHANGED server
<1>1. CASE Orchestrate
  BY <1>1 DEF Orchestrate
<1>2. CASE ~Orchestrate
  BY <1>2 DEF Next, TakesEffect, Generates, SomeoneEdits, ComponentExpires, OperationExpires, vars, server
<1> QED BY <1>1, <1>2

(* A run that has reported does nothing more.                                *)
LEMMA DoneIsOver ==
  ASSUME Orchestrate
  PROVE  pc # "done"
BY DEF Orchestrate, Build, Adopt, Skip, StartBuild, BuildAnswered, BuildCallFailed, Indexed,
       PollRunning, PollFailed, PollTimedOut, PollFinished, BuildOver, AtComponent,
       WirePass, WireStart, Preflight, SourceRead, WriteAnswered, WriteFailed, Confirm, WireOver, AtWire,
       InputsRead, InputsUnread, InputsOver, AtInput, ReviewRead, ReviewUnread, Verdict, AtReview,
       OutOfTime, DeadlineChecked

(* Components are concluded in their order.                                  *)
LEMMA PassStep ==
  ASSUME TypeOK, OrderInv, PassInv, AllKeyInv, [Next]_vars
  PROVE  OrderInv' /\ PassInv'
<1>0. UNCHANGED <<plan, order>> /\ DOMAIN order = 1..Len(order) /\ Len(order) \in Nat /\ pos \in Nat \ {0}
  BY RunOrWatch, PlanFacts DEF TypeOK
<1>1. CASE UNCHANGED server
  BY <1>0, <1>1 DEF OrderInv, PassInv, server
<1>2. CASE Orchestrate
  <2>0. pc # "done" /\ order \in Orders(Keys(plan)) /\ Keys(plan) \subseteq ToSet(order)
    BY <1>2, DoneIsOver DEF OrderInv
  <2>1. OrderInv'
    BY <1>0, <2>0 DEF OrderInv
  <2>2. ASSUME NEW state, NEW names, state # "none", AtComponent, Conclude(Key, state, names)
        PROVE  PassInv'
    <3>1. CASE state = "pending"
      BY <2>2, <3>1 DEF Conclude, Partial, PassInv
    <3>2. CASE state # "pending"
      <4>1. /\ pc' = "build" /\ pos' = pos + 1 /\ status' = status
            /\ outcome' = [outcome EXCEPT ![Key] = [state |-> state, names |-> names]]
        BY <2>2, <3>2 DEF Conclude, AtComponent
      <4>2. Key \in AllKeys /\ Key = order[pos] /\ pos \in 1..Len(order)
        BY <1>0, <2>2, AtKey DEF Key, AtComponent
      <4>3. \A j \in AllKeys : outcome'[j].state = IF j = Key THEN state ELSE outcome[j].state
        BY <4>1, <4>2 DEF TypeOK
      <4>4. ASSUME NEW n \in DOMAIN order PROVE n < pos + 1 <=> outcome'[order[n]].state # "none"
        <5>1. order[n] \in AllKeys
          BY <1>0, PlanFacts
        <5>2. order[n] = Key <=> n = pos
          BY <1>0, <2>0, <4>2 DEF Orders
        <5>3. n < pos <=> outcome[order[n]].state # "none"
          BY <2>2 DEF PassInv, AtComponent
        <5> QED BY <1>0, <2>2, <4>3, <5>1, <5>2, <5>3
      <4>5. \A j \in Keys(plan) : outcome'[j].state # "pending"
        BY <2>2, <3>2, <4>3, PlanFacts DEF PassInv, AtComponent
      <4> QED BY <1>0, <2>2, <4>1, <4>4, <4>5 DEF PassInv, AtComponent
    <3> QED BY <3>1, <3>2
  <2>3. ASSUME NEW t, AtComponent, Enter(t) PROVE PassInv'
    BY <1>0, <2>3 DEF PassInv, AtComponent, Enter
  <2>4. CASE Build
    <3>1. CASE BuildOver
      <4>1. ASSUME NEW k \in Keys(plan) PROVE outcome'[k].state # "none"
        <5>1. PICK n \in DOMAIN order : order[n] = k
          BY <2>0 DEF ToSet
        <5> QED BY <1>0, <3>1, <5>1 DEF BuildOver, PassInv
      <4>2. pc = "build" /\ pc' = "wire" /\ UNCHANGED <<outcome, status>>
        BY <3>1 DEF BuildOver
      <4> QED BY <1>0, <2>1, <4>1, <4>2 DEF PassInv
    <3>2. CASE ~BuildOver
      <4>1. AtComponent
        BY <2>4, <3>2 DEF Build, Adopt, Skip, StartBuild, BuildAnswered, BuildCallFailed, Indexed,
                          PollRunning, PollFailed, PollTimedOut, PollFinished
      <4>2. \/ \E state, names : state # "none" /\ Conclude(Key, state, names)
            \/ \E t : Enter(t)
        BY <2>4, <3>2 DEF Build, Adopt, Skip, StartBuild, BuildAnswered, BuildCallFailed, Indexed,
                          PollRunning, PollFailed, PollTimedOut, PollFinished, Thrown, Send
      <4>3. CASE \E t : Enter(t)
        BY <2>1, <2>3, <4>1, <4>3
      <4>4. CASE \E state, names : state # "none" /\ Conclude(Key, state, names)
        <5>1. PICK state, names : state # "none" /\ Conclude(Key, state, names)
          BY <4>4
        <5> QED BY <2>1, <2>2, <4>1, <5>1
      <4> QED BY <4>2, <4>3, <4>4
    <3> QED BY <3>1, <3>2
  <2>5. CASE OutOfTime
    <3>1. pc' = "done"
      BY <2>5 DEF OutOfTime, Partial
    <3> QED BY <2>1, <3>1 DEF PassInv
  <2>6. CASE ~Build /\ ~OutOfTime
    <3>1. /\ UNCHANGED outcome /\ pc # "build"
          /\ \/ pc' \in {"wire", "inputs", "review"} /\ pc' # "build" /\ status' = status
             \/ pc' = "done"
      BY <1>2, <2>6 DEF Orchestrate,
                WirePass, WireStart, Preflight, SourceRead, WriteAnswered, WriteFailed, Confirm, WireOver, AtWire,
                InputsRead, InputsUnread, InputsOver, AtInput, ReviewRead, ReviewUnread, Verdict, AtReview, Send, Enter, Settle
    <3>2. pc \in {"wire", "inputs", "review"}
      BY <2>0, <3>1 DEF TypeOK
    <3>3. CASE pc' = "done"
      BY <2>1, <3>3 DEF PassInv
    <3>4. CASE pc' # "done"
      BY <1>0, <2>0, <2>1, <3>1, <3>2, <3>4 DEF PassInv
    <3> QED BY <3>3, <3>4
  <2> QED BY <2>1, <2>4, <2>5, <2>6
<1> QED BY <1>1, <1>2, RunOrWatch

(* A wire write that may still take effect was given up as failed.           *)
LEMMA WiresStep ==
  ASSUME TypeOK, WiresInv, OrderInv, PassInv, AllKeyInv, [Next]_vars
  PROVE  WiresInv'
<1>0. UNCHANGED <<plan, order>> /\ pos \in Nat \ {0} /\ Wires(plan) = 1..Len(plan.wiring) /\ Len(plan.wiring) \in Nat
  BY RunOrWatch, PlanFacts DEF TypeOK
<1>1. CASE ~Orchestrate
  <2>1. UNCHANGED server /\ sent' \subseteq sent
    BY <1>1 DEF Next, TakesEffect, Generates, SomeoneEdits, ComponentExpires, OperationExpires, vars, server
  <2> QED BY <1>0, <2>1 DEF WiresInv, Asked, AtWire, server
<1>2. CASE Orchestrate /\ Build
  <2>1. \A w \in Wires(plan) : ~Asked("wire", w)
    BY <1>2 DEF WiresInv, Build, Adopt, Skip, StartBuild, BuildAnswered, BuildCallFailed, Indexed,
                PollRunning, PollFailed, PollTimedOut, PollFinished, BuildOver, AtComponent
  <2>2. sent' = sent \/ (AtComponent /\ \E kind \in {"build", "create", "dataset"} :
                                          sent' = sent \cup {[kind |-> kind, of |-> Key]})
    BY <1>2 DEF Build, Adopt, Skip, StartBuild, BuildAnswered, BuildCallFailed, Indexed,
                PollRunning, PollFailed, PollTimedOut, PollFinished, BuildOver, Send
  <2>3. CASE sent' = sent
    BY <1>0, <2>1, <2>3 DEF WiresInv, Asked
  <2>4. ASSUME AtComponent, NEW kind \in {"build", "create", "dataset"}, sent' = sent \cup {[kind |-> kind, of |-> Key]}
        PROVE  WiresInv'
    <3>1. Key \in Keys(plan)
      BY <2>4, AtKey
    <3>2. \A w \in Wires(plan) : [kind |-> "wire", of |-> w] # [kind |-> kind, of |-> Key]
      BY <2>4
    <3>3. \A w \in Wires(plan) : ~(Asked("wire", w))'
      BY <1>0, <2>1, <2>4, <3>2 DEF Asked
    <3>4. \A m \in sent' : m.of \in (IF m.kind = "wire" THEN Wires(plan) ELSE Keys(plan))
      BY <2>4, <3>1 DEF WiresInv
    <3> QED BY <1>0, <3>3, <3>4 DEF WiresInv
  <2> QED BY <2>2, <2>3, <2>4
<1>3. CASE Orchestrate /\ WirePass
  <2>0. pc = "wire"
    BY <1>3 DEF WirePass, WireStart, Preflight, SourceRead, WriteAnswered, WriteFailed, Confirm, WireOver, AtWire
  <2>1. ASSUME AtWire, sent' = sent, NEW state, Settle(state), ~Asked("wire", pos) \/ state = "failed" PROVE WiresInv'
    <3>1. wired' = [wired EXCEPT ![pos] = state] /\ pos' = pos + 1 /\ pc' = pc
      BY <2>1 DEF Settle
    <3>2. ASSUME NEW w \in Wires(plan), Asked("wire", w) PROVE wired'[w] = "failed" /\ w < pos'
      <4>1. CASE w = pos
        <5>1. wired'[w] = state
          BY <3>1, <4>1, PlanFacts DEF TypeOK
        <5> QED BY <1>0, <2>1, <3>1, <3>2, <4>1, <5>1
      <4>2. CASE w # pos
        BY <1>0, <2>0, <2>1, <3>1, <3>2, <4>2, PlanFacts DEF WiresInv, TypeOK
      <4> QED BY <4>1, <4>2
    <3> QED BY <1>0, <2>0, <2>1, <3>1, <3>2 DEF WiresInv, Asked
  <2>2. ASSUME AtWire, sent' = sent, NEW t, Enter(t), ~Asked("wire", pos) PROVE WiresInv'
    BY <1>0, <2>0, <2>2 DEF WiresInv, Asked, Enter
  <2>3. ASSUME AtWire, Send([kind |-> "wire", of |-> pos]) PROVE WiresInv'
    <3>1. sent' = sent \cup {[kind |-> "wire", of |-> pos]} /\ Enter("wire")
      BY <2>3 DEF Send
    <3>2. pos \in Wires(plan)
      BY <1>0, <2>3 DEF AtWire
    <3>3. \A w \in Wires(plan) : (Asked("wire", w))' => Asked("wire", w) \/ w = pos
      BY <1>0, <3>1 DEF Asked
    <3>4. \A m \in sent' : m.of \in (IF m.kind = "wire" THEN Wires(plan) ELSE Keys(plan))
      BY <3>1, <3>2 DEF WiresInv
    <3> QED BY <1>0, <2>0, <2>3, <3>1, <3>3, <3>4 DEF WiresInv, Enter, AtWire
  <2>4. AtWire => step = "wire" \/ ~Asked("wire", pos)
    BY <1>0, <2>0 DEF WiresInv, AtWire
  <2>5. CASE WireStart
    <3>1. AtWire /\ ~Asked("wire", pos) /\ sent' = sent /\ ((\E state : Settle(state)) \/ (\E t : Enter(t)))
      BY <2>4, <2>5 DEF WireStart
    <3> QED BY <2>1, <2>2, <3>1
  <2>6. CASE Preflight
    <3>1. AtWire /\ ~Asked("wire", pos) /\ sent' = sent /\ ((\E state : Settle(state)) \/ (\E t : Enter(t)))
      BY <2>4, <2>6 DEF Preflight
    <3> QED BY <2>1, <2>2, <3>1
  <2>7. CASE SourceRead
    <3>1. AtWire /\ ~Asked("wire", pos) /\ ((sent' = sent /\ \E state : Settle(state)) \/ Send([kind |-> "wire", of |-> pos]))
      BY <2>4, <2>7 DEF SourceRead
    <3> QED BY <2>1, <2>3, <3>1
  <2>8. CASE WriteAnswered
    <3>1. AtWire /\ ~Asked("wire", pos) /\ sent' = sent /\ Enter("confirm")
      BY <2>8 DEF WriteAnswered, Asked
    <3> QED BY <2>2, <3>1
  <2>9. CASE WriteFailed
    BY <2>1, <2>9 DEF WriteFailed
  <2>10. CASE Confirm
    <3>1. AtWire /\ ~Asked("wire", pos) /\ sent' = sent /\ \E state : Settle(state)
      BY <2>4, <2>10 DEF Confirm
    <3> QED BY <2>1, <3>1
  <2>11. CASE WireOver
    BY <1>0, <2>11 DEF WireOver, WiresInv, Asked, AtWire
  <2> QED BY <1>3, <2>5, <2>6, <2>7, <2>8, <2>9, <2>10, <2>11 DEF WirePass
<1>4. CASE Orchestrate /\ ~Build /\ ~WirePass
  <2>1. /\ sent' = sent /\ wired' = wired
        /\ \/ pc \in {"inputs", "review"} /\ pc' \in {"inputs", "review", "done"}
           \/ step = "next" /\ pc' = "done"
    BY <1>4 DEF Orchestrate, InputsRead, InputsUnread, InputsOver, AtInput, ReviewRead, ReviewUnread, Verdict, AtReview,
                OutOfTime, DeadlineChecked, Partial
  <2> QED BY <1>0, <2>1 DEF WiresInv, Asked, AtWire
<1> QED BY <1>1, <1>2, <1>3, <1>4

(* Before its review a run knows nothing of it, and only a verdict ends it.  *)
LEMMA ReviewSteps ==
  ASSUME TypeOK, PassInv, Orchestrate
  PROVE  \/ ReviewRead \/ ReviewUnread \/ Verdict \/ InputsOver
         \/ review' = review /\ pc' = "done" /\ status' = "PARTIAL"
         \/ review' = review /\ status' = "none" /\ pc \in {"build", "wire", "inputs"} /\ pc' \in {"build", "wire", "inputs"}
<1>1. status = "none"
  BY DoneIsOver DEF PassInv
<1>2. ASSUME NEW state, NEW names, AtComponent, Conclude(Key, state, names)
      PROVE  \/ review' = review /\ pc' = "done" /\ status' = "PARTIAL"
             \/ review' = review /\ status' = status /\ pc = "build" /\ pc' = "build"
  BY <1>2 DEF Conclude, Partial, AtComponent
<1>3. ASSUME Build PROVE \/ review' = review /\ pc' = "done" /\ status' = "PARTIAL"
                         \/ review' = review /\ status' = status /\ pc = "build" /\ pc' \in {"build", "wire"}
  <2>1. CASE BuildOver
    BY <2>1 DEF BuildOver
  <2>2. CASE ~BuildOver
    <3>1. /\ AtComponent
          /\ \/ \E state, names : Conclude(Key, state, names)
             \/ \E t : Enter(t)
      BY <1>3, <2>2 DEF Build, Adopt, Skip, StartBuild, BuildAnswered, BuildCallFailed, Indexed,
                        PollRunning, PollFailed, PollTimedOut, PollFinished, Thrown, Send
    <3>2. CASE \E t : Enter(t)
      BY <3>1, <3>2 DEF Enter, AtComponent
    <3>3. CASE \E state, names : Conclude(Key, state, names)
      BY <1>2, <3>1, <3>3
    <3> QED BY <3>1, <3>2, <3>3
  <2> QED BY <2>1, <2>2
<1>4. ASSUME WirePass PROVE review' = review /\ status' = status /\ pc = "wire" /\ pc' \in {"wire", "inputs"}
  BY <1>4 DEF WirePass, WireStart, Preflight, SourceRead, WriteAnswered, WriteFailed, Confirm, WireOver, AtWire,
              Send, Enter, Settle
<1>5. ASSUME InputsRead \/ InputsUnread PROVE review' = review /\ status' = status /\ pc = "inputs" /\ pc' = "inputs"
  BY <1>5 DEF InputsRead, InputsUnread, AtInput
<1>6. ASSUME OutOfTime PROVE review' = review /\ pc' = "done" /\ status' = "PARTIAL"
  BY <1>6 DEF OutOfTime, Partial
<1> QED BY <1>1, <1>3, <1>4, <1>5, <1>6 DEF Orchestrate

(* An adopted or built component that the review read is what it was then,   *)
(* unless somebody changed it, and so are its links, when no wire failed.    *)
LEMMA ReadIsStill ==
  ASSUME TypeOK, PassInv, AllKeyInv, WiresInv, ReviewInv, ReadyInv, [Next]_vars, ~Orchestrate,
         pc = "review" \/ status = "READY"
  PROVE  /\ drift \subseteq drift'
         /\ \A k \in review.read \ drift' : outcome[k].state \in {"adopted", "built"} =>
              stored'[k] = stored[k] /\ content'[k] = content[k]
         /\ ~WireFailed => \A w \in review.links : Wire(w).from \notin drift' /\ w \in linked => w \in linked'
<1>0. /\ review.read \subseteq Keys(plan) /\ review.read \subseteq AllKeys /\ review.read \subseteq Verifiable
      /\ \A w \in review.links : Wire(w).from \in review.read
  BY PlanFacts DEF TypeOK, Verifiable, ReviewInv
<1>1. ASSUME NEW k \in review.read, outcome[k].state \in {"adopted", "built"}
      PROVE  NothingAsked(k) /\ session[k] # "running"
  BY <1>0, <1>1 DEF AllKeyInv, KeyInv, EndOf, LifeOf
<1>2. ASSUME NEW m \in Requests, TakesEffect(m)
      PROVE  /\ drift' = drift
             /\ \A k \in review.read : outcome[k].state \in {"adopted", "built"} =>
                  stored'[k] = stored[k] /\ content'[k] = content[k]
             /\ ~WireFailed => linked' = linked
  <2>1. drift' = drift /\ m \in sent
    BY <1>2 DEF TakesEffect
  <2>2. CASE m.kind = "wire"
    <3>1. stored' = stored /\ content' = content
      BY <1>2, <2>2 DEF TakesEffect
    <3>2. m = [kind |-> "wire", of |-> m.of] /\ m.of \in Wires(plan)
      BY <2>1, <2>2 DEF Requests, WiresInv
    <3>3. wired[m.of] = "failed"
      BY <2>1, <3>2 DEF WiresInv, Asked, AtWire, ReadyInv
    <3>4. WireFailed
      BY <3>2, <3>3 DEF WireFailed
    <3> QED BY <2>1, <3>1, <3>4
  <2>3. CASE m.kind = "build"
    BY <1>2, <2>1, <2>3 DEF TakesEffect
  <2>4. CASE m.kind \in {"create", "dataset"}
    <3>1. Store(m.of) /\ linked' = linked
      BY <1>2, <2>4 DEF TakesEffect
    <3>2. m = [kind |-> m.kind, of |-> m.of]
      BY <2>4 DEF Requests
    <3>3. ASSUME NEW k \in review.read, outcome[k].state \in {"adopted", "built"} PROVE k # m.of
      BY <1>1, <2>1, <2>4, <3>2, <3>3 DEF NothingAsked, Asked
    <3>4. ASSUME NEW k \in review.read, k # m.of PROVE stored'[k] = stored[k] /\ content'[k] = content[k]
      BY <1>0, <3>1, <3>4 DEF Store, TypeOK
    <3> QED BY <2>1, <3>1, <3>3, <3>4
  <2> QED BY <1>2, <2>2, <2>3, <2>4 DEF TakesEffect
<1>3. ASSUME NEW g \in AllKeys, Generates(g)
      PROVE  /\ drift' = drift /\ linked' = linked
             /\ \A k \in review.read : outcome[k].state \in {"adopted", "built"} =>
                  stored'[k] = stored[k] /\ content'[k] = content[k]
  <2>1. ASSUME NEW k \in review.read, k # g PROVE stored'[k] = stored[k] /\ content'[k] = content[k]
    BY <1>0, <1>3, <2>1 DEF Generates, Store, TypeOK
  <2>2. session[g] = "running" /\ drift' = drift /\ linked' = linked
    BY <1>3 DEF Generates
  <2> QED BY <1>1, <2>1, <2>2
<1>4. ASSUME NEW g \in AllKeys, SomeoneEdits(g)
      PROVE  /\ drift \subseteq drift'
             /\ \A k \in review.read \ drift' : stored'[k] = stored[k] /\ content'[k] = content[k]
             /\ \A w \in review.links : Wire(w).from \notin drift' /\ w \in linked => w \in linked'
  <2>1. drift \subseteq drift' /\ (g \in review.read => g \in drift')
    BY <1>0, <1>4 DEF SomeoneEdits
  <2>2. ASSUME NEW k \in review.read, k # g PROVE stored'[k] = stored[k] /\ content'[k] = content[k]
    BY <1>0, <1>4, <2>2 DEF SomeoneEdits, TypeOK
  <2>3. \A w \in linked : Wire(w).from # g => w \in linked'
    BY <1>4 DEF SomeoneEdits, LinksOf
  <2> QED BY <1>0, <2>1, <2>2, <2>3
<1>5. CASE ComponentExpires \/ OperationExpires \/ UNCHANGED vars
  BY <1>5 DEF ComponentExpires, OperationExpires, vars, platform
<1> QED BY <1>2, <1>3, <1>4, <1>5 DEF Next

(* What was read stays as it was read, but for what others change.           *)
LEMMA ReviewStep ==
  ASSUME TypeOK, OrderInv, PassInv, AllKeyInv, WiresInv, ReviewInv, ReadyInv, [Next]_vars
  PROVE  ReviewInv'
<1>0. UNCHANGED <<plan, order>>
  BY RunOrWatch
<1>1. CASE ~Orchestrate
  <2>1. UNCHANGED <<pc, pos, outcome, wired, review, status>>
    BY <1>1, RunOrWatch DEF server
  <2>2. WireFailed' = WireFailed /\ Verifiable' = Verifiable /\ \A w : (Wire(w))' = Wire(w)
    BY <1>0, <2>1 DEF WireFailed, Verifiable, Wire
  <2>3. \A n \in DOMAIN order : (Named(order[n]))' <=> Named(order[n])
    BY <1>0, <2>1 DEF Named
  <2>4. pc = "review" \/ status = "READY" =>
          /\ \A k \in review.read \ drift' : outcome[k].state \in {"adopted", "built"} =>
               /\ stored'[k] = "stored"
               /\ content'[k] = "stub" => k \in review.stubs
               /\ content'[k] = "thin" => k \in review.thin
          /\ ~WireFailed => \A w \in review.links : Wire(w).from \notin drift' => w \in linked'
    BY <1>1, ReadIsStill DEF ReviewInv
  <2> QED BY <1>0, <2>1, <2>2, <2>3, <2>4 DEF ReviewInv
<1>2. CASE Orchestrate
  <2>0. UNCHANGED <<stored, content, linked, drift>> /\ \A w : (Wire(w))' = Wire(w)
    BY <1>0, <1>2 DEF Orchestrate, platform, Wire
  <2>1. CASE ReviewRead
    <3>0. /\ pc = "review" /\ pc' = "review" /\ pos' = pos + 1 /\ pos \in Nat /\ DOMAIN order \subseteq Nat
          /\ UNCHANGED <<outcome, wired, status>> /\ Key = order[pos]
      BY <2>1, PlanFacts DEF ReviewRead, AtReview, TypeOK, Key
    <3>1. (WireFailed)' = WireFailed
      BY <1>0, <3>0 DEF WireFailed
    <3>2. \A k : (Named(k))' <=> Named(k)
      BY <3>0 DEF Named
    <3>3. CASE review' = review /\ ~Named(Key)
      <4>1. \A n \in DOMAIN order : n < pos + 1 /\ Named(order[n]) => order[n] \in Verifiable
        BY <3>0, <3>3 DEF ReviewInv
      <4> QED BY <1>0, <2>0, <3>0, <3>1, <3>2, <3>3, <4>1 DEF ReviewInv, Verifiable
    <3>4. CASE review' = [review EXCEPT !.gone = @ \cup {Key}]
      <4>1. /\ review'.read = review.read /\ review'.links = review.links /\ review'.stubs = review.stubs
            /\ review'.thin = review.thin /\ review'.gone = review.gone \cup {Key}
        BY <3>4 DEF TypeOK
      <4>2. \A n \in DOMAIN order : n < pos + 1 /\ Named(order[n]) => order[n] \in (Verifiable)'
        BY <3>0, <4>1 DEF ReviewInv, Verifiable
      <4> QED BY <1>0, <2>0, <3>0, <3>1, <3>2, <4>1, <4>2 DEF ReviewInv
    <3>5. CASE Reads(Key) /\ review' = [review EXCEPT !.read = @ \cup {Key},
                                        !.links = @ \cup LinksOf(Key),
                                        !.stubs = IF content[Key] = "stub" THEN @ \cup {Key} ELSE @,
                                        !.thin  = IF content[Key] = "thin" THEN @ \cup {Key} ELSE @]
      <4>1. /\ review'.read = review.read \cup {Key} /\ review'.links = review.links \cup LinksOf(Key)
            /\ review'.gone = review.gone
            /\ review'.stubs = IF content[Key] = "stub" THEN review.stubs \cup {Key} ELSE review.stubs
            /\ review'.thin = IF content[Key] = "thin" THEN review.thin \cup {Key} ELSE review.thin
        BY <3>5 DEF TypeOK
      <4>2. \A n \in DOMAIN order : n < pos + 1 /\ Named(order[n]) => order[n] \in (Verifiable)'
        BY <3>0, <4>1 DEF ReviewInv, Verifiable
      <4>3. \A w \in LinksOf(Key) : Wire(w).from = Key /\ w \in linked
        BY DEF LinksOf
      <4>4. ASSUME NEW k \in review'.read \ drift, outcome[k].state \in {"adopted", "built"}
            PROVE  /\ stored[k] = "stored"
                   /\ content[k] = "stub" => k \in review'.stubs
                   /\ content[k] = "thin" => k \in review'.thin
        <5>1. CASE k = Key
          BY <3>5, <4>1, <5>1 DEF Reads
        <5>2. CASE k # Key
          BY <3>0, <4>1, <4>4, <5>2 DEF ReviewInv
        <5> QED BY <5>1, <5>2
      <4>5. ~WireFailed => \A w \in review'.links : Wire(w).from \notin drift => w \in linked
        BY <3>0, <4>1, <4>3 DEF ReviewInv
      <4>6. \A w \in review'.links : Wire(w).from \in review'.read
        BY <4>1, <4>3 DEF ReviewInv
      <4> QED BY <1>0, <2>0, <3>0, <3>1, <3>2, <4>2, <4>4, <4>5, <4>6 DEF ReviewInv
    <3> QED BY <2>1, <3>3, <3>4, <3>5 DEF ReviewRead
  <2>2. CASE ReviewUnread
    <3>0. /\ pc = "review" /\ pc' = "review" /\ pos' = pos + 1 /\ pos \in Nat /\ DOMAIN order \subseteq Nat
          /\ UNCHANGED <<outcome, wired, status>> /\ Key = order[pos]
      BY <2>2, PlanFacts DEF ReviewUnread, AtReview, TypeOK, Key
    <3>1. /\ review'.read = review.read /\ review'.links = review.links /\ review'.stubs = review.stubs
          /\ review'.thin = review.thin /\ review'.gone = review.gone \cup {Key}
      BY <2>2 DEF ReviewUnread, TypeOK
    <3>2. (WireFailed)' = WireFailed /\ \A k : (Named(k))' <=> Named(k)
      BY <1>0, <3>0 DEF WireFailed, Named
    <3>3. \A n \in DOMAIN order : n < pos + 1 /\ Named(order[n]) => order[n] \in (Verifiable)'
      BY <3>0, <3>1 DEF ReviewInv, Verifiable
    <3> QED BY <1>0, <2>0, <3>0, <3>1, <3>2, <3>3 DEF ReviewInv
  <2>3. CASE Verdict
    <3>1. pc = "review" /\ pc' = "done" /\ UNCHANGED <<outcome, wired, review>>
      BY <2>3 DEF Verdict
    <3>2. (WireFailed)' = WireFailed
      BY <1>0, <3>1 DEF WireFailed
    <3> QED BY <2>0, <3>1, <3>2 DEF ReviewInv
  <2>4. CASE InputsOver
    <3>1. review' = NoReview /\ pc' = "review" /\ pos' = 1 /\ DOMAIN order \subseteq Nat \ {0}
      BY <2>4, PlanFacts DEF InputsOver, ReviewInv
    <3>2. review'.read = {} /\ review'.links = {}
      BY <3>1 DEF NoReview
    <3> QED BY <1>0, <3>1, <3>2 DEF ReviewInv
  <2>5. CASE review' = review /\ pc' = "done" /\ status' = "PARTIAL"
    BY <2>0, <2>5 DEF ReviewInv
  <2>6. CASE review' = review /\ status' = "none" /\ pc \in {"build", "wire", "inputs"} /\ pc' \in {"build", "wire", "inputs"}
    BY <2>0, <2>6 DEF ReviewInv
  <2> QED BY <1>2, <2>1, <2>2, <2>3, <2>4, <2>5, <2>6, ReviewSteps
<1> QED BY <1>1, <1>2

(* READY is said on what the review read.                                    *)
LEMMA ReadyStep ==
  ASSUME TypeOK, OrderInv, PassInv, AllKeyInv, ReviewInv, ReadyInv, [Next]_vars
  PROVE  ReadyInv'
<1>0. UNCHANGED <<plan, order>>
  BY RunOrWatch
<1>1. CASE UNCHANGED server
  BY <1>0, <1>1 DEF ReadyInv, WireFailed, Wire, server
<1>2. CASE Orchestrate
  <2>1. CASE ~Verdict
    <3>1. status' # "READY"
      <4>1. status = "none"
        BY <1>2, DoneIsOver DEF PassInv
      <4> QED BY <1>2, <2>1, <4>1, ReviewSteps DEF ReviewRead, ReviewUnread, InputsOver
    <3> QED BY <3>1 DEF ReadyInv
  <2>2. CASE Verdict /\ status' = "READY"
    <3>1. /\ pc = "review" /\ pos > Len(order) /\ pc' = "done" /\ ~BuildFailed /\ ~WireFailed /\ ~VerifyFailed
          /\ UNCHANGED <<outcome, wired, review>>
      BY <2>2 DEF Verdict
    <3>2. ASSUME NEW k \in Keys(plan) PROVE outcome[k].state \in {"adopted", "built"}
      <4>1. outcome[k].state \in {"none", "adopted", "built", "failed", "skipped", "pending"}
        BY PlanFacts DEF TypeOK
      <4> QED BY <3>1, <4>1 DEF PassInv, BuildFailed
    <3>3. ASSUME NEW k \in Keys(plan) PROVE Named(k) /\ HasId(k)
      BY <3>2 DEF AllKeyInv, KeyInv, EndOf, Named, HasId
    <3>4. ASSUME NEW k \in Keys(plan) PROVE k \in Verifiable
      <4>1. Keys(plan) \subseteq ToSet(order)
        BY <3>1 DEF OrderInv
      <4>2. PICK n \in DOMAIN order : order[n] = k
        BY <4>1 DEF ToSet
      <4>3. n < pos
        BY <3>1, PlanFacts DEF TypeOK
      <4> QED BY <3>1, <3>3, <4>2, <4>3 DEF ReviewInv
    <3>5. CASE Keys(plan) = {}
      <4>1. review.stubs = {} /\ review.thin = {}
        BY <3>5 DEF TypeOK
      <4> QED BY <1>0, <3>1, <3>5, <4>1 DEF ReadyInv, WireFailed, Wire
    <3>6. CASE Keys(plan) # {}
      <4>1. VerificationOk
        BY <3>1, <3>4, <3>6 DEF VerifyFailed
      <4>2. review.gone = {} /\ review.stubs = {} /\ review.thin = {}
        BY <4>1 DEF VerificationOk
      <4>3. \A k \in Keys(plan) : k \in review.read
        BY <3>4, <4>2 DEF Verifiable
      <4>4. ASSUME NEW w \in Wires(plan), Wire(w).from \in Keys(plan), Wire(w).external = "no" PROVE w \in review.links
        <5>1. WirePasses(w)
          BY <3>3, <4>1, <4>4 DEF VerificationOk, ReviewWires
        <5> QED BY <4>2, <4>4, <5>1 DEF WirePasses
      <4> QED BY <1>0, <3>1, <3>2, <4>2, <4>3, <4>4 DEF ReadyInv, WireFailed, Wire
    <3> QED BY <3>5, <3>6
  <2>3. CASE Verdict /\ status' # "READY"
    BY <2>3 DEF ReadyInv
  <2> QED BY <2>1, <2>2, <2>3
<1> QED BY <1>1, <1>2, RunOrWatch

-----------------------------------------------------------------------------
(* What holds of every run.                                                  *)

(* The invariant holds when a run starts, also of a plan that is refused.    *)
LEMMA InitInv == Init => Inv
<1> SUFFICES ASSUME Init PROVE Inv
  OBVIOUS
<1> DEFINE keys == KeyList(plan)
<1>1. keys \in Seq(Keys(plan)) /\ ToSet(keys) = Keys(plan)
  <2>1. plan.components \in Seq(ToSet(plan.components))
    BY PlansAssumption DEF Init
  <2>2. DOMAIN keys = 1..Len(plan.components) /\ Len(plan.components) \in Nat
    BY <2>1 DEF KeyList
  <2>3. \A n \in DOMAIN keys : keys[n] \in Keys(plan)
    BY DEF KeyList, Keys
  <2>4. keys \in Seq(Keys(plan))
    <3>1. keys = [n \in 1..Len(plan.components) |-> keys[n]]
      BY <2>2 DEF KeyList
    <3> HIDE DEF keys
    <3> QED BY <2>2, <2>3, <3>1
  <2>5. ToSet(keys) = Keys(plan)
    BY DEF ToSet, KeyList, Keys
  <2> QED BY <2>4, <2>5
<1>2. order \in Orders(Keys(plan))
  BY <1>1, OrderKeeps DEF Init
<1>3. Keys(plan) \subseteq AllKeys /\ Wires(plan) \subseteq AllWires
  BY DEF Init, AllKeys, AllWires
<1>4. /\ stored \in [AllKeys -> {"none", "stored", "gone"}]
      /\ content \in [AllKeys -> {"good"} \cup Defects[plan]]
      /\ \A k \in Keys(plan) : Given(k) <=> stored[k] # "none"
  <2>1. PICK adopted \in [{k \in Keys(plan) : Given(k)} -> {"gone", "good"} \cup Defects[plan]] :
          /\ stored = [k \in AllKeys |-> IF k \notin DOMAIN adopted THEN "none"
                                        ELSE IF adopted[k] = "gone" THEN "gone" ELSE "stored"]
          /\ content = [k \in AllKeys |-> IF stored[k] = "stored" THEN adopted[k] ELSE "good"]
    BY DEF Init
  <2>2. \A k \in AllKeys : stored[k] = IF k \notin DOMAIN adopted THEN "none"
                                      ELSE IF adopted[k] = "gone" THEN "gone" ELSE "stored"
    BY <2>1
  <2>3. ASSUME NEW k \in AllKeys, stored[k] = "stored" PROVE adopted[k] \in {"good"} \cup Defects[plan]
    BY <2>1, <2>2, <2>3
  <2>4. DOMAIN adopted = {k \in Keys(plan) : Given(k)}
    BY <2>1
  <2> QED BY <1>3, <2>1, <2>2, <2>3, <2>4
<1>5. TypeOK
  <2>1. order \in Seq(Keys(plan))
    BY <1>2 DEF Orders
  <2>2. edits \in 0..MaxEdits[plan]
    BY EditsAssumption DEF Init
  <2>3. linked \subseteq Wires(plan) /\ pc \in {"build", "done"} /\ status \in {"none", "BROKEN"}
    BY DEF Init
  <2>4. review \in [read : SUBSET Keys(plan), gone : SUBSET Keys(plan), links : SUBSET Wires(plan),
                   stubs : SUBSET Keys(plan), thin : SUBSET Keys(plan)]
    BY DEF Init, NoReview
  <2>5. /\ known \in [AllKeys -> SUBSET Told]
        /\ outcome \in [AllKeys -> [state : {"none", "adopted", "built", "failed", "skipped", "pending"},
                                    names : SUBSET {"session", "id"}]]
        /\ session \in [AllKeys -> {"none", "running", "finished", "empty", "failed"}]
    BY DEF Init
  <2>6. wired \in [AllWires -> {"none", "connected", "external", "needs-backend",
                               "target-missing", "failed", "write-not-reflected"}]
    BY DEF Init
  <2>7. plan \in Plans /\ step = "next" /\ pos = 1 /\ late = {} /\ ids = {} /\ inputs = {} /\ sent = {} /\ drift = {}
    BY DEF Init
  <2> QED BY <1>4, <2>1, <2>2, <2>3, <2>4, <2>5, <2>6, <2>7 DEF TypeOK
<1>6. \A k \in Keys(plan) : outcome[k].state = "none" /\ known[k] = {} /\ session[k] = "none"
  BY <1>3 DEF Init
<1>7. OrderInv
  <2>1. CASE Unplaced(order, keys) = {}
    <3>1. ASSUME NEW k \in Keys(plan) PROVE k \in ToSet(order)
      <4>1. Contains(order, k)
        BY <1>1, <2>1 DEF Unplaced
      <4> QED BY <1>5, <4>1, PlanFacts DEF Contains, ToSet
    <3> QED BY <1>2, <3>1 DEF OrderInv
  <2>2. CASE Unplaced(order, keys) # {}
    BY <1>2, <1>6, <2>2 DEF Init, OrderInv
  <2> QED BY <2>1, <2>2
<1>8. PassInv
  <2>1. ASSUME NEW n \in DOMAIN order PROVE ~(n < 1) /\ outcome[order[n]].state = "none"
    BY <1>5, <1>6, PlanFacts
  <2> QED BY <1>6, <2>1 DEF Init, PassInv
<1>9. AllKeyInv
  <2>1. ASSUME NEW k \in Keys(plan) PROVE KeyInv(k)
    <3>1. NothingAsked(k) /\ ids = {} /\ ~Turn(k)
      BY DEF NothingAsked, Asked, Turn, Init
    <3>2. Untouched(k)
      BY <1>4, <1>6, <3>1 DEF Untouched
    <3>3. ~Begun(k)
      BY <1>4, <1>6, <3>1 DEF Begun, NothingAsked, Asked
    <3> QED BY <1>4, <1>6, <3>1, <3>2, <3>3 DEF KeyInv, LifeOf, TurnOf, EndOf, BasisOf, NothingAsked
  <2> QED BY <2>1 DEF AllKeyInv
<1>10. WiresInv
  BY DEF Init, WiresInv, Asked
<1>11. ReviewInv
  <2>1. review.read = {} /\ review.links = {} /\ pc # "review"
    BY DEF Init, NoReview
  <2> QED BY <2>1 DEF ReviewInv, Init
<1>12. ReadyInv
  BY DEF Init, ReadyInv
<1> QED BY <1>5, <1>7, <1>8, <1>9, <1>10, <1>11, <1>12 DEF Inv

(* Every step keeps it.                                                      *)
LEMMA NextInv == Inv /\ [Next]_vars => Inv'
BY TypeStep, KeyStep, PassStep, WiresStep, ReviewStep, ReadyStep DEF Inv

(* So it always holds.                                                       *)
LEMMA AlwaysInv == Spec => []Inv
BY InitInv, NextInv, PTL DEF Spec

(* Every state of a run is well typed.                                       *)
THEOREM RunIsTyped == Spec => []TypeOK
<1>1. Inv => TypeOK
  BY DEF Inv
<1> QED BY <1>1, AlwaysInv, PTL

(* For every plan and whatever is lost or late: nothing is built on a        *)
(* component that failed or was skipped.                                     *)
THEOREM NothingStandsOnAFailure == Spec => []NothingOnAFailure
<1>1. Inv => NothingOnAFailure
  <2> SUFFICES ASSUME Inv, NEW k \in Keys(plan), Begun(k), NEW d \in Deps(plan, k)
               PROVE  outcome[d].state \in {"adopted", "built"} /\ stored[d] # "none"
    BY DEF NothingOnAFailure
  <2>1. d \in ids /\ d \in Keys(plan)
    BY DEF Inv, AllKeyInv, KeyInv, BasisOf, Deps
  <2> QED BY <2>1 DEF Inv, AllKeyInv, KeyInv, EndOf, LifeOf
<1> QED BY <1>1, AlwaysInv, PTL

(* For every plan, and wherever the run is cut off: what it may have left    *)
(* behind on the platform can be found from its report, but for what it was  *)
(* never told of and for what a finished build stored without giving its id. *)
THEOREM WhatIsLeftIsNamed == Spec => []LeftBehindIsNamed
<1>1. Inv => LeftBehindIsNamed
  <2> SUFFICES ASSUME Inv, pc = "done", NEW k \in Keys(plan)
               PROVE  /\ outcome[k].state = "skipped" => ~Begun(k)
                      /\ outcome[k].state = "built" => "id" \in outcome[k].names /\ stored[k] # "none"
                      /\ known[k] # {} /\ "no id" \notin known[k] /\ (stored[k] # "none" \/ session[k] = "running")
                           => known[k] \cap outcome[k].names # {}
                      /\ "id" \in known[k] => "id" \in outcome[k].names
    BY DEF LeftBehindIsNamed
  <2>1. EndOf(k) /\ LifeOf(k) /\ ~Turn(k)
    BY DEF Inv, AllKeyInv, KeyInv, Turn, AtComponent
  <2>2. outcome[k].state = "skipped" => ~Begun(k)
    BY <2>1 DEF EndOf, Untouched, Begun, NothingAsked, Asked
  <2> QED BY <2>1, <2>2 DEF EndOf, LifeOf, Untouched, Traceable
<1> QED BY <1>1, AlwaysInv, PTL

(* For every plan and every interleaving with other users: READY is said of  *)
(* a solution that is there, wired, and not short of anything the review     *)
(* looks for, as it was when it was read.  A placeholder outside of what the *)
(* review scans is not among it.                                             *)
THEOREM ReadyMeansLive == Spec => []ReadyIsLive
<1>1. Inv => ReadyIsLive
  <2> SUFFICES ASSUME Inv, status = "READY", NEW k \in Keys(plan) \ drift
               PROVE  /\ outcome[k].state \in {"adopted", "built"}
                      /\ stored[k] = "stored" /\ content[k] \notin {"stub", "thin"}
                      /\ \A w \in Wires(plan) : Wire(w).from = k /\ Wire(w).external = "no" => w \in linked
    BY DEF ReadyIsLive
  <2>1. /\ ~WireFailed /\ review.stubs = {} /\ review.thin = {}
        /\ outcome[k].state \in {"adopted", "built"} /\ k \in review.read
        /\ \A w \in Wires(plan) : Wire(w).from = k /\ Wire(w).external = "no" => w \in review.links
    BY DEF Inv, ReadyInv
  <2> QED BY <2>1 DEF Inv, ReviewInv
<1> QED BY <1>1, AlwaysInv, PTL

-----------------------------------------------------------------------------
(* The run implements the promise of DependencyBuild.                        *)

Needs  == [k \in Keys(plan) |-> Deps(plan, k)]
Giving == {k \in Keys(plan) : Given(k)}
Works  == {k \in Keys(plan) : Begun(k)}

(* What has begun stays begun while the run looks on.                        *)
LEMMA WorksWatched ==
  ASSUME Inv, [Next]_vars, ~Orchestrate
  PROVE  Works' = Works
<1>0. /\ TypeOK /\ AllKeyInv /\ WiresInv
      /\ UNCHANGED plan /\ \A k : (Given(k))' = Given(k)
  BY RunOrWatch DEF Given, Inv
<1>1. ASSUME NEW k \in Keys(plan), Onward(k) PROVE (Begun(k))' <=> Begun(k)
  <2>1. LifeOf(k)
    BY <1>0 DEF AllKeyInv, KeyInv
  <2> QED BY <1>0, <1>1, <2>1 DEF Begun, LifeOf, Asked, NothingAsked, Onward
<1>2. ASSUME \A k \in Keys(plan) : Onward(k) PROVE Works' = Works
  BY <1>0, <1>1, <1>2 DEF Works
<1>3. ASSUME NEW m \in Requests, TakesEffect(m) PROVE Works' = Works
  <2>1. CASE AllKeys = {}
    BY <1>0, <2>1, PlanFacts DEF Works
  <2>2. ASSUME NEW g \in AllKeys PROVE Works' = Works
    BY <1>0, <1>2, <1>3, PlatformKeys
  <2> QED BY <2>1, <2>2
<1>4. ASSUME NEW g \in AllKeys, Generates(g) \/ SomeoneEdits(g) PROVE Works' = Works
  BY <1>0, <1>2, <1>4, PlatformKeys
<1>5. CASE ComponentExpires \/ OperationExpires \/ UNCHANGED vars
  <2>1. UNCHANGED <<session, stored, sent>>
    BY <1>5 DEF ComponentExpires, OperationExpires, vars, platform
  <2> QED BY <1>0, <2>1 DEF Works, Begun
<1> QED BY <1>3, <1>4, <1>5 DEF Next

(* What the run asks for begins nothing unless it starts a component.        *)
LEMMA WorksKept ==
  ASSUME TypeOK, UNCHANGED <<plan, session, stored>>, NEW kind, NEW of,
         sent' = sent \/ (kind \in {"create", "wire"} /\ sent' = sent \cup {[kind |-> kind, of |-> of]})
  PROVE  Works' = Works
<1>1. ASSUME NEW k \in Keys(plan), NEW other \in {"build", "dataset"}
      PROVE  [kind |-> other, of |-> k] \in sent' <=> [kind |-> other, of |-> k] \in sent
  <2>1. kind \in {"create", "wire"} => [kind |-> other, of |-> k] # [kind |-> kind, of |-> of]
    OBVIOUS
  <2> QED BY <2>1
<1>2. ASSUME NEW k \in Keys(plan) PROVE (Begun(k))' <=> Begun(k)
  BY <1>1 DEF Begun, Given
<1> QED BY <1>2 DEF Works

(* One step of the run starts a component, or makes one referable, or does   *)
(* neither.                                                                  *)
LEMMA BuildPromise ==
  ASSUME Inv, Build, UNCHANGED <<plan, order, session, stored>>
  PROVE  \/ ids' = ids /\ Works' = Works
         \/ /\ ids' = ids /\ Key \in Keys(plan) \ (Works \cup Giving) /\ Deps(plan, Key) \subseteq ids
            /\ Works' = Works \cup {Key}
         \/ Key \in (Works \cup Giving) \ ids /\ ids' = ids \cup {Key} /\ Works' = Works
<1>0. TypeOK /\ OrderInv /\ PassInv /\ AllKeyInv
  BY DEF Inv
<1>1. CASE BuildOver
  BY <1>0, <1>1, WorksKept DEF BuildOver
<1>2. CASE ~BuildOver
  <2>0. AtComponent
    BY <1>2 DEF Build, Adopt, Skip, StartBuild, BuildAnswered, BuildCallFailed, Indexed,
                PollRunning, PollFailed, PollTimedOut, PollFinished
  <2>1. Key \in Keys(plan) /\ Key \notin ids
    BY <1>0, <2>0, AtKey
  <2>2. ASSUME NEW state, NEW names, Conclude(Key, state, names), state \in {"adopted", "built"} => Key \in Works \cup Giving
        PROVE  ids' = ids \/ (Key \in (Works \cup Giving) \ ids /\ ids' = ids \cup {Key})
    BY <2>1, <2>2 DEF Conclude
  <2>3. CASE Adopt
    <3>1. Key \in Giving /\ Conclude(Key, "adopted", {"id"}) /\ sent' = sent
      BY <2>1, <2>3 DEF Adopt, Giving
    <3> QED BY <1>0, <2>2, <3>1, WorksKept
  <2>4. CASE Skip
    <3>1. Conclude(Key, "skipped", {}) /\ sent' = sent
      BY <2>4 DEF Skip
    <3> QED BY <1>0, <2>2, <3>1, WorksKept
  <2>5. CASE StartBuild
    <3>1. CASE Conclude(Key, "failed", {}) /\ UNCHANGED sent
      BY <1>0, <2>2, <3>1, WorksKept
    <3>2. ASSUME NEW kind \in {"build", "dataset"}, Send([kind |-> kind, of |-> Key])
          PROVE  /\ ids' = ids /\ Key \in Keys(plan) \ (Works \cup Giving) /\ Deps(plan, Key) \subseteq ids
                 /\ Works' = Works \cup {Key}
      <4>1. ids' = ids /\ sent' = sent \cup {[kind |-> kind, of |-> Key]}
        BY <3>2 DEF Send, Enter
      <4>2. Untouched(Key) /\ ~Given(Key) /\ step = "next"
        BY <1>0, <2>0, <2>5, AtKey DEF StartBuild
      <4>3. Key \notin Works \cup Giving
        BY <4>2 DEF Works, Giving, Begun, Untouched, NothingAsked, Asked
      <4>4. Deps(plan, Key) \subseteq ids
        BY <2>5 DEF StartBuild, Unmet, Deps, Wire
      <4>5. ASSUME NEW k \in Keys(plan) PROVE (Begun(k))' <=> Begun(k) \/ k = Key
        <5>1. \A other \in {"build", "dataset"} :
                [kind |-> other, of |-> k] \in sent' <=> [kind |-> other, of |-> k] \in sent \/ (other = kind /\ k = Key)
          <6>1. \A other : [kind |-> other, of |-> k] = [kind |-> kind, of |-> Key] <=> other = kind /\ k = Key
            OBVIOUS
          <6> QED BY <4>1, <6>1
        <5> QED BY <3>2, <5>1 DEF Begun, Given
      <4>6. Works' = Works \cup {Key}
        BY <2>1, <4>5 DEF Works
      <4> QED BY <2>1, <4>1, <4>3, <4>4, <4>6
    <3> QED BY <2>5, <3>1, <3>2 DEF StartBuild
  <2>6. CASE BuildAnswered
    <3>1. sent' = sent /\ ((\E t : Enter(t)) \/ (step = "create" /\ Conclude(Key, "built", {"session", "id"})))
      BY <2>6 DEF BuildAnswered
    <3>2. step = "create" => Key \in Works
      BY <1>0, <2>0, <2>1, AtKey DEF TurnOf, Works, Begun
    <3>3. Works' = Works
      BY <1>0, <3>1, WorksKept
    <3>4. CASE \E t : Enter(t)
      BY <3>3, <3>4 DEF Enter
    <3>5. CASE step = "create" /\ Conclude(Key, "built", {"session", "id"})
      BY <2>2, <3>2, <3>3, <3>5
    <3> QED BY <3>1, <3>4, <3>5
  <2>7. CASE Indexed
    <3>1. sent' = sent /\ \E state, names : Conclude(Key, state, names)
      BY <2>7 DEF Indexed, Thrown
    <3>2. Key \in Works
      BY <1>0, <2>0, <2>1, <2>7, AtKey DEF Indexed, TurnOf, Works, Begun
    <3> QED BY <1>0, <2>2, <3>1, <3>2, WorksKept
  <2>8. CASE PollFinished
    <3>1. Key \in Works
      BY <1>0, <2>0, <2>1, <2>8, AtKey DEF PollFinished, TurnOf, Works, Begun
    <3>2. CASE Send([kind |-> "create", of |-> Key])
      BY <1>0, <3>2, WorksKept DEF Send, Enter
    <3>3. CASE sent' = sent /\ \E state, names : Conclude(Key, state, names)
      BY <1>0, <2>2, <3>1, <3>3, WorksKept
    <3> QED BY <2>8, <3>2, <3>3 DEF PollFinished, Thrown
  <2>9. CASE PollRunning
    BY <1>0, <2>9, WorksKept DEF PollRunning, Enter
  <2>10. CASE BuildCallFailed \/ PollFailed \/ PollTimedOut
    <3>1. sent' = sent /\ \E state \in {"pending", "failed"} : \E names : Conclude(Key, state, names)
      BY <2>10 DEF BuildCallFailed, PollFailed, PollTimedOut, Thrown
    <3> QED BY <1>0, <2>2, <3>1, WorksKept
  <2> QED BY <1>2, <2>3, <2>4, <2>5, <2>6, <2>7, <2>8, <2>9, <2>10 DEF Build
<1> QED BY <1>1, <1>2

(* The build pass keeps its promise: every run of the model is one of        *)
(* DependencyBuild, so work on a component begins at most once, and only     *)
(* when all it depends on can be referred to.                                *)
THEOREM RunKeepsThePromise == Spec => DependenciesFirst
<1>1. Inv => Keys(plan) \subseteq AllKeys /\ Needs \in [Keys(plan) -> SUBSET Keys(plan)]
  BY PlanFacts DEF Inv, Needs, Deps
<1>2. Init => Promise!Init
  <2> SUFFICES ASSUME Init PROVE Promise!Init
    OBVIOUS
  <2>1. Inv
    BY InitInv
  <2>2. Works = {}
    <3>1. ASSUME NEW k \in Keys(plan) PROVE ~Begun(k)
      <4>1. Untouched(k)
        <5>1. k \in AllKeys
          BY <2>1, PlanFacts DEF Inv
        <5>2. outcome[k].state = "none" /\ ~Turn(k)
          BY <5>1 DEF Init, Turn
        <5> QED BY <2>1, <5>2 DEF Inv, AllKeyInv, KeyInv, EndOf
      <4> QED BY <4>1 DEF Untouched, Begun, NothingAsked, Asked
    <3> QED BY <3>1 DEF Works
  <2>3. ids = {}
    BY DEF Init
  <2> QED BY <1>1, <2>1, <2>2, <2>3 DEF Promise!Init, Needs, Giving, Works
<1>3. Inv /\ [Next]_vars => [Promise!Next]_(Promise!vars)
  <2> SUFFICES ASSUME Inv, [Next]_vars PROVE [Promise!Next]_(Promise!vars)
    OBVIOUS
  <2>0. UNCHANGED <<plan, order>> /\ Needs' = Needs /\ Giving' = Giving
    BY RunOrWatch DEF Needs, Giving, Given
  <2>1. CASE Works' = Works /\ ids' = ids
    BY <2>0, <2>1 DEF Promise!vars, Needs, Giving, Works
  <2>2. CASE ~Orchestrate
    BY <2>1, <2>2, WorksWatched, RunOrWatch DEF server
  <2>3. CASE Orchestrate
    <3>1. UNCHANGED <<plan, order, session, stored>>
      BY <2>3 DEF Orchestrate, platform
    <3>2. CASE ~Build
      <4>1. sent' = sent \/ sent' = sent \cup {[kind |-> "wire", of |-> pos]}
        BY <2>3, <3>2 DEF Orchestrate, WirePass, WireStart, Preflight, SourceRead, WriteAnswered, WriteFailed, Confirm,
              WireOver, InputsRead, InputsUnread, InputsOver, ReviewRead, ReviewUnread, Verdict, OutOfTime, Send
      <4>2. ids' = ids
        BY <2>3, <3>2 DEF Orchestrate, WirePass, WireStart, Preflight, SourceRead, WriteAnswered, WriteFailed, Confirm,
              WireOver, InputsRead, InputsUnread, InputsOver, ReviewRead, ReviewUnread, Verdict, OutOfTime, Send, Enter, Settle
      <4> QED BY <2>1, <3>1, <4>1, <4>2, WorksKept DEF Inv
    <3>3. CASE Build
      <4>1. CASE /\ ids' = ids /\ Key \in Keys(plan) \ (Works \cup Giving) /\ Deps(plan, Key) \subseteq ids
                 /\ Works' = Works \cup {Key}
        <5>1. Promise!Begin(Key)
          BY <2>0, <4>1 DEF Promise!Begin, Needs, Giving, Works
        <5> QED BY <1>1, <4>1, <5>1 DEF Promise!Next
      <4>2. CASE Key \in (Works \cup Giving) \ ids /\ ids' = ids \cup {Key} /\ Works' = Works
        <5>1. Promise!Provide(Key)
          BY <2>0, <4>2 DEF Promise!Provide, Needs, Giving, Works
        <5>2. Key \in AllKeys
          BY <1>1, <4>2 DEF Works, Giving
        <5> QED BY <5>1, <5>2 DEF Promise!Next
      <4> QED BY <2>1, <3>1, <3>3, <4>1, <4>2, BuildPromise
    <3> QED BY <3>2, <3>3
  <2> QED BY <2>2, <2>3
<1> QED BY <1>2, <1>3, AlwaysInv, PTL DEF Spec, DependenciesFirst, Promise!Spec

=============================================================================
