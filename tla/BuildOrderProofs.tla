-------------------------- MODULE BuildOrderProofs --------------------------
(***************************************************************************)
(* For every key list and every dependency relation: the order never       *)
(* repeats a key, never places a component before one it depends on, and   *)
(* leaves out exactly the components that hang on a cycle.                 *)
(***************************************************************************)
EXTENDS BuildOrder, Integers, FiniteSetTheorems, SequenceTheorems, WellFoundedInduction, TLAPS

-----------------------------------------------------------------------------
(* Recursion over 0..N: a least number, N steps that stay in a set, and      *)
(* functions that go on alike.                                               *)

(* A set of natural numbers has a least one.                                *)
LEMMA LeastOf ==
  ASSUME NEW T, T \subseteq Nat, T # {}
  PROVE  \E n \in T : \A m \in T : n <= m
<1> DEFINE R == {p \in Nat \X Nat : p[1] < p[2]}
<1>1. IsWellFoundedOn(R, Nat)
  <2>1. IsWellFoundedOn(OpToRel(<, Nat), Nat)
    BY NatLessThanWellFounded, Zenon
  <2>2. OpToRel(<, Nat) = R
    BY Zenon DEF OpToRel
  <2> QED BY <2>1, <2>2
<1>2. PICK n \in T : \A m \in T : ~(<<m, n>> \in R)
  <2> HIDE DEF R
  <2> QED BY <1>1, WFMin, Zenon
<1>3. ASSUME NEW m \in T, m < n PROVE <<m, n>> \in R
  <2>1. <<m, n>> \in Nat \X Nat /\ <<m, n>>[1] = m /\ <<m, n>>[2] = n
    OBVIOUS
  <2> QED BY <1>3, <2>1
<1>4. \A m \in T : ~(m < n)
  <2> HIDE DEF R
  <2> QED BY <1>2, <1>3, Zenon
<1> QED BY <1>4

(* N steps inside S, and what they make of a.                                *)
Steps(S, N) == [1..N -> [S -> S]]

Traces(S, a, N, do) ==
  {f \in [0..N -> S] : f[0] = a /\ \A n \in 1..N : f[n] = do[n][f[n - 1]]}

(* Steps have a result, and it stays where every step stays.                 *)
LEMMA Repeated ==
  ASSUME NEW S, NEW a \in S, NEW N \in Nat, NEW do \in Steps(S, N)
  PROVE  \E f : f \in Traces(S, a, N, do)
<1> USE DEF Steps, Traces
<1> DEFINE Upto(n, f) == f \in [0..n -> S] /\ f[0] = a /\ \A m \in 1..n : f[m] = do[m][f[m - 1]]
           Bad == {n \in 0..N : ~ \E f : Upto(n, f)}
<1>1. Bad = {}
  <2> SUFFICES ASSUME Bad # {} PROVE FALSE
    OBVIOUS
  <2>1. PICK n \in Bad : \A m \in Bad : n <= m
    <3>1. Bad \subseteq Nat
      OBVIOUS
    <3> HIDE DEF Bad
    <3> QED BY <3>1, LeastOf
  <2>2. n # 0
    <3>1. Upto(0, [m \in 0..0 |-> a])
      OBVIOUS
    <3> QED BY <3>1
  <2>3. n - 1 \in 0..N /\ n - 1 \notin Bad
    <3>1. n \in 0..N
      OBVIOUS
    <3> HIDE DEF Bad
    <3> QED BY <2>1, <2>2, <3>1
  <2>4. PICK f : Upto(n - 1, f)
    BY <2>3
  <2> DEFINE g == [m \in 0..n |-> IF m = n THEN do[n][f[n - 1]] ELSE f[m]]
  <2>5. n \in 1..N /\ f[n - 1] \in S /\ do[n] \in [S -> S]
    BY <2>2, <2>3, <2>4
  <2>6. g \in [0..n -> S]
    BY <2>4, <2>5
  <2>7. g[0] = a
    BY <2>4, <2>5
  <2>8. ASSUME NEW m \in 1..n PROVE g[m] = do[m][g[m - 1]]
    BY <2>4, <2>5
  <2> QED BY <2>1, <2>6, <2>7, <2>8
<1>2. \E f : Upto(N, f)
  <2>1. N \in 0..N
    OBVIOUS
  <2> HIDE DEF Upto
  <2> QED BY <1>1, <2>1
<1> QED BY <1>2

(* Two functions that start alike and go on alike are alike.                 *)
GoAlike(N, f, g) == f[0] = g[0] /\ \A n \in 1..N : f[n - 1] = g[n - 1] => f[n] = g[n]
Alike(N, f, g)   == \A n \in 0..N : f[n] = g[n]

LEMMA StayAlike ==
  ASSUME NEW N \in Nat, NEW f, NEW g, GoAlike(N, f, g)
  PROVE  Alike(N, f, g)
<1> USE DEF GoAlike, Alike
<1> DEFINE Bad == {n \in 0..N : g[n] # f[n]}
<1> SUFFICES ASSUME Bad # {} PROVE FALSE
  OBVIOUS
<1>1. PICK n \in Bad : \A m \in Bad : n <= m
  <2>1. Bad \subseteq Nat
    OBVIOUS
  <2> HIDE DEF Bad
  <2> QED BY <2>1, LeastOf
<1>2. n \in 1..N
  OBVIOUS
<1>3. n - 1 \in 0..N /\ n - 1 \notin Bad
  BY <1>1, <1>2
<1> QED BY <1>2, <1>3

-----------------------------------------------------------------------------
(* A key is in a sequence when it stands at one of its positions. *)
LEMMA ContainsPosition ==
  ASSUME NEW S, NEW s \in Seq(S), NEW k, Contains(s, k)
  PROVE  \E m \in 1..Len(s) : s[m] = k
  BY DEF Contains

(* TypeOK: every state of the sort is well typed; in particular a pass never *)
(* looks beyond the keys of the plan (src/src/orchestrator.ts,               *)
(* orderComponents).                                                         *)
THEOREM SortIsTyped == Spec => []TypeOK
<1>1. Init => TypeOK
  <2> SUFFICES ASSUME Init PROVE TypeOK
    OBVIOUS
  <2>1. keys \in KeyLists /\ keys \in Seq(Key)
    BY KeyListsAssumption DEF Init
  <2>2. ToSet(keys) \subseteq Key
    BY <2>1 DEF ToSet
  <2>3. deps \in [Key -> SUBSET Key]
    BY <2>2 DEF Init
  <2> QED BY <2>1, <2>3 DEF Init, TypeOK
<1>2. TypeOK /\ [Next]_vars => TypeOK'
  <2> SUFFICES ASSUME TypeOK, [Next]_vars PROVE TypeOK'
    OBVIOUS
  <2>0. keys \in Seq(Key)
    BY KeyListsAssumption DEF TypeOK
  <2>1. CASE Place
    <3>1. keys[at] \in Key
      BY <2>0, <2>1 DEF TypeOK, Place
    <3>2. order' \in Seq(Key)
      BY <2>1, <3>1 DEF TypeOK, Place
    <3> QED BY <2>0, <2>1, <3>2 DEF TypeOK, Place
  <2>2. CASE Pending
    BY <2>0, <2>2 DEF TypeOK, Pending
  <2>3. CASE NextPass
    BY <2>0, <2>3 DEF TypeOK, NextPass
  <2>4. CASE Return
    BY <2>4 DEF TypeOK, Return
  <2>5. CASE UNCHANGED vars
    BY <2>5 DEF TypeOK, vars
  <2> QED BY <2>1, <2>2, <2>3, <2>4, <2>5 DEF Next
<1> QED BY <1>1, <1>2, PTL DEF Spec

(* For every plan: whenever a component stands in the order, everything its  *)
(* blocking wires lead to stands before it, and it stands there only once,   *)
(* so the build loop never meets a component ahead of its dependencies.      *)
THEOREM OrderRespectsDeps == Spec => []DepsPrecede
<1>1. Init => DepsPrecede
  BY DEF Init, DepsPrecede
<1>2. TypeOK /\ DepsPrecede /\ [Next]_vars => DepsPrecede'
  <2> SUFFICES ASSUME TypeOK, DepsPrecede, [Next]_vars PROVE DepsPrecede'
    OBVIOUS
  <2>1. CASE Place
    <3> DEFINE k == keys[at]
    <3>1. order \in Seq(Key) /\ k \in Key
      BY <2>1, KeyListsAssumption DEF TypeOK, Place
    <3>2. order' = Append(order, k) /\ deps' = deps
      BY <2>1 DEF Place
    <3>3. /\ Len(order') = Len(order) + 1
          /\ \A n \in 1..Len(order) : order'[n] = order[n]
          /\ order'[Len(order) + 1] = k
          /\ DOMAIN order' = 1..(Len(order) + 1)
      BY <3>1, <3>2
    <3>4. \A m \in 1..Len(order) : order[m] # k
      BY <2>1, <3>1 DEF Place, Contains
    <3>5. \A d \in deps[k] : \E m \in 1..Len(order) : order[m] = d
      BY <2>1, <3>1, ContainsPosition DEF Place, Ready
    <3> HIDE DEF k
    <3>6. ASSUME NEW n \in DOMAIN order'
          PROVE  /\ \A m \in 1..(n - 1) : order'[m] # order'[n]
                 /\ \A d \in deps'[order'[n]] : \E m \in 1..(n - 1) : order'[m] = d
      <4>1. CASE n \in 1..Len(order)
        <5>1. \A m \in 1..(n - 1) : order'[m] = order[m]
          BY <3>1, <3>3, <4>1
        <5>2. order'[n] = order[n] /\ n \in DOMAIN order
          BY <3>1, <3>3, <4>1
        <5> QED BY <3>2, <5>1, <5>2 DEF DepsPrecede
      <4>2. CASE n = Len(order) + 1
        BY <3>1, <3>2, <3>3, <3>4, <3>5, <4>2
      <4> QED BY <3>1, <3>3, <4>1, <4>2
    <3> QED BY <3>6 DEF DepsPrecede
  <2>2. CASE Pending \/ NextPass \/ Return \/ UNCHANGED vars
    BY <2>2 DEF DepsPrecede, Pending, NextPass, Return, vars
  <2> QED BY <2>1, <2>2 DEF Next
<1>3. Spec => []TypeOK
  BY SortIsTyped
<1> QED BY <1>1, <1>2, <1>3, PTL DEF Spec

-----------------------------------------------------------------------------
(* The passes, as SolutionPlan has them.                                     *)

(* A pass, look by look; and the order, pass by pass.                        *)
Looks(o, ks, ds) ==
  CHOOSE f : f = [n \in 0..Len(ks) |-> IF n = 0 THEN o ELSE Visit(f[n - 1], ks[n], ds)]

Rounds(ks, ds) ==
  CHOOSE f : f = [n \in 0..Len(ks) |-> IF n = 0 THEN << >> ELSE Pass(f[n - 1], ks, ds)]

LEMMA LooksGo ==
  ASSUME NEW S, NEW ks \in Seq(S), NEW o \in Seq(S), NEW ds
  PROVE  /\ Looks(o, ks, ds)[0] = o
         /\ \A n \in 1..Len(ks) : Looks(o, ks, ds)[n] = Visit(Looks(o, ks, ds)[n - 1], ks[n], ds)
         /\ \A n \in 0..Len(ks) : Looks(o, ks, ds)[n] \in Seq(S)
         /\ Pass(o, ks, ds) = Looks(o, ks, ds)[Len(ks)]
<1> DEFINE N == Len(ks)
           do == [n \in 1..N |-> [p \in Seq(S) |-> Visit(p, ks[n], ds)]]
           Rec(f) == f = [n \in 0..N |-> IF n = 0 THEN o ELSE Visit(f[n - 1], ks[n], ds)]
           u == CHOOSE f : Rec(f)
<1>1. N \in Nat /\ \A n \in 1..N : ks[n] \in S
  OBVIOUS
<1>2. do \in Steps(Seq(S), N)
  <2>1. \A n \in 1..N, p \in Seq(S) : Visit(p, ks[n], ds) \in Seq(S)
    BY <1>1 DEF Visit
  <2> QED BY <1>1, <2>1 DEF Steps
<1>3. PICK f : f \in Traces(Seq(S), o, N, do)
  <2>1. N \in Nat
    BY <1>1
  <2> HIDE DEF do, N
  <2> QED BY <1>2, <2>1, Repeated, Zenon
<1>4. Rec(f)
  <2>1. ASSUME NEW n \in 1..N PROVE f[n] = Visit(f[n - 1], ks[n], ds)
    <3>1. f[n - 1] \in Seq(S) /\ f[n] = do[n][f[n - 1]]
      <4> HIDE DEF do
      <4> QED BY <1>1, <1>3 DEF Traces
    <3>2. do[n] = [p \in Seq(S) |-> Visit(p, ks[n], ds)]
      OBVIOUS
    <3> HIDE DEF do, Rec
    <3> QED BY <3>1, <3>2
  <2> HIDE DEF do
  <2> QED BY <1>1, <1>3, <2>1 DEF Traces
<1>5. Rec(u)
  BY <1>4
<1>6. u[0] = o /\ \A n \in 1..N : u[n] = Visit(u[n - 1], ks[n], ds)
  <2> HIDE DEF u
  <2> QED BY <1>1, <1>5
<1>7. \A n \in 0..N : u[n] \in Seq(S)
  <2>1. ASSUME NEW n \in 1..N, f[n - 1] = u[n - 1] PROVE f[n] = u[n]
    <3> HIDE DEF u
    <3> QED BY <1>1, <1>4, <1>6, <2>1
  <2>2. N \in Nat /\ GoAlike(N, f, u)
    <3>1. f[0] = o
      BY <1>1, <1>3 DEF Traces
    <3> HIDE DEF u
    <3> QED BY <1>1, <1>6, <2>1, <3>1 DEF GoAlike
  <2>3. Alike(N, f, u)
    <3> HIDE DEF N, do, Rec, u
    <3> QED BY <2>2, StayAlike, Zenon
  <2> HIDE DEF u, do
  <2> QED BY <1>1, <1>3, <2>3 DEF Alike, Traces
<1>8. Looks(o, ks, ds) = u /\ Pass(o, ks, ds) = u[N]
  BY DEF Looks, Pass
<1> HIDE DEF u
<1> QED BY <1>6, <1>7, <1>8

LEMMA RoundsGo ==
  ASSUME NEW S, NEW ks \in Seq(S), NEW ds
  PROVE  /\ Rounds(ks, ds)[0] = << >>
         /\ \A n \in 1..Len(ks) : Rounds(ks, ds)[n] = Pass(Rounds(ks, ds)[n - 1], ks, ds)
         /\ \A n \in 0..Len(ks) : Rounds(ks, ds)[n] \in Seq(S)
         /\ OrderOf(ks, ds) = Rounds(ks, ds)[Len(ks)]
<1> DEFINE N == Len(ks)
           do == [n \in 1..N |-> [p \in Seq(S) |-> Pass(p, ks, ds)]]
           Rec(f) == f = [n \in 0..N |-> IF n = 0 THEN << >> ELSE Pass(f[n - 1], ks, ds)]
           u == CHOOSE f : Rec(f)
<1>1. N \in Nat /\ \A n \in 1..N : ks[n] \in S
  OBVIOUS
<1>2. do \in Steps(Seq(S), N)
  <2>1. \A p \in Seq(S) : Pass(p, ks, ds) \in Seq(S)
    <3> SUFFICES ASSUME NEW p \in Seq(S) PROVE Pass(p, ks, ds) \in Seq(S)
      OBVIOUS
    <3>1. N \in 0..N
      BY <1>1
    <3> QED BY <3>1, LooksGo
  <2> QED BY <1>1, <2>1 DEF Steps
<1>3. PICK f : f \in Traces(Seq(S), << >>, N, do)
  <2>1. N \in Nat /\ << >> \in Seq(S)
    BY <1>1
  <2> HIDE DEF do, N
  <2> QED BY <1>2, <2>1, Repeated, Zenon
<1>4. Rec(f)
  <2>1. ASSUME NEW n \in 1..N PROVE f[n] = Pass(f[n - 1], ks, ds)
    <3>1. f[n - 1] \in Seq(S) /\ f[n] = do[n][f[n - 1]]
      <4> HIDE DEF do
      <4> QED BY <1>1, <1>3 DEF Traces
    <3>2. do[n] = [p \in Seq(S) |-> Pass(p, ks, ds)]
      OBVIOUS
    <3> HIDE DEF do, Rec
    <3> QED BY <3>1, <3>2
  <2> HIDE DEF do
  <2> QED BY <1>1, <1>3, <2>1 DEF Traces
<1>5. Rec(u)
  BY <1>4
<1>6. u[0] = << >> /\ \A n \in 1..N : u[n] = Pass(u[n - 1], ks, ds)
  <2> HIDE DEF u
  <2> QED BY <1>1, <1>5
<1>7. \A n \in 0..N : u[n] \in Seq(S)
  <2>1. ASSUME NEW n \in 1..N, f[n - 1] = u[n - 1] PROVE f[n] = u[n]
    <3> HIDE DEF u
    <3> QED BY <1>1, <1>4, <1>6, <2>1
  <2>2. N \in Nat /\ GoAlike(N, f, u)
    <3>1. f[0] = << >>
      BY <1>1, <1>3 DEF Traces
    <3> HIDE DEF u
    <3> QED BY <1>1, <1>6, <2>1, <3>1 DEF GoAlike
  <2>3. Alike(N, f, u)
    <3> HIDE DEF N, do, Rec, u
    <3> QED BY <2>2, StayAlike, Zenon
  <2> HIDE DEF u, do
  <2> QED BY <1>1, <1>3, <2>3 DEF Alike, Traces
<1>8. Rounds(ks, ds) = u /\ OrderOf(ks, ds) = u[N]
  BY DEF Rounds, OrderOf
<1> HIDE DEF u
<1> QED BY <1>6, <1>7, <1>8

(* Where no look can place anything, no pass does, and the order is settled. *)
Settles(o, ks, ds) == \A n \in 1..Len(ks) : Visit(o, ks[n], ds) = o

LEMMA SettledPass ==
  ASSUME NEW S, NEW ks \in Seq(S), NEW o \in Seq(S), NEW ds, Settles(o, ks, ds)
  PROVE  Pass(o, ks, ds) = o
<1> DEFINE N == Len(ks)
           u == Looks(o, ks, ds)
           still == [n \in 0..N |-> o]
<1>1. N \in Nat
  OBVIOUS
<1>2. u[0] = o /\ (\A n \in 1..N : u[n] = Visit(u[n - 1], ks[n], ds)) /\ Pass(o, ks, ds) = u[N]
  BY LooksGo
<1>3. \A n \in 0..N : still[n] = o
  BY <1>1
<1>4. GoAlike(N, u, still)
  <2> HIDE DEF u, still
  <2> QED BY <1>1, <1>2, <1>3 DEF GoAlike, Settles
<1>5. Alike(N, u, still)
  <2> HIDE DEF N, u, still
  <2> QED BY <1>1, <1>4, StayAlike, Zenon
<1> HIDE DEF u, still
<1> QED BY <1>1, <1>2, <1>3, <1>5 DEF Alike

LEMMA SettledRounds ==
  ASSUME NEW S, NEW ks \in Seq(S), NEW ds, NEW p \in 0..Len(ks), Settles(Rounds(ks, ds)[p], ks, ds)
  PROVE  OrderOf(ks, ds) = Rounds(ks, ds)[p]
<1> DEFINE N == Len(ks)
           u == Rounds(ks, ds)
           Bad == {n \in p..N : u[n] # u[p]}
<1>1. N \in Nat /\ p \in Nat /\ p <= N
  OBVIOUS
<1>2. (\A n \in 1..N : u[n] = Pass(u[n - 1], ks, ds)) /\ u[p] \in Seq(S) /\ OrderOf(ks, ds) = u[N]
  BY RoundsGo
<1>3. Pass(u[p], ks, ds) = u[p]
  BY <1>2, SettledPass
<1> HIDE DEF u
<1>4. Bad = {}
  <2> SUFFICES ASSUME Bad # {} PROVE FALSE
    OBVIOUS
  <2>1. PICK n \in Bad : \A m \in Bad : n <= m
    <3>1. Bad \subseteq Nat
      BY <1>1
    <3> HIDE DEF Bad
    <3> QED BY <3>1, LeastOf
  <2>2. n \in p + 1..N
    BY <1>1, <2>1
  <2>3. n - 1 \in p..N /\ n \in 1..N
    BY <1>1, <2>2
  <2>4. n - 1 \notin Bad
    <3> HIDE DEF Bad
    <3> QED BY <1>1, <2>1, <2>2
  <2>5. u[n - 1] = u[p]
    BY <2>3, <2>4
  <2> QED BY <1>2, <1>3, <2>1, <2>3, <2>5
<1>5. OrderOf(ks, ds) = u[p]
  BY <1>1, <1>2, <1>4
<1> QED BY <1>5 DEF u

-----------------------------------------------------------------------------
(* The sort places what the passes of SolutionPlan place.                    *)

(* A key that a look leaves alone is in the order, or waits for one that is  *)
(* not.                                                                      *)
Waits(o, k, ds) == Contains(o, k) \/ \E d \in ds[k] : ~Contains(o, d)

InStep(p, ks, ds, o) ==
  LET base == Rounds(ks, ds)[p]
  IN  /\ p <= Len(base)
      /\ at <= Len(ks) + 1 /\ o = Looks(base, ks, ds)[at - 1]
      /\ progressed = "no" => o = base
      /\ progressed = "yes" => Len(base) < Len(o)

SortInv ==
  /\ \A k \in Key : deps[k] \subseteq ToSet(keys)
  /\ ToSet(order) \subseteq ToSet(keys)
  /\ progressed = "no" => \A m \in 1..(at - 1) : Waits(order, keys[m], deps)
  /\ done = "no" => \E p \in 0..Len(keys) : InStep(p, keys, deps, order)
  /\ done = "yes" => /\ order = OrderOf(keys, deps)
                     /\ \A m \in 1..Len(keys) : Waits(order, keys[m], deps)

LEMMA WaitsIsVisit ==
  ASSUME NEW S, NEW o \in Seq(S), NEW k, NEW ds
  PROVE  /\ Waits(o, k, ds) => Visit(o, k, ds) = o
         /\ ~Waits(o, k, ds) => Visit(o, k, ds) = Append(o, k)
  BY DEF Waits, Visit

(* A key list has no more keys than places.                                  *)
LEMMA KeysAreFew ==
  ASSUME NEW S, NEW ks \in Seq(S)
  PROVE  /\ IsFiniteSet(ToSet(ks)) /\ Cardinality(ToSet(ks)) \in Nat /\ Cardinality(ToSet(ks)) <= Len(ks)
<1>1. Len(ks) \in Nat /\ DOMAIN ks = 1..Len(ks)
  OBVIOUS
<1>2. IsFiniteSet(1..Len(ks)) /\ Cardinality(1..Len(ks)) = Len(ks)
  BY <1>1, FS_Interval
<1>3. ks \in Surjection(1..Len(ks), ToSet(ks))
  BY <1>1 DEF Surjection, ToSet
<1>4. IsFiniteSet(ToSet(ks)) /\ Cardinality(ToSet(ks)) <= Cardinality(1..Len(ks))
  BY <1>2, <1>3, FS_Surjection
<1> QED BY <1>2, <1>4, FS_CardinalityType

(* An order in which nothing stands twice is no longer than the key list;    *)
(* where it is as long, every key is in it.                                  *)
LEMMA OrderFits ==
  ASSUME NEW S, NEW ks \in Seq(S), NEW o \in Seq(S), ToSet(o) \subseteq ToSet(ks),
         \A n \in DOMAIN o : \A m \in 1..(n - 1) : o[m] # o[n]
  PROVE  /\ Len(o) <= Len(ks)
         /\ Len(o) = Len(ks) => \A k \in ToSet(ks) : Contains(o, k)
<1>1. Len(o) \in Nat /\ DOMAIN o = 1..Len(o) /\ Len(ks) \in Nat
  OBVIOUS
<1>2. IsFiniteSet(1..Len(o)) /\ Cardinality(1..Len(o)) = Len(o)
  <2>1. PICK n \in Nat : n = Len(o)
    BY <1>1
  <2>2. IsFiniteSet(1..n) /\ Cardinality(1..n) = n
    BY FS_Interval
  <2> QED BY <2>1, <2>2
<1>3. IsFiniteSet(ToSet(ks)) /\ Cardinality(ToSet(ks)) \in Nat /\ Cardinality(ToSet(ks)) <= Len(ks)
  BY KeysAreFew
<1>4. o \in Injection(1..Len(o), ToSet(ks))
  <2>1. o \in [1..Len(o) -> ToSet(ks)]
    <3>1. \A n \in 1..Len(o) : o[n] \in ToSet(o)
      BY <1>1 DEF ToSet
    <3> QED BY <1>1, <3>1
  <2>2. ASSUME NEW m \in 1..Len(o), NEW n \in 1..Len(o), o[m] = o[n] PROVE m = n
    <3>1. ~(m < n) /\ ~(n < m)
      BY <1>1, <2>2
    <3> QED BY <3>1
  <2> QED BY <2>1, <2>2 DEF Injection, IsInjective
<1>5. /\ Cardinality(1..Len(o)) <= Cardinality(ToSet(ks))
      /\ Cardinality(1..Len(o)) = Cardinality(ToSet(ks)) <=> o \in Surjection(1..Len(o), ToSet(ks))
  BY <1>3, <1>4, FS_Injection
<1>6. Len(o) <= Len(ks)
  BY <1>1, <1>2, <1>3, <1>5
<1>7. ASSUME Len(o) = Len(ks) PROVE \A k \in ToSet(ks) : Contains(o, k)
  <2>1. o \in Surjection(1..Len(o), ToSet(ks))
    BY <1>1, <1>2, <1>3, <1>5, <1>7
  <2> QED BY <2>1 DEF Surjection, Contains
<1> QED BY <1>6, <1>7

LEMMA SortStarts ==
  ASSUME Init
  PROVE  SortInv
<1>1. keys \in Seq(Key) /\ order = << >> /\ at = 1 /\ progressed = "no" /\ done = "no"
  BY KeyListsAssumption DEF Init
<1>2. \A k \in Key : deps[k] \subseteq ToSet(keys)
  BY DEF Init
<1>3. InStep(0, keys, deps, order)
  <2>1. PICK ks, ds : ks = keys /\ ds = deps
    OBVIOUS
  <2>2. PICK none : none = << >>
    OBVIOUS
  <2>3. ks \in Seq(Key) /\ none \in Seq(Key) /\ Len(none) = 0 /\ Len(ks) \in Nat
    BY <1>1, <2>1, <2>2
  <2>4. Rounds(ks, ds)[0] = none
    BY <2>2, <2>3, RoundsGo
  <2>5. Looks(none, ks, ds)[0] = none
    <3>1. ASSUME NEW o \in Seq(Key) PROVE Looks(o, ks, ds)[0] = o
      BY <2>3, LooksGo
    <3> QED BY <2>3, <3>1
  <2> QED BY <1>1, <2>1, <2>2, <2>3, <2>4, <2>5 DEF InStep
<1>4. 0 \in 0..Len(keys)
  BY <1>1
<1>5. ToSet(order) = {}
  BY <1>1 DEF ToSet
<1> QED BY <1>1, <1>2, <1>3, <1>4, <1>5 DEF SortInv

(* A step of the sort goes one look further.                                 *)
LEMMA SortPlaces ==
  ASSUME TypeOK, SortInv, Place
  PROVE  SortInv'
<1>1. PICK ks, ds, o, n, k : ks = keys /\ ds = deps /\ o = order /\ n = at /\ k = keys[at]
  OBVIOUS
<1>2. /\ ks \in Seq(Key) /\ o \in Seq(Key) /\ n \in 1..Len(ks) /\ k \in Key /\ k = ks[n] /\ Len(ks) \in Nat
      /\ done = "no" /\ done' = "no" /\ keys' = ks /\ deps' = ds /\ order' = Append(o, k) /\ progressed' = "yes"
      /\ at' = n + 1
  BY <1>1, KeyListsAssumption DEF TypeOK, Place
<1>3. ~Waits(o, k, ds)
  BY <1>1 DEF Place, Ready, Waits
<1>4. ToSet(Append(o, k)) \subseteq ToSet(ks)
  <2>1. ToSet(o) \subseteq ToSet(ks)
    BY <1>1 DEF SortInv
  <2>2. \A m \in 1..Len(o) : o[m] \in ToSet(ks)
    <3>1. \A m \in 1..Len(o) : o[m] \in ToSet(o)
      BY <1>2 DEF ToSet
    <3> QED BY <2>1, <3>1
  <2>3. k \in ToSet(ks)
    BY <1>2 DEF ToSet
  <2>4. \A m \in 1..Len(Append(o, k)) : Append(o, k)[m] = k \/ \E l \in 1..Len(o) : Append(o, k)[m] = o[l]
    BY <1>2
  <2>5. \A m \in 1..Len(Append(o, k)) : Append(o, k)[m] \in ToSet(ks)
    BY <2>2, <2>3, <2>4
  <2>6. DOMAIN Append(o, k) = 1..Len(Append(o, k))
    BY <1>2
  <2>7. ToSet(Append(o, k)) = {Append(o, k)[m] : m \in 1..Len(Append(o, k))}
    BY <2>6 DEF ToSet
  <2> QED BY <2>5, <2>7
<1>5. PICK p \in 0..Len(ks) : InStep(p, ks, ds, o)
  BY <1>1, <1>2 DEF SortInv
<1>6. InStep(p, ks, ds, Append(o, k))'
  <2>1. PICK base : base = Rounds(ks, ds)[p]
    OBVIOUS
  <2>2. base \in Seq(Key)
    BY <1>2, <2>1, RoundsGo
  <2>3. /\ p <= Len(base) /\ o = Looks(base, ks, ds)[n - 1]
        /\ progressed = "no" => o = base
        /\ progressed = "yes" => Len(base) < Len(o)
    BY <1>1, <1>5, <2>1 DEF InStep
  <2>4. Looks(base, ks, ds)[n] = Visit(o, k, ds)
    BY <1>2, <2>2, <2>3, LooksGo
  <2>5. Visit(o, k, ds) = Append(o, k)
    BY <1>2, <1>3, WaitsIsVisit
  <2>6. Len(Append(o, k)) = Len(o) + 1 /\ Len(o) \in Nat /\ Len(base) \in Nat
    BY <1>2, <2>2
  <2>7. Len(base) < Len(Append(o, k))
    BY <2>3, <2>6 DEF TypeOK
  <2>8. at' - 1 = n /\ at' <= Len(ks) + 1
    BY <1>2
  <2> QED BY <1>2, <2>1, <2>3, <2>4, <2>5, <2>7, <2>8 DEF InStep
<1>7. \A j \in Key : ds[j] \subseteq ToSet(ks)
  BY <1>1 DEF SortInv
<1> QED BY <1>2, <1>4, <1>5, <1>6, <1>7 DEF SortInv

LEMMA SortPasses ==
  ASSUME TypeOK, SortInv, Pending
  PROVE  SortInv'
<1>1. PICK ks, ds, o, n, k : ks = keys /\ ds = deps /\ o = order /\ n = at /\ k = keys[at]
  OBVIOUS
<1>2. /\ ks \in Seq(Key) /\ o \in Seq(Key) /\ n \in 1..Len(ks) /\ k \in Key /\ k = ks[n] /\ Len(ks) \in Nat
      /\ done = "no" /\ done' = "no" /\ keys' = ks /\ deps' = ds /\ order' = o /\ progressed' = progressed
      /\ at' = n + 1
  BY <1>1, KeyListsAssumption DEF TypeOK, Pending
<1>3. Waits(o, k, ds)
  BY <1>1 DEF Pending, Ready, Waits
<1>4. PICK p \in 0..Len(ks) : InStep(p, ks, ds, o)
  BY <1>1, <1>2 DEF SortInv
<1>5. InStep(p, ks, ds, o)'
  <2>1. PICK base : base = Rounds(ks, ds)[p]
    OBVIOUS
  <2>2. base \in Seq(Key)
    BY <1>2, <2>1, RoundsGo
  <2>3. /\ p <= Len(base) /\ o = Looks(base, ks, ds)[n - 1]
        /\ progressed = "no" => o = base
        /\ progressed = "yes" => Len(base) < Len(o)
    BY <1>1, <1>4, <2>1 DEF InStep
  <2>4. Looks(base, ks, ds)[n] = Visit(o, k, ds)
    BY <1>2, <2>2, <2>3, LooksGo
  <2>5. Visit(o, k, ds) = o
    BY <1>2, <1>3, WaitsIsVisit
  <2>6. at' - 1 = n /\ at' <= Len(ks) + 1
    BY <1>2
  <2> QED BY <1>2, <2>1, <2>3, <2>4, <2>5, <2>6 DEF InStep
<1>6. ASSUME progressed = "no", NEW m \in 1..n
      PROVE  Waits(o, ks[m], ds)
  <2>1. CASE m = n
    BY <1>2, <1>3, <2>1
  <2>2. CASE m # n
    <3>1. m \in 1..(n - 1)
      BY <1>2, <2>2
    <3> QED BY <1>1, <1>6, <3>1 DEF SortInv
  <2> QED BY <2>1, <2>2
<1>7. (\A j \in Key : ds[j] \subseteq ToSet(ks)) /\ ToSet(o) \subseteq ToSet(ks)
  BY <1>1 DEF SortInv
<1>8. \A m \in 1..(at' - 1) : m \in 1..n
  BY <1>2
<1> QED BY <1>2, <1>4, <1>5, <1>6, <1>7, <1>8 DEF SortInv

(* After a pass that placed something there is one more of SolutionPlan's.   *)
LEMMA PassIsRound ==
  ASSUME TypeOK, SortInv, DepsPrecede, NEW ks, NEW ds, NEW o, ks = keys, ds = deps, o = order,
         done = "no", at > Len(ks), progressed = "yes"
  PROVE  \E p \in 1..Len(ks) : o = Rounds(ks, ds)[p] /\ p <= Len(o)
<1>1. /\ ks \in Seq(Key) /\ o \in Seq(Key) /\ Len(ks) \in Nat /\ Len(o) \in Nat /\ at = Len(ks) + 1
  BY KeyListsAssumption DEF TypeOK
<1>2. PICK p \in 0..Len(ks) : InStep(p, ks, ds, o)
  BY DEF SortInv
<1>3. PICK base : base = Rounds(ks, ds)[p]
  OBVIOUS
<1>4. base \in Seq(Key)
  BY <1>1, <1>3, RoundsGo
<1>5. p <= Len(base) /\ o = Looks(base, ks, ds)[Len(ks)] /\ Len(base) < Len(o) /\ Len(base) \in Nat
  BY <1>1, <1>2, <1>3, <1>4 DEF InStep
<1>6. o = Pass(base, ks, ds)
  BY <1>1, <1>4, <1>5, LooksGo
<1>7. Len(o) <= Len(ks)
  <2>1. ToSet(o) \subseteq ToSet(ks)
    BY DEF SortInv
  <2>2. \A n \in DOMAIN o : \A m \in 1..(n - 1) : o[m] # o[n]
    BY DEF DepsPrecede
  <2> QED BY <1>1, <2>1, <2>2, OrderFits
<1>8. p + 1 \in 1..Len(ks) /\ p + 1 <= Len(o)
  BY <1>1, <1>5, <1>7
<1>9. Rounds(ks, ds)[p + 1] = Pass(Rounds(ks, ds)[(p + 1) - 1], ks, ds)
  BY <1>1, <1>8, RoundsGo
<1>10. (p + 1) - 1 = p
  OBVIOUS
<1> QED BY <1>3, <1>6, <1>8, <1>9, <1>10

LEMMA SortGoesOn ==
  ASSUME TypeOK, SortInv, DepsPrecede, NextPass
  PROVE  SortInv'
<1>1. PICK ks, ds, o : ks = keys /\ ds = deps /\ o = order
  OBVIOUS
<1>2. /\ ks \in Seq(Key) /\ o \in Seq(Key) /\ Len(ks) \in Nat
      /\ done = "no" /\ done' = "no" /\ keys' = ks /\ deps' = ds /\ order' = o
      /\ at > Len(ks) /\ progressed = "yes" /\ progressed' = "no" /\ at' = 1
  BY <1>1, KeyListsAssumption DEF TypeOK, NextPass
<1>3. PICK p \in 1..Len(ks) : o = Rounds(ks, ds)[p] /\ p <= Len(o)
  BY <1>1, <1>2, PassIsRound
<1>4. InStep(p, ks, ds, o)'
  <2>1. Looks(o, ks, ds)[0] = o
    BY <1>2, LooksGo
  <2> QED BY <1>2, <1>3, <2>1 DEF InStep
<1>5. (\A j \in Key : ds[j] \subseteq ToSet(ks)) /\ ToSet(o) \subseteq ToSet(ks)
  BY <1>1 DEF SortInv
<1>6. \A m \in 1..(at' - 1) : FALSE
  BY <1>2
<1> QED BY <1>2, <1>3, <1>4, <1>5, <1>6 DEF SortInv

LEMMA SortReturnsRight ==
  ASSUME TypeOK, SortInv, DepsPrecede, Return
  PROVE  SortInv'
<1>1. PICK ks, ds, o : ks = keys /\ ds = deps /\ o = order
  OBVIOUS
<1>2. /\ ks \in Seq(Key) /\ o \in Seq(Key) /\ Len(ks) \in Nat /\ Len(o) \in Nat
      /\ done = "no" /\ done' = "yes" /\ keys' = ks /\ deps' = ds /\ order' = o
      /\ at = Len(ks) + 1 /\ progressed' = progressed /\ at' = at
      /\ Len(o) >= Len(ks) \/ progressed = "no"
  BY <1>1, KeyListsAssumption DEF TypeOK, Return
<1>3. (\A j \in Key : ds[j] \subseteq ToSet(ks)) /\ ToSet(o) \subseteq ToSet(ks)
  BY <1>1 DEF SortInv
<1>4. /\ \A m \in 1..Len(ks) : Waits(o, ks[m], ds)
      /\ \E p \in 0..Len(ks) : o = Rounds(ks, ds)[p]
  <2>1. CASE progressed = "no"
    <3>1. PICK p \in 0..Len(ks) : InStep(p, ks, ds, o)
      BY <1>1, <1>2 DEF SortInv
    <3>2. o = Rounds(ks, ds)[p]
      BY <2>1, <3>1 DEF InStep
    <3>3. \A m \in 1..Len(ks) : m \in 1..(at - 1)
      BY <1>2
    <3> QED BY <1>1, <2>1, <3>2, <3>3 DEF SortInv
  <2>2. CASE progressed = "yes"
    <3>1. PICK p \in 1..Len(ks) : o = Rounds(ks, ds)[p]
      <4>1. at > Len(ks)
        BY <1>2
      <4> QED BY <1>1, <1>2, <2>2, <4>1, PassIsRound
    <3>2. \A n \in DOMAIN o : \A m \in 1..(n - 1) : o[m] # o[n]
      BY <1>1 DEF DepsPrecede
    <3>3. Len(o) <= Len(ks) /\ (Len(o) = Len(ks) => \A k \in ToSet(ks) : Contains(o, k))
      BY <1>2, <1>3, <3>2, OrderFits
    <3>4. Len(o) = Len(ks)
      BY <1>2, <2>2, <3>3
    <3>5. \A m \in 1..Len(ks) : ks[m] \in ToSet(ks)
      BY <1>2 DEF ToSet
    <3> QED BY <1>2, <3>1, <3>3, <3>4, <3>5 DEF Waits
  <2> QED BY <2>1, <2>2 DEF TypeOK
<1>5. o = OrderOf(ks, ds)
  <2>1. PICK p \in 0..Len(ks) : o = Rounds(ks, ds)[p]
    BY <1>4
  <2>2. Settles(o, ks, ds)
    BY <1>2, <1>4, WaitsIsVisit DEF Settles
  <2> QED BY <1>2, <2>1, <2>2, SettledRounds
<1>6. \A m \in 1..(at' - 1) : m \in 1..Len(ks)
  BY <1>2
<1> QED BY <1>2, <1>3, <1>4, <1>5, <1>6 DEF SortInv

-----------------------------------------------------------------------------
(* What a key hangs on: the least set that holds its dependencies and theirs.*)
Planned ==
  /\ keys \in Seq(Key)
  /\ deps \in [Key -> SUBSET Key]
  /\ \A k \in Key : deps[k] \subseteq ToSet(keys)

Grown(k) ==
  CHOOSE f : f = [n \in 0..Len(keys) |-> IF n = 0 THEN deps[k] ELSE Reach(f[n - 1])]

Closed(T) == \A k \in T : deps[k] \subseteq T

LEMMA KeysAreKeys ==
  ASSUME Planned
  PROVE  ToSet(keys) \subseteq Key
  BY DEF Planned, ToSet

LEMMA ReachGrows ==
  ASSUME Planned, NEW T \in SUBSET ToSet(keys)
  PROVE  /\ Reach(T) \in SUBSET ToSet(keys) /\ T \subseteq Reach(T)
         /\ \A k \in T : deps[k] \subseteq Reach(T)
         /\ Closed(T) => Reach(T) = T
         /\ \A W : T \subseteq W /\ Closed(W) => Reach(T) \subseteq W
<1>1. T \subseteq Key
  BY KeysAreKeys
<1>2. \A k \in T : deps[k] \subseteq ToSet(keys)
  BY <1>1 DEF Planned
<1> QED BY <1>2 DEF Reach, Closed

LEMMA GrownGoes ==
  ASSUME Planned, NEW k \in Key
  PROVE  /\ Grown(k)[0] = deps[k]
         /\ \A n \in 1..Len(keys) : Grown(k)[n] = Reach(Grown(k)[n - 1])
         /\ \A n \in 0..Len(keys) : Grown(k)[n] \in SUBSET ToSet(keys)
         /\ Downstream(k) = Grown(k)[Len(keys)]
<1> DEFINE N == Len(keys)
           P == SUBSET ToSet(keys)
           do == [n \in 1..N |-> [T \in P |-> Reach(T)]]
           Rec(f) == f = [n \in 0..N |-> IF n = 0 THEN deps[k] ELSE Reach(f[n - 1])]
           u == CHOOSE f : Rec(f)
<1>1. N \in Nat /\ deps[k] \in P
  BY DEF Planned
<1>2. do \in Steps(P, N)
  <2>1. \A T \in P : Reach(T) \in P
    BY ReachGrows
  <2> HIDE DEF P
  <2> QED BY <1>1, <2>1 DEF Steps
<1>3. PICK f : f \in Traces(P, deps[k], N, do)
  <2> HIDE DEF do, N, P
  <2> QED BY <1>1, <1>2, Repeated, Zenon
<1>4. Rec(f)
  <2>1. ASSUME NEW n \in 1..N PROVE f[n] = Reach(f[n - 1])
    <3>1. f[n - 1] \in P /\ f[n] = do[n][f[n - 1]]
      <4> HIDE DEF do, P
      <4> QED BY <1>1, <1>3 DEF Traces
    <3>2. do[n] = [T \in P |-> Reach(T)]
      OBVIOUS
    <3> HIDE DEF do, Rec, P
    <3> QED BY <3>1, <3>2
  <2> HIDE DEF do, P
  <2> QED BY <1>1, <1>3, <2>1 DEF Traces
<1>5. Rec(u)
  BY <1>4
<1>6. u[0] = deps[k] /\ \A n \in 1..N : u[n] = Reach(u[n - 1])
  <2> HIDE DEF u
  <2> QED BY <1>1, <1>5
<1>7. \A n \in 0..N : u[n] \in P
  <2>1. ASSUME NEW n \in 1..N, f[n - 1] = u[n - 1] PROVE f[n] = u[n]
    <3> HIDE DEF u
    <3> QED BY <1>1, <1>4, <1>6, <2>1
  <2>2. N \in Nat /\ GoAlike(N, f, u)
    <3>1. f[0] = deps[k]
      <4> HIDE DEF do, P
      <4> QED BY <1>1, <1>3 DEF Traces
    <3> HIDE DEF u
    <3> QED BY <1>1, <1>6, <2>1, <3>1 DEF GoAlike
  <2>3. Alike(N, f, u)
    <3> HIDE DEF N, do, Rec, u
    <3> QED BY <2>2, StayAlike, Zenon
  <2> HIDE DEF u, do, P
  <2> QED BY <1>1, <1>3, <2>3 DEF Alike, Traces
<1>8. Grown(k) = u /\ Downstream(k) = u[N]
  BY DEF Grown, Downstream
<1> HIDE DEF u
<1> QED BY <1>6, <1>7, <1>8

(* As many rounds as there are places reach everything there is to reach.    *)
LEMMA DownIsClosed ==
  ASSUME Planned, NEW k \in Key
  PROVE  /\ Downstream(k) \in SUBSET ToSet(keys)
         /\ deps[k] \subseteq Downstream(k)
         /\ Closed(Downstream(k))
<1> DEFINE N == Len(keys)
           u == Grown(k)
           Good(n) == deps[k] \subseteq u[n] /\ (Closed(u[n]) \/ n <= Cardinality(u[n]))
           Bad == {n \in 0..N : ~Good(n)}
<1>1. /\ N \in Nat /\ u[0] = deps[k] /\ (\A n \in 1..N : u[n] = Reach(u[n - 1]))
      /\ (\A n \in 0..N : u[n] \in SUBSET ToSet(keys)) /\ Downstream(k) = u[N]
  BY GrownGoes DEF Planned
<1>2. IsFiniteSet(ToSet(keys)) /\ Cardinality(ToSet(keys)) <= N /\ Cardinality(ToSet(keys)) \in Nat
  BY KeysAreFew DEF Planned
<1> HIDE DEF u
<1>3. \A n \in 0..N : IsFiniteSet(u[n]) /\ Cardinality(u[n]) \in Nat
  BY <1>1, <1>2, FS_Subset, FS_CardinalityType
<1>4. Bad = {}
  <2> SUFFICES ASSUME Bad # {} PROVE FALSE
    OBVIOUS
  <2>1. PICK n \in Bad : \A m \in Bad : n <= m
    <3>1. Bad \subseteq Nat
      BY <1>1
    <3> HIDE DEF Bad
    <3> QED BY <3>1, LeastOf
  <2>2. n # 0
    <3>1. 0 \in 0..N
      BY <1>1
    <3> QED BY <1>1, <1>3, <3>1
  <2>3. n \in 1..N /\ n - 1 \in 0..N /\ ~Good(n)
    BY <1>1, <2>1, <2>2
  <2>4. n - 1 \notin Bad
    <3> HIDE DEF Bad
    <3> QED BY <1>1, <2>1, <2>3
  <2>5. Good(n - 1)
    BY <2>3, <2>4
  <2>6. u[n] = Reach(u[n - 1]) /\ u[n - 1] \in SUBSET ToSet(keys)
    BY <1>1, <2>3
  <2>7. /\ u[n - 1] \subseteq u[n] /\ (\A j \in u[n - 1] : deps[j] \subseteq u[n])
        /\ Closed(u[n - 1]) => u[n] = u[n - 1]
    BY <2>6, ReachGrows
  <2>8. CASE Closed(u[n - 1])
    BY <2>3, <2>5, <2>7, <2>8
  <2>9. CASE ~Closed(u[n - 1])
    <3>1. n - 1 <= Cardinality(u[n - 1])
      BY <2>5, <2>9
    <3>2. u[n] # u[n - 1]
      BY <2>7, <2>9 DEF Closed
    <3>3. Cardinality(u[n - 1]) < Cardinality(u[n])
      BY <1>3, <2>3, <2>7, <3>2, FS_Subset
    <3>4. n <= Cardinality(u[n])
      BY <1>3, <2>3, <3>1, <3>3
    <3> QED BY <2>3, <2>5, <2>7, <3>4
  <2> QED BY <2>8, <2>9
<1>5. Good(N)
  <2>1. N \in 0..N
    BY <1>1
  <2> QED BY <1>4, <2>1
<1>6. u[N] \in SUBSET ToSet(keys) /\ Cardinality(u[N]) \in Nat
  <2>1. N \in 0..N
    BY <1>1
  <2> QED BY <1>1, <1>3, <2>1
<1>7. CASE N <= Cardinality(u[N])
  <2>1. Cardinality(u[N]) <= Cardinality(ToSet(keys))
    BY <1>2, <1>6, FS_Subset
  <2>2. Cardinality(u[N]) = Cardinality(ToSet(keys))
    BY <1>1, <1>2, <1>6, <1>7, <2>1
  <2>3. u[N] = ToSet(keys)
    BY <1>2, <1>6, <2>2, FS_Subset
  <2>4. Closed(u[N])
    BY <2>3, KeysAreKeys DEF Closed, Planned
  <2> QED BY <1>1, <1>5, <1>6, <2>4
<1> QED BY <1>1, <1>5, <1>6, <1>7

LEMMA DownIsLeast ==
  ASSUME Planned, NEW k \in Key, NEW W, deps[k] \subseteq W, Closed(W)
  PROVE  Downstream(k) \subseteq W
<1> DEFINE N == Len(keys)
           u == Grown(k)
           Bad == {n \in 0..N : ~(u[n] \subseteq W)}
<1>1. /\ N \in Nat /\ u[0] = deps[k] /\ (\A n \in 1..N : u[n] = Reach(u[n - 1]))
      /\ (\A n \in 0..N : u[n] \in SUBSET ToSet(keys)) /\ Downstream(k) = u[N]
  BY GrownGoes DEF Planned
<1> HIDE DEF u
<1>2. Bad = {}
  <2> SUFFICES ASSUME Bad # {} PROVE FALSE
    OBVIOUS
  <2>1. PICK n \in Bad : \A m \in Bad : n <= m
    <3>1. Bad \subseteq Nat
      BY <1>1
    <3> HIDE DEF Bad
    <3> QED BY <3>1, LeastOf
  <2>2. n # 0
    BY <1>1, <2>1
  <2>3. n \in 1..N /\ n - 1 \in 0..N
    BY <1>1, <2>1, <2>2
  <2>4. n - 1 \notin Bad
    <3> HIDE DEF Bad
    <3> QED BY <1>1, <2>1, <2>3
  <2>5. u[n - 1] \subseteq W /\ u[n] = Reach(u[n - 1]) /\ u[n - 1] \in SUBSET ToSet(keys)
    BY <1>1, <2>3, <2>4
  <2>6. Reach(u[n - 1]) \subseteq W
    BY <2>5, ReachGrows
  <2> QED BY <2>1, <2>5, <2>6
<1>3. N \in 0..N
  BY <1>1
<1> QED BY <1>1, <1>2, <1>3

(* Whatever lies below j lies below what j lies below.                       *)
LEMMA DownIsTransitive ==
  ASSUME Planned, NEW k \in Key, NEW j \in Downstream(k)
  PROVE  j \in Key /\ Downstream(j) \subseteq Downstream(k)
<1>1. Downstream(k) \in SUBSET ToSet(keys) /\ Closed(Downstream(k))
  BY DownIsClosed
<1>2. j \in Key
  BY <1>1, KeysAreKeys
<1>3. deps[j] \subseteq Downstream(k)
  BY <1>1 DEF Closed
<1> QED BY <1>1, <1>2, <1>3, DownIsLeast
-----------------------------------------------------------------------------
(* A key that is placed hangs on no cycle: all it hangs on was placed before.*)
LEMMA PlacedIsAcyclic ==
  ASSUME Planned, order \in Seq(Key), DepsPrecede, NEW k \in Key, Contains(order, k)
  PROVE  ~Cyclic(k)
<1> DEFINE Before(n) == {order[m] : m \in 1..(n - 1)}
<1>1. Len(order) \in Nat /\ DOMAIN order = 1..Len(order) /\ \A n \in 1..Len(order) : order[n] \in Key
  OBVIOUS
<1>2. ASSUME NEW n \in 1..Len(order)
      PROVE  Downstream(order[n]) \subseteq Before(n) /\ order[n] \notin Downstream(order[n])
  <2>1. deps[order[n]] \subseteq Before(n) /\ order[n] \notin Before(n)
    BY <1>1 DEF DepsPrecede
  <2>2. Closed(Before(n))
    <3>1. ASSUME NEW m \in 1..(n - 1), NEW d \in deps[order[m]] PROVE d \in Before(n)
      <4>1. m \in DOMAIN order
        BY <1>1
      <4>2. PICK l \in 1..(m - 1) : order[l] = d
        BY <4>1 DEF DepsPrecede
      <4>3. l \in 1..(n - 1)
        BY <1>1
      <4> QED BY <4>2, <4>3
    <3> QED BY <3>1 DEF Closed
  <2>3. Downstream(order[n]) \subseteq Before(n)
    <3>1. order[n] \in Key
      BY <1>1
    <3> HIDE DEF Before
    <3> QED BY <2>1, <2>2, <3>1, DownIsLeast
  <2> QED BY <2>1, <2>3
<1>3. PICK n \in 1..Len(order) : order[n] = k
  BY DEF Contains
<1>4. ASSUME NEW j \in {k} \cup Downstream(k) PROVE j \notin Downstream(j)
  <2>1. \E m \in 1..Len(order) : order[m] = j
    <3>1. CASE j = k
      BY <1>3, <3>1
    <3>2. CASE j # k
      <4>1. j \in Before(n)
        BY <1>2, <1>3, <1>4, <3>2
      <4> QED BY <1>1, <4>1
    <3> QED BY <3>1, <3>2
  <2> QED BY <1>2, <2>1
<1> QED BY <1>4 DEF Cyclic

(* A key that is left out waits for another: of those it hangs on, the one   *)
(* that hangs on the fewest waits for one on a cycle.                        *)
LEMMA LeftOutHangs ==
  ASSUME Planned, \A m \in 1..Len(keys) : Waits(order, keys[m], deps),
         NEW k \in ToSet(keys), ~Contains(order, k)
  PROVE  Cyclic(k)
<1> DEFINE Below == {k} \cup Downstream(k)
           Out == {j \in Below : ~Contains(order, j)}
           Sizes == {Cardinality(Downstream(j)) : j \in Out}
<1>1. k \in Key
  BY KeysAreKeys
<1>2. \A j \in Below : j \in ToSet(keys) /\ j \in Key /\ Downstream(j) \subseteq Below
  BY <1>1, DownIsClosed, DownIsTransitive, KeysAreKeys
<1>3. \A j \in Below : IsFiniteSet(Downstream(j)) /\ Cardinality(Downstream(j)) \in Nat
  <2> SUFFICES ASSUME NEW j \in Below PROVE IsFiniteSet(Downstream(j)) /\ Cardinality(Downstream(j)) \in Nat
    OBVIOUS
  <2>1. Downstream(j) \subseteq ToSet(keys)
    <3> HIDE DEF Below
    <3> QED BY <1>2, DownIsClosed
  <2>2. IsFiniteSet(ToSet(keys))
    BY KeysAreFew DEF Planned
  <2> QED BY <2>1, <2>2, FS_Subset, FS_CardinalityType
<1>4. PICK j \in Out : \A i \in Out : Cardinality(Downstream(j)) <= Cardinality(Downstream(i))
  <2>1. Sizes \subseteq Nat /\ Sizes # {}
    <3>1. k \in Out
      OBVIOUS
    <3> HIDE DEF Below
    <3> QED BY <1>3, <3>1
  <2>2. PICK n \in Sizes : \A m \in Sizes : n <= m
    <3> HIDE DEF Sizes
    <3> QED BY <2>1, LeastOf
  <2> HIDE DEF Out
  <2> QED BY <2>2
<1>5. j \in Below /\ j \in ToSet(keys) /\ j \in Key /\ ~Contains(order, j)
  <2> HIDE DEF Below
  <2> QED BY <1>2
<1>6. PICK d \in deps[j] : ~Contains(order, d)
  <2>1. PICK m \in 1..Len(keys) : keys[m] = j
    BY <1>5 DEF ToSet, Planned
  <2> QED BY <1>5, <2>1 DEF Waits
<1>7. d \in Downstream(j) /\ Downstream(d) \subseteq Downstream(j)
  BY <1>5, DownIsClosed, DownIsTransitive
<1>8. d \in Out
  <2> HIDE DEF Below
  <2> QED BY <1>2, <1>5, <1>6, <1>7
<1>9. d \in Downstream(d)
  <2> SUFFICES ASSUME d \notin Downstream(d) PROVE FALSE
    OBVIOUS
  <2>1. Downstream(d) # Downstream(j)
    BY <1>7
  <2>2. d \in Below
    BY <1>8
  <2>3. Cardinality(Downstream(d)) < Cardinality(Downstream(j))
    <3>1. PICK down, less : down = Downstream(j) /\ less = Downstream(d)
      OBVIOUS
    <3>2. IsFiniteSet(down) /\ less \subseteq down /\ less # down
      <4> HIDE DEF Below
      <4> QED BY <1>3, <1>5, <1>7, <2>1, <3>1
    <3>3. Cardinality(less) < Cardinality(down)
      <4>1. /\ IsFiniteSet(less) /\ Cardinality(less) <= Cardinality(down)
            /\ Cardinality(less) = Cardinality(down) => less = down
        BY <3>2, FS_Subset
      <4>2. Cardinality(less) \in Nat /\ Cardinality(down) \in Nat
        BY <3>2, <4>1, FS_CardinalityType
      <4> QED BY <3>2, <4>1, <4>2
    <3> QED BY <3>1, <3>3
  <2>4. Cardinality(Downstream(j)) <= Cardinality(Downstream(d))
    <3> HIDE DEF Out
    <3> QED BY <1>4, <1>8
  <2>5. Cardinality(Downstream(d)) \in Nat /\ Cardinality(Downstream(j)) \in Nat
    <3> HIDE DEF Below
    <3> QED BY <1>3, <1>5, <2>2
  <2> QED BY <2>3, <2>4, <2>5
<1> QED BY <1>8, <1>9 DEF Cyclic

-----------------------------------------------------------------------------
(* For every key list and every dependency relation: the sort returns the    *)
(* order the passes compute, and what it leaves out is exactly what hangs on *)
(* a cycle, so an acyclic plan is never built in part (orderComponents,      *)
(* orchestrator.ts:167-184).                                                 *)
THEOREM LeftOutHangsOnACycle == Spec => []LeftOutIsCyclic
<1>1. Init => SortInv
  BY SortStarts
<1>2. TypeOK /\ DepsPrecede /\ SortInv /\ [Next]_vars => SortInv'
  <2> SUFFICES ASSUME TypeOK, DepsPrecede, SortInv, [Next]_vars PROVE SortInv'
    OBVIOUS
  <2>1. CASE Place
    BY <2>1, SortPlaces
  <2>2. CASE Pending
    BY <2>2, SortPasses
  <2>3. CASE NextPass
    BY <2>3, SortGoesOn
  <2>4. CASE Return
    BY <2>4, SortReturnsRight
  <2>5. CASE UNCHANGED vars
    BY <2>5 DEF SortInv, InStep, vars
  <2> QED BY <2>1, <2>2, <2>3, <2>4, <2>5 DEF Next
<1>3. TypeOK /\ DepsPrecede /\ SortInv => LeftOutIsCyclic
  <2> SUFFICES ASSUME TypeOK, DepsPrecede, SortInv, done = "yes" PROVE LeftOutIsCyclic
    BY DEF LeftOutIsCyclic
  <2>1. Planned
    BY KeyListsAssumption DEF Planned, TypeOK, SortInv
  <2>2. \A m \in 1..Len(keys) : Waits(order, keys[m], deps)
    BY DEF SortInv
  <2>3. ASSUME NEW k \in ToSet(keys) PROVE ~Contains(order, k) <=> Cyclic(k)
    <3>1. k \in Key
      BY <2>1, KeysAreKeys
    <3>2. CASE Contains(order, k)
      BY <2>1, <3>1, <3>2, PlacedIsAcyclic DEF TypeOK
    <3>3. CASE ~Contains(order, k)
      BY <2>1, <2>2, <3>3, LeftOutHangs
    <3> QED BY <3>2, <3>3
  <2>4. order = OrderOf(keys, deps)
    BY DEF SortInv
  <2> QED BY <2>3, <2>4 DEF LeftOutIsCyclic, Unplaced
<1>4. Spec => []TypeOK
  BY SortIsTyped
<1>5. Spec => []DepsPrecede
  BY OrderRespectsDeps
<1> QED BY <1>1, <1>2, <1>3, <1>4, <1>5, PTL DEF Spec

=============================================================================
