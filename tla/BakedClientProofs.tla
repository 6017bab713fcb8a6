-------------------------- MODULE BakedClientProofs --------------------------
(***************************************************************************)
(* The clients of a project, for any number of aliases, directories and    *)
(* versions, any gates and breaks, and any runs beside each other.         *)
(*                                                                         *)
(* The argument: whatever a run holds is well formed on its own (Sound),   *)
(* pins and schemas included, so that every file it ever writes is; and    *)
(* while nobody has written beside it, what it read is still what is there *)
(* (Tame), or, if nothing at all has changed, what it found at each path   *)
(* is what it will overwrite (Calm).  Inv is inductive, and the properties *)
(* of BakedClient follow from it; what a run reports needs two invariants  *)
(* beside it, of what a verify has asked (Checked) and of what a sync has  *)
(* planned (Reported), for as long as nothing else changes.                *)
(***************************************************************************)
EXTENDS BakedClient, Integers, WellFoundedInduction, TLAPS

-----------------------------------------------------------------------------
(* Recursion over 0..N: a least number, N steps that stay in a set, and      *)
(* functions that go on alike.                                               *)

(* A set of natural numbers has a least one.                                *)
LEMMA LeastOf ==
  ASSUME NEW T, T \subseteq Nat, T # {}
  PROVE  \E n \in T : \A m \in T : n <= m
<1> DEFINE R == {p \in Nat \X Nat : p[1] < p[2]}
<1>1. IsWellFoundedOn(R, Nat)
  <2>1. IsWellFoundedOn(OpToRel(<, Nat), Nat)
    BY NatLessThanWellFounded, Zenon
  <2>2. OpToRel(<, Nat) = R
    BY Zenon DEF OpToRel
  <2> QED BY <2>1, <2>2
<1>2. PICK n \in T : \A m \in T : ~(<<m, n>> \in R)
  <2> HIDE DEF R
  <2> QED BY <1>1, WFMin, Zenon
<1>3. ASSUME NEW m \in T, m < n PROVE <<m, n>> \in R
  <2>1. <<m, n>> \in Nat \X Nat /\ <<m, n>>[1] = m /\ <<m, n>>[2] = n
    OBVIOUS
  <2> QED BY <1>3, <2>1
<1>4. \A m \in T : ~(m < n)
  <2> HIDE DEF R
  <2> QED BY <1>2, <1>3, Zenon
<1> QED BY <1>4

(* N steps inside S, and what they make of a.                                *)
Steps(S, N) == [1..N -> [S -> S]]

Traces(S, a, N, do) ==
  {f \in [0..N -> S] : f[0] = a /\ \A n \in 1..N : f[n] = do[n][f[n - 1]]}

(* Steps have a result, and it stays where every step stays.                 *)
LEMMA Repeated ==
  ASSUME NEW S, NEW a \in S, NEW N \in Nat, NEW do \in Steps(S, N)
  PROVE  \E f : f \in Traces(S, a, N, do)
<1> USE DEF Steps, Traces
<1> DEFINE Upto(n, f) == f \in [0..n -> S] /\ f[0] = a /\ \A m \in 1..n : f[m] = do[m][f[m - 1]]
           Bad == {n \in 0..N : ~ \E f : Upto(n, f)}
<1>1. Bad = {}
  <2> SUFFICES ASSUME Bad # {} PROVE FALSE
    OBVIOUS
  <2>1. PICK n \in Bad : \A m \in Bad : n <= m
    <3>1. Bad \subseteq Nat
      OBVIOUS
    <3> HIDE DEF Bad
    <3> QED BY <3>1, LeastOf
  <2>2. n # 0
    <3>1. Upto(0, [m \in 0..0 |-> a])
      OBVIOUS
    <3> QED BY <3>1
  <2>3. n - 1 \in 0..N /\ n - 1 \notin Bad
    <3>1. n \in 0..N
      OBVIOUS
    <3> HIDE DEF Bad
    <3> QED BY <2>1, <2>2, <3>1
  <2>4. PICK f : Upto(n - 1, f)
    BY <2>3
  <2> DEFINE g == [m \in 0..n |-> IF m = n THEN do[n][f[n - 1]] ELSE f[m]]
  <2>5. n \in 1..N /\ f[n - 1] \in S /\ do[n] \in [S -> S]
    BY <2>2, <2>3, <2>4
  <2>6. g \in [0..n -> S]
    BY <2>4, <2>5
  <2>7. g[0] = a
    BY <2>4, <2>5
  <2>8. ASSUME NEW m \in 1..n PROVE g[m] = do[m][g[m - 1]]
    BY <2>4, <2>5
  <2> QED BY <2>1, <2>6, <2>7, <2>8
<1>2. \E f : Upto(N, f)
  <2>1. N \in 0..N
    OBVIOUS
  <2> HIDE DEF Upto
  <2> QED BY <1>1, <2>1
<1> QED BY <1>2

(* Two functions that start alike and go on alike are alike.                 *)
GoAlike(N, f, g) == f[0] = g[0] /\ \A n \in 1..N : f[n - 1] = g[n - 1] => f[n] = g[n]
Alike(N, f, g)   == \A n \in 0..N : f[n] = g[n]

LEMMA StayAlike ==
  ASSUME NEW N \in Nat, NEW f, NEW g, GoAlike(N, f, g)
  PROVE  Alike(N, f, g)
<1> USE DEF GoAlike, Alike
<1> DEFINE Bad == {n \in 0..N : g[n] # f[n]}
<1> SUFFICES ASSUME Bad # {} PROVE FALSE
  OBVIOUS
<1>1. PICK n \in Bad : \A m \in Bad : n <= m
  <2>1. Bad \subseteq Nat
    OBVIOUS
  <2> HIDE DEF Bad
  <2> QED BY <2>1, LeastOf
<1>2. n \in 1..N
  OBVIOUS
<1>3. n - 1 \in 0..N /\ n - 1 \notin Bad
  BY <1>1, <1>2
<1> QED BY <1>2, <1>3

-----------------------------------------------------------------------------
(* The inductive invariant.                                                  *)

Phases == {"idle", "ask", "fetch", "entries", "entry", "pins", "plan", "commit", "done", "failed"}
Active == {"ask", "fetch", "entries", "entry", "pins", "plan", "commit"}
Nobody == [kind |-> "none"]
Finds  == {"local", "pending", "vanished", "unreachable", "unsure"}
Finding == SUBSET Finds
Jobs(t) == Commands[t] \cup {Nobody}
Locks   == [AliasSet -> Entry]
Turns   == Seq(AliasSet)
Plans   == Seq(Op)
Reports == [AliasSet -> Statuses]

RunRecord(t) ==
  [pc : Phases, cmd : Jobs(t), lock : Locks, next : Locks, todo : Turns,
   judged : Nat, upTo : Nat, seen : Nat, have : File, where : DirSet,
   ops : Plans, lockMode : Modes, status : Reports, found : Finding]

(* A file that calls a version by number has its types; only a client can be *)
(* an edited client.                                                         *)
FileOK(f) ==
  /\ f.edited = "yes" => f.kind = "generated"
  /\ f.kind = "generated" /\ f.version # 0 => f.version \in Versions /\ f.schema = Hash[f.version]

(* A pinned entry has the contract of its version.                           *)
EntryOK(e) == e.pin # 0 => e.pin \in Versions /\ e.hash = Hash[e.pin]
LockOK(l)  == \A a \in AliasSet : EntryOK(l[a])

(* The contract that a run takes an alias to.                                *)
Taken(q, a) ==
  IF /\ q.cmd.kind = "sync" /\ q.lock[a].pin # 0
     /\ q.lock[a].hash = Hash[q.seen] \/ q.cmd.moves = "no"
  THEN q.lock[a].hash ELSE Hash[q.seen]

(* Before the contract is fetched there is nothing to write.                 *)
Early(q) == q.pc \in {"ask", "fetch", "pins"} \/ (q.pc = "entries" /\ q.cmd.kind = "add")

PhaseOK(q) ==
  /\ q.pc \in Active => q.cmd # Nobody
  /\ Early(q) => q.ops = << >> /\ q.next = q.lock
  /\ q.pc = "ask" => q.cmd.kind \in {"sync", "verify"}
  /\ q.pc = "fetch" => q.cmd.kind \in {"add", "sync"}
  /\ q.pc \in {"entries", "entry", "plan", "commit"} =>
       q.cmd.kind \in {"add", "sync"} /\ q.seen \in Versions
  /\ q.pc = "entry" => q.cmd.kind = "sync" /\ q.todo # << >>

(* Every file of the plan is a client of the contract its alias is taken to. *)
OpsOK(q) ==
  \A n \in DOMAIN q.ops :
    LET o == q.ops[n]
    IN  /\ FileOK(o.file) /\ o.file.kind = "generated" /\ o.file.edited = "no"
        /\ o.file.hash = Taken(q, o.at[1]) /\ o.file.schema = Taken(q, o.at[1])

(* What the plan does to the entries, and with whose word.                   *)
NextOK(q) ==
  q.pc \in Active =>
    \A a \in AliasSet :
      /\ q.next[a] # q.lock[a] => q.next[a].hash = Taken(q, a)
      /\ q.cmd.kind = "sync" /\ q.cmd.moves = "no" => q.next[a].pin = q.lock[a].pin
      /\ q.cmd.kind = "sync" /\ q.next[a].hash # q.lock[a].hash =>
           q.judged # 0 /\ (q.cmd.accept = "yes" \/ ~Crosses(Gated, q.judged, q.upTo))

Sound(q) == LockOK(q.lock) /\ LockOK(q.next) /\ PhaseOK(q) /\ OpsOK(q) /\ NextOK(q)

(* Nobody has written beside the run: swfte.json is as it read it, and what  *)
(* a plain sync will write breaks no client that swfte.json is not past.     *)
HaveTame(q) ==
  q.pc = "entry" =>
    LET p == <<Head(q.todo), q.where>>
    IN  Generated(p) => q.have.kind = "generated" /\ q.have.schema = client[p].schema

OpsTame(q) ==
  q.cmd.kind = "sync" /\ q.cmd.breaks = "no" =>
    \A n \in DOMAIN q.ops :
      LET o == q.ops[n]
      IN  Generated(o.at) =>
            \A h \in Breaking : client[o.at].schema < h /\ h <= o.file.schema => h <= q.lock[o.at[1]].hash

Tame(r, q) ==
  Undisturbed(r) /\ q.pc \in Active => lock = q.lock /\ HaveTame(q) /\ OpsTame(q)

(* Nothing has changed: what the run found is there still, edits are only    *)
(* replaced with force, and what it will say of an entry its client says, or *)
(* will say by then.                                                         *)
HaveCalm(q) ==
  q.pc = "entry" =>
    LET p == <<Head(q.todo), q.where>>
    IN  Generated(p) => q.have = client[p]

OpsCalm(q) ==
  \A n \in DOMAIN q.ops :
    LET o == q.ops[n]
    IN  /\ o.mode = "unchanged" => client[o.at].hash = o.file.hash
        /\ \/ q.cmd.force = "yes" \/ o.mode = "unchanged"
           \/ client[o.at].edited = "no" /\ ~(client[o.at].kind = "own" /\ q.cmd.kind = "add")

NextCalm(q) ==
  \A a \in AliasSet : q.next[a] # q.lock[a] =>
    \E d \in q.next[a].files :
      \/ client[<<a, d>>].hash = q.next[a].hash
      \/ \E n \in DOMAIN q.ops : q.ops[n].at = <<a, d>>

Calm(r, q) ==
  r \in steady /\ q.pc \in Active => HaveCalm(q) /\ OpsCalm(q) /\ NextCalm(q)

WorldOK ==
  /\ task \in Tasks
  /\ latest \in Versions /\ published \subseteq 1..latest
  /\ lock \in Locks /\ LockOK(lock)
  /\ torn \in {"yes", "no"}
  /\ client \in [Paths -> File] /\ \A p \in Paths : FileOK(client[p])
  /\ steady \subseteq Runs[task]
  /\ changes \in 0..MaxChanges[task]

RunsOK == run \in [Runs[task] -> RunRecord(task)] /\ \A r \in Runs[task] : Sound(run[r])

Fits(r) == Tame(r, run[r]) /\ Calm(r, run[r])
RunsFit == \A r \in Runs[task] : Fits(r)

Inv == WorldOK /\ RunsOK /\ RunsFit

-----------------------------------------------------------------------------
(* What the constants and the helpers give.                                  *)

LEMMA HashFacts ==
  /\ Len(Hash) \in Nat \ {0} /\ Versions = 1..Len(Hash) /\ 1 \in Versions
  /\ \A v \in Versions : Hash[v] \in Nat
<1>1. Hash \in Seq(Nat \ {0}) /\ Hash # << >>
  BY HashAssumption
<1>2. Len(Hash) \in Nat \ {0} /\ DOMAIN Hash = 1..Len(Hash) /\ \A v \in 1..Len(Hash) : Hash[v] \in Nat \ {0}
  BY <1>1
<1> QED BY <1>2 DEF Versions

LEMMA FilesFit ==
  /\ Dirs[1] \in DirSet
  /\ NoFile \in File /\ OwnFile \in File /\ TornFile \in File
  /\ FileOK(NoFile) /\ FileOK(OwnFile) /\ FileOK(TornFile)
  /\ NoEntry \in Entry /\ EntryOK(NoEntry)
<1>1. Dirs[1] \in DirSet
  BY ProjectAssumption DEF DirSet, ToSet
<1> QED BY <1>1 DEF File, NoFile, OwnFile, TornFile, FileOK, Entry, NoEntry, EntryOK

LEMMA IdleFits ==
  ASSUME NEW t \in Tasks
  PROVE  Idle \in RunRecord(t) /\ Sound(Idle)
<1>1. [a \in AliasSet |-> NoEntry] \in Locks /\ LockOK([a \in AliasSet |-> NoEntry])
  BY FilesFit DEF Locks, LockOK
<1>2. [a \in AliasSet |-> "none"] \in Reports
  BY DEF Reports, Statuses
<1>3. << >> \in Turns /\ << >> \in Plans /\ {} \in Finding /\ [kind |-> "none"] \in Jobs(t)
  BY DEF Turns, Plans, Finding, Jobs, Nobody
<1>4. Idle \in RunRecord(t)
  BY <1>1, <1>2, <1>3, FilesFit DEF Idle, RunRecord, Phases, Modes
<1>5. Sound(Idle)
  BY <1>1 DEF Idle, Sound, PhaseOK, Early, Active, OpsOK, NextOK
<1> QED BY <1>4, <1>5

(* The path of an entry's client lies in one of the directories, and what is *)
(* found there is the client if one is there.                                *)
LEMMA DirChosen ==
  ASSUME NEW a \in AliasSet, NEW e \in Entry
  PROVE  ClientDir(a, e) \in DirSet
<1> DEFINE listed == Found(a, e) \cap e.files
           First(n) == Dirs[n] \in listed /\ \A m \in 1..(n - 1) : Dirs[m] \notin listed
           T == {n \in DOMAIN Dirs : Dirs[n] \in listed}
<1>1. e.dir \in DirSet /\ e.files \subseteq DirSet
  BY DEF Entry
<1>2. CASE listed = {}
  BY <1>1, <1>2 DEF ClientDir
<1>3. CASE listed # {}
  <2>1. T \subseteq Nat /\ T # {}
    BY <1>1, <1>3, ProjectAssumption DEF DirSet, ToSet
  <2>2. PICK n \in T : \A m \in T : n <= m
    <3> HIDE DEF T
    <3> QED BY <2>1, LeastOf
  <2>3. n \in DOMAIN Dirs /\ First(n)
    BY <2>2, ProjectAssumption
  <2>4. (CHOOSE k \in DOMAIN Dirs : First(k)) \in DOMAIN Dirs
    <3> HIDE DEF First
    <3> QED BY <2>3
  <2>5. ClientDir(a, e) = Dirs[CHOOSE k \in DOMAIN Dirs : First(k)]
    BY <1>3 DEF ClientDir
  <2> QED BY <2>4, <2>5 DEF DirSet, ToSet
<1> QED BY <1>2, <1>3

LEMMA FoundThere ==
  ASSUME NEW a \in AliasSet, NEW e \in Entry, client \in [Paths -> File]
  PROVE  /\ Current(a, e) \in File
         /\ Generated(<<a, ClientDir(a, e)>>) => Current(a, e) = client[<<a, ClientDir(a, e)>>]
<1>1. <<a, ClientDir(a, e)>> \in Paths
  BY DirChosen DEF Paths
<1>2. Current(a, e) \in File
  BY <1>1, FilesFit DEF Current
<1>3. Found(a, e) = {} => ClientDir(a, e) = e.dir /\ ~Generated(<<a, e.dir>>)
  BY DEF ClientDir, Found
<1> QED BY <1>2, <1>3 DEF Current

LEMMA PlannedFits ==
  ASSUME NEW p \in Paths, NEW f \in File
  PROVE  /\ Planned(p, f) \in Op /\ Planned(p, f).at = p /\ Planned(p, f).file = f
         /\ Planned(p, f).mode = "unchanged" <=> client[p].kind # "none" /\ client[p] = f
BY DEF Planned, PlannedMode, Op, Modes

LEMMA LockModeFits == \A l : LockMode(l) \in Modes
BY DEF LockMode, Modes

LEMMA RenderedFits ==
  ASSUME NEW h \in Nat, NEW v \in Nat, NEW s \in Nat
  PROVE  /\ Rendered(h, v, s) \in File
         /\ Rendered(h, v, s).kind = "generated" /\ Rendered(h, v, s).edited = "no"
         /\ Rendered(h, v, s).hash = h /\ Rendered(h, v, s).version = v /\ Rendered(h, v, s).schema = s
BY DEF Rendered, File

(* An alias that is not in a sequence, at its end.                           *)
LEMMA AppendedOnce ==
  ASSUME NEW S, NEW s \in Seq(S), NEW x \in S, x \notin ToSet(s), IsInjective(s)
  PROVE  ToSet(Append(s, x)) = ToSet(s) \cup {x} /\ IsInjective(Append(s, x))
<1> DEFINE t == Append(s, x)
           N == Len(s)
<1>1. /\ N \in Nat /\ DOMAIN s = 1..N /\ DOMAIN t = 1..(N + 1)
      /\ t[N + 1] = x /\ \A n \in 1..N : t[n] = s[n]
  OBVIOUS
<1>2. \A n \in 1..N : s[n] # x
  BY <1>1 DEF ToSet
<1>3. \A n, m \in 1..N : s[n] = s[m] => n = m
  BY <1>1 DEF IsInjective
<1> HIDE DEF t, N
<1>4. \A n \in 1..(N + 1) : n \in 1..N \/ n = N + 1
  BY <1>1
<1>5. ToSet(t) = ToSet(s) \cup {x}
  <2>1. \A y \in ToSet(t) : y \in ToSet(s) \cup {x}
    BY <1>1, <1>4 DEF ToSet
  <2>2. \A y \in ToSet(s) : y \in ToSet(t)
    BY <1>1 DEF ToSet
  <2>3. x \in ToSet(t)
    BY <1>1 DEF ToSet
  <2> QED BY <2>1, <2>2, <2>3
<1>6. ASSUME NEW n \in DOMAIN t, NEW m \in DOMAIN t, t[n] = t[m] PROVE n = m
  BY <1>1, <1>2, <1>3, <1>4, <1>6
<1>7. IsInjective(t)
  BY <1>6 DEF IsInjective
<1> QED BY <1>5, <1>7 DEF t

(* What follows the first of a sequence.                                     *)
LEMMA TailOnce ==
  ASSUME NEW S, NEW s \in Seq(S), s # << >>
  PROVE  /\ Head(s) \in ToSet(s) /\ ToSet(s) \subseteq S
         /\ ToSet(s) = {Head(s)} \cup ToSet(Tail(s))
         /\ IsInjective(s) => Head(s) \notin ToSet(Tail(s)) /\ IsInjective(Tail(s))
<1>1. Tail(s) \in Seq(S) /\ Len(Tail(s)) = Len(s) - 1 /\ \A n \in 1..(Len(s) - 1) : Tail(s)[n] = s[n + 1]
  OBVIOUS
<1>2. Head(s) = s[1] /\ 1 \in DOMAIN s /\ DOMAIN s = 1..Len(s) /\ DOMAIN Tail(s) = 1..(Len(s) - 1)
  BY <1>1
<1>3. ToSet(s) \subseteq {Head(s)} \cup ToSet(Tail(s))
  <2> SUFFICES ASSUME NEW n \in 1..Len(s), n # 1 PROVE s[n] \in ToSet(Tail(s))
    BY <1>2 DEF ToSet
  <2>1. n - 1 \in 1..(Len(s) - 1) /\ Tail(s)[n - 1] = s[n]
    BY <1>1
  <2> QED BY <1>2, <2>1 DEF ToSet
<1>4. ToSet(Tail(s)) \subseteq ToSet(s)
  BY <1>1, <1>2 DEF ToSet
<1>5. ASSUME IsInjective(s) PROVE Head(s) \notin ToSet(Tail(s)) /\ IsInjective(Tail(s))
  BY <1>1, <1>2, <1>5 DEF ToSet, IsInjective
<1>6. Head(s) \in ToSet(s) /\ ToSet(s) \subseteq S
  BY <1>2 DEF ToSet
<1> QED BY <1>3, <1>4, <1>5, <1>6

(* The entries that a run is asked about, one alias after the other.         *)
Chosen(c) == {a \in Entries(lock) : c.kind = "verify" \/ c.of = {} \/ a \in c.of}

Gathers(c, f) ==
  /\ f \in [0..Len(Aliases) -> Turns] /\ f[0] = << >>
  /\ \A n \in 1..Len(Aliases) :
       f[n] = IF Aliases[n] \in Chosen(c) THEN Append(f[n - 1], Aliases[n]) ELSE f[n - 1]

LEMMA TargetsGather ==
  ASSUME NEW c PROVE \E f : Gathers(c, f) /\ Targets(c) = f[Len(Aliases)]
<1> DEFINE chosen == Chosen(c)
           N == Len(Aliases)
           Longer(s, n) == IF Aliases[n] \in chosen THEN Append(s, Aliases[n]) ELSE s
           do == [n \in 1..N |-> [s \in Turns |-> Longer(s, n)]]
           Rec(f) == f = [n \in 0..N |-> IF n = 0 THEN << >> ELSE Longer(f[n - 1], n)]
<1>1. N \in Nat /\ \A n \in 1..N : Aliases[n] \in AliasSet
  BY ProjectAssumption
<1>2. do \in Steps(Turns, N)
  <2>1. ASSUME NEW n \in 1..N, NEW s \in Turns PROVE Longer(s, n) \in Turns
    BY <1>1 DEF Turns
  <2> HIDE DEF Longer
  <2> QED BY <2>1 DEF Steps
<1>3. PICK f : f \in Traces(Turns, << >>, N, do)
  <2>1. N \in Nat /\ << >> \in Turns
    BY <1>1 DEF Turns
  <2> HIDE DEF do, N
  <2> QED BY <1>2, <2>1, Repeated, Zenon
<1>4. Rec(f)
  <2>1. ASSUME NEW n \in 1..N PROVE f[n] = Longer(f[n - 1], n)
    <3>1. f[n - 1] \in Turns /\ f[n] = do[n][f[n - 1]]
      <4> HIDE DEF do
      <4> QED BY <1>1, <1>3 DEF Traces
    <3>2. do[n] = [s \in Turns |-> Longer(s, n)]
      OBVIOUS
    <3> HIDE DEF do, Rec, Longer
    <3> QED BY <3>1, <3>2
  <2> HIDE DEF do, Longer
  <2> QED BY <1>1, <1>3, <2>1 DEF Traces
<1>5. ASSUME NEW g, Rec(g) PROVE g = f
  <2> HIDE DEF Longer
  <2>1. f[0] = g[0]
    BY <1>1, <1>4, <1>5
  <2>2. ASSUME NEW n \in 1..N, f[n - 1] = g[n - 1] PROVE f[n] = g[n]
    <3>1. n \in 0..N /\ n # 0
      BY <1>1
    <3>2. f[n] = Longer(f[n - 1], n) /\ g[n] = Longer(g[n - 1], n)
      BY <1>4, <1>5, <3>1
    <3> QED BY <2>2, <3>2
  <2>3. \A n \in 0..N : f[n] = g[n]
    <3>1. N \in Nat /\ GoAlike(N, f, g)
      BY <1>1, <2>1, <2>2 DEF GoAlike
    <3>2. Alike(N, f, g)
      <4> HIDE DEF N, do, Rec
      <4> QED BY <3>1, StayAlike, Zenon
    <3> QED BY <3>2 DEF Alike
  <2> QED BY <1>1, <1>3, <1>5, <2>3 DEF Traces
<1>6. Targets(c) = f[N]
  <2> DEFINE u == CHOOSE g : Rec(g)
  <2>1. Rec(u)
    BY <1>4, Zenon
  <2>2. Targets(c) = u[N]
    BY DEF Targets, Chosen
  <2> QED BY <1>5, <2>1, <2>2, Zenon
<1>7. Gathers(c, f)
  <2>1. f \in [0..N -> Turns] /\ f[0] = << >>
    BY <1>3 DEF Traces
  <2>2. ASSUME NEW n \in 1..N PROVE f[n] = Longer(f[n - 1], n)
    <3>1. n \in 0..N /\ n # 0
      BY <1>1
    <3> HIDE DEF Longer
    <3> QED BY <1>4, <3>1
  <2> QED BY <2>1, <2>2 DEF Gathers
<1> QED BY <1>6, <1>7

(* It is asked about aliases that are there, about each of them once.        *)
LEMMA TargetsFit ==
  ASSUME NEW c
  PROVE  Targets(c) \in Turns /\ ToSet(Targets(c)) = Chosen(c) /\ IsInjective(Targets(c))
<1> DEFINE N == Len(Aliases)
           upTo(n) == {Aliases[m] : m \in 1..n}
           Good(s, n) == ToSet(s) = Chosen(c) \cap upTo(n) /\ IsInjective(s)
<1>1. /\ N \in Nat /\ \A n \in 1..N : Aliases[n] \in AliasSet
      /\ \A n, m \in 1..N : Aliases[n] = Aliases[m] => n = m
  BY ProjectAssumption DEF IsInjective
<1>2. PICK f : Gathers(c, f) /\ Targets(c) = f[N]
  BY TargetsGather
<1>3. Good(f[0], 0)
  BY <1>2 DEF Gathers, ToSet, IsInjective
<1>4. ASSUME NEW n \in 1..N, Good(f[n - 1], n - 1) PROVE Good(f[n], n)
  <2> DEFINE s == f[n - 1]
             x == Aliases[n]
  <2>1. s \in Seq(AliasSet) /\ f[n] = (IF x \in Chosen(c) THEN Append(s, x) ELSE s)
    BY <1>1, <1>2 DEF Gathers, Turns
  <2>2. upTo(n) = upTo(n - 1) \cup {x} /\ x \notin upTo(n - 1)
    BY <1>1
  <2>3. CASE x \in Chosen(c)
    <3>1. f[n] = Append(s, x) /\ x \notin ToSet(s)
      BY <1>4, <2>1, <2>2, <2>3
    <3>2. x \in AliasSet
      BY <1>1
    <3>3. ToSet(Append(s, x)) = ToSet(s) \cup {x} /\ IsInjective(Append(s, x))
      <4> HIDE DEF s, x
      <4> QED BY <1>4, <2>1, <3>1, <3>2, AppendedOnce DEF s
    <3> QED BY <1>4, <2>2, <2>3, <3>1, <3>3
  <2>4. CASE x \notin Chosen(c)
    BY <1>4, <2>1, <2>2, <2>4
  <2> QED BY <2>3, <2>4
<1>5. \A n \in 0..N : Good(f[n], n)
  <2> DEFINE Bad == {n \in 0..N : ~Good(f[n], n)}
  <2> HIDE DEF Good
  <2> SUFFICES ASSUME Bad # {} PROVE FALSE
    OBVIOUS
  <2>1. PICK n \in Bad : \A m \in Bad : n <= m
    <3>1. Bad \subseteq Nat
      BY <1>1
    <3> HIDE DEF Bad
    <3> QED BY <3>1, LeastOf
  <2>2. n \in 1..N /\ n - 1 \in 0..N
    BY <1>1, <1>3
  <2>3. n - 1 \notin Bad
    BY <2>1, <2>2
  <2> QED BY <1>4, <2>2, <2>3
<1>6. Chosen(c) \subseteq upTo(N)
  BY DEF Chosen, Entries, AliasSet, ToSet
<1>7. Targets(c) \in Turns /\ Good(f[N], N)
  BY <1>1, <1>2, <1>5 DEF Gathers
<1> QED BY <1>2, <1>6, <1>7

-----------------------------------------------------------------------------
(* The records a run goes through.                                           *)

(* What decides what a run will write is as it was.                          *)
SameTask(q, w) == w.cmd = q.cmd /\ w.lock = q.lock
SamePlan(q, w) == w.ops = q.ops /\ w.next = q.next
SameSeen(q, w) == w.seen = q.seen /\ w.judged = q.judged /\ w.upTo = q.upTo
SamePlace(q, w) == w.have = q.have /\ w.where = q.where /\ w.todo = q.todo

LEMMA PhaseRecord ==
  ASSUME NEW t \in Tasks, NEW q \in RunRecord(t), NEW v \in Phases
  PROVE  LET w == [q EXCEPT !.pc = v]
         IN  /\ w \in RunRecord(t) /\ w.pc = v
             /\ SameTask(q, w) /\ SamePlan(q, w) /\ SameSeen(q, w) /\ SamePlace(q, w)
BY DEF RunRecord, SameTask, SamePlan, SameSeen, SamePlace

LEMMA AddedRecord ==
  ASSUME NEW t \in Tasks, NEW q \in RunRecord(t), NEW v \in Phases, NEW o \in Plans,
         NEW n \in Locks, NEW m \in Modes
  PROVE  LET w == [q EXCEPT !.pc = v, !.ops = o, !.next = n, !.lockMode = m]
         IN  /\ w \in RunRecord(t) /\ w.pc = v /\ w.ops = o /\ w.next = n
             /\ SameTask(q, w) /\ SameSeen(q, w)
BY DEF RunRecord, SameTask, SameSeen

LEMMA NextRecord ==
  ASSUME NEW t \in Tasks, NEW q \in RunRecord(t), q.todo # << >>, NEW s \in Statuses
  PROVE  LET w == NextEntry(q, s)
         IN  /\ w \in RunRecord(t) /\ w.pc = "entries"
             /\ SameTask(q, w) /\ SamePlan(q, w) /\ SameSeen(q, w)
<1> DEFINE td == Tail(q.todo)
           st == [q.status EXCEPT ![Head(q.todo)] = s]
           v  == "entries"
           d  == Dirs[1]
<1>1. td \in Turns
  BY DEF RunRecord, Turns
<1>2. st \in Reports
  BY DEF RunRecord, Reports
<1>3. v \in Phases /\ NoFile \in File /\ d \in DirSet
  BY FilesFit DEF Phases
<1>4. NextEntry(q, s) =
        [q EXCEPT !.pc = v, !.todo = td, !.have = NoFile, !.where = d, !.status = st]
  BY DEF NextEntry
<1> HIDE DEF td, st, v, d
<1> DEFINE w == [q EXCEPT !.pc = v, !.todo = td, !.have = NoFile, !.where = d, !.status = st]
<1>5. w \in RunRecord(t) /\ w.pc = v /\ SameTask(q, w) /\ SamePlan(q, w) /\ SameSeen(q, w)
  BY <1>1, <1>2, <1>3 DEF RunRecord, SameTask, SamePlan, SameSeen
<1>6. NextEntry(q, s) = w
  BY <1>4
<1> HIDE DEF w
<1> QED BY <1>5, <1>6 DEF v

LEMMA TakenRecord ==
  ASSUME NEW t \in Tasks, NEW q \in RunRecord(t), NEW o \in Plans, NEW n \in Locks
  PROVE  LET w == [q EXCEPT !.ops = o, !.next = n]
         IN  /\ w \in RunRecord(t) /\ w.pc = q.pc /\ w.ops = o /\ w.next = n
             /\ SameTask(q, w) /\ SameSeen(q, w)
BY DEF RunRecord, SameTask, SameSeen

LEMMA PlannedRecord ==
  ASSUME NEW t \in Tasks, NEW q \in RunRecord(t), NEW v \in Phases, NEW m \in Modes
  PROVE  LET w == [q EXCEPT !.pc = v, !.lockMode = m]
         IN  /\ w \in RunRecord(t) /\ w.pc = v
             /\ SameTask(q, w) /\ SamePlan(q, w) /\ SameSeen(q, w)
BY DEF RunRecord, SameTask, SamePlan, SameSeen

LEMMA PinsRecord ==
  ASSUME NEW t \in Tasks, NEW q \in RunRecord(t), NEW td \in Turns, NEW s \in Finding
  PROVE  LET w == [q EXCEPT !.todo = td, !.found = s]
         IN  /\ w \in RunRecord(t) /\ w.pc = q.pc /\ SameTask(q, w) /\ SamePlan(q, w)
BY DEF RunRecord, SameTask, SamePlan

LEMMA WrittenRecord ==
  ASSUME NEW t \in Tasks, NEW q \in RunRecord(t), NEW o \in Plans
  PROVE  LET w == [q EXCEPT !.ops = o]
         IN  /\ w \in RunRecord(t) /\ w.pc = q.pc /\ w.ops = o /\ w.next = q.next
             /\ SameTask(q, w) /\ SameSeen(q, w)
BY DEF RunRecord, SameTask, SameSeen

LEMMA OverRecord ==
  ASSUME NEW t \in Tasks, NEW q \in RunRecord(t), NEW v \in {"done", "failed"}
  PROVE  LET w == Over(q, v)
         IN  w \in RunRecord(t) /\ w.pc = v /\ w.ops = << >> /\ Sound(w)
<1>1. Idle \in RunRecord(t) /\ Sound(Idle)
  BY IdleFits
<1>2. v \in Phases /\ v \notin Active
  BY DEF Phases, Active
<1>3. Idle.ops = << >>
  BY DEF Idle
<1> DEFINE w == [Idle EXCEPT !.pc = v, !.cmd = q.cmd, !.status = q.status, !.found = q.found]
<1>4. /\ w \in RunRecord(t) /\ w.pc = v /\ w.ops = << >>
      /\ w.lock = Idle.lock /\ w.next = Idle.next
  BY <1>1, <1>2, <1>3 DEF RunRecord
<1>5. Over(q, v) = w
  BY DEF Over
<1>6. LockOK(w.lock) /\ LockOK(w.next)
  BY <1>1, <1>4 DEF Sound
<1>7. Sound(w)
  <2> HIDE DEF w
  <2> QED BY <1>2, <1>4, <1>6 DEF Sound, PhaseOK, Early, Active, OpsOK, NextOK
<1> QED BY <1>4, <1>5, <1>7

-----------------------------------------------------------------------------
(* Steps of one run that leave everything else alone.                        *)

Still == UNCHANGED <<task, latest, published, lock, torn, client, steady, changes>>

LEMMA RunGoes ==
  ASSUME Inv, NEW r \in Runs[task], NEW w \in RunRecord(task),
         Sound(w), Tame(r, w), Calm(r, w), Go(r, w), Still
  PROVE  Inv'
<1>1. WorldOK'
  BY DEF Inv, WorldOK, Still, Generated
<1>2. task' = task /\ DOMAIN run = Runs[task] /\ run' = [run EXCEPT ![r] = w]
  BY DEF Inv, RunsOK, Still, Go
<1>3. \A s \in Runs[task] : run'[s] = IF s = r THEN w ELSE run[s]
  BY <1>2
<1>4. RunsOK'
  <2>1. run' \in [Runs[task] -> RunRecord(task)]
    BY <1>2 DEF Inv, RunsOK
  <2>2. \A s \in Runs[task] : Sound(run'[s])
    BY <1>3 DEF Inv, RunsOK
  <2> QED BY <1>2, <2>1, <2>2 DEF RunsOK
<1>5. \A s \in Runs[task] : Tame(s, run'[s]) /\ Calm(s, run'[s])
  BY <1>3 DEF Inv, RunsFit, Fits
<1>6. ASSUME NEW s \in Runs[task] PROVE Tame(s, run[s])' /\ Calm(s, run[s])'
  <2>1. Tame(s, run'[s]) /\ Calm(s, run'[s])
    BY <1>5
  <2>2. Tame(s, run[s])'
    BY <2>1 DEF Still, Tame, HaveTame, OpsTame, Undisturbed, Generated
  <2>3. Calm(s, run[s])'
    BY <2>1 DEF Still, Calm, HaveCalm, OpsCalm, NextCalm, Generated
  <2> QED BY <2>2, <2>3
<1>7. RunsFit'
  BY <1>2, <1>6 DEF RunsFit, Fits
<1> QED BY <1>1, <1>4, <1>7 DEF Inv

(* A run that is over needs nothing.                                         *)
LEMMA RunEnds ==
  ASSUME NEW r, NEW w, w.pc \notin Active
  PROVE  Tame(r, w) /\ Calm(r, w)
BY DEF Tame, HaveTame, OpsTame, Calm

LEMMA TypedRun ==
  ASSUME Inv, NEW r \in Runs[task]
  PROVE  /\ task \in Tasks /\ run[r] \in RunRecord(task) /\ Sound(run[r])
         /\ Tame(r, run[r]) /\ Calm(r, run[r])
         /\ client \in [Paths -> File] /\ lock \in Locks /\ LockOK(lock)
         /\ run[r].lock \in Locks /\ run[r].next \in Locks /\ run[r].todo \in Turns
         /\ run[r].seen \in Nat /\ run[r].judged \in Nat /\ run[r].upTo \in Nat
         /\ run[r].have \in File /\ run[r].where \in DirSet /\ run[r].ops \in Plans
         /\ run[r].found \in Finding /\ run[r].cmd \in Jobs(task)
<1>1. run[r] \in RunRecord(task)
  BY DEF Inv, RunsOK
<1>2. /\ task \in Tasks /\ Sound(run[r]) /\ Tame(r, run[r]) /\ Calm(r, run[r])
      /\ client \in [Paths -> File] /\ lock \in Locks /\ LockOK(lock)
  BY DEF Inv, WorldOK, RunsOK, RunsFit, Fits
<1> QED BY <1>1, <1>2 DEF RunRecord

LEMMA RunIsOver ==
  ASSUME Inv, NEW r \in Runs[task], NEW q \in RunRecord(task), NEW v \in {"done", "failed"},
         Go(r, Over(q, v)), Still
  PROVE  Inv'
<1> DEFINE w == Over(q, v)
<1>1. w \in RunRecord(task) /\ w.pc = v /\ Sound(w)
  BY TypedRun, OverRecord
<1>2. Tame(r, w) /\ Calm(r, w)
  <2>1. w.pc \notin Active
    BY <1>1 DEF Active
  <2> HIDE DEF w
  <2> QED BY <2>1, RunEnds
<1>3. Go(r, w)
  OBVIOUS
<1> HIDE DEF w
<1> QED BY <1>1, <1>2, <1>3, RunGoes

(* A record with the same plan is as sound, and fits as well.                *)
LEMMA KeptFits ==
  ASSUME NEW r, NEW q, NEW w, q.pc \in Active, Sound(q), Tame(r, q), Calm(r, q),
         SameTask(q, w), SamePlan(q, w), SameSeen(q, w), PhaseOK(w), w.pc # "entry"
  PROVE  Sound(w) /\ Tame(r, w) /\ Calm(r, w)
<1>1. /\ w.cmd = q.cmd /\ w.lock = q.lock /\ w.next = q.next /\ w.ops = q.ops
      /\ w.seen = q.seen /\ w.judged = q.judged /\ w.upTo = q.upTo
  BY DEF SameTask, SamePlan, SameSeen
<1>2. \A a : Taken(w, a) = Taken(q, a)
  BY <1>1 DEF Taken
<1>3. Sound(w)
  <2>1. LockOK(w.lock) /\ LockOK(w.next)
    BY <1>1 DEF Sound
  <2>2. OpsOK(w)
    BY <1>1, <1>2 DEF Sound, OpsOK
  <2>3. NextOK(w)
    BY <1>1, <1>2 DEF Sound, NextOK
  <2> QED BY <2>1, <2>2, <2>3 DEF Sound
<1>4. Tame(r, w)
  BY <1>1 DEF Tame, HaveTame, OpsTame
<1>5. Calm(r, w)
  <2>1. OpsCalm(q) => OpsCalm(w)
    BY <1>1 DEF OpsCalm
  <2>2. NextCalm(q) => NextCalm(w)
    BY <1>1 DEF NextCalm
  <2> QED BY <2>1, <2>2 DEF Calm, HaveCalm
<1> QED BY <1>3, <1>4, <1>5

(* Nor is anything wrong with a record that holds no plan yet.               *)
LEMMA EarlyFits ==
  ASSUME NEW r, NEW q, NEW w, q.pc \in Active, Sound(q), Tame(r, q), Calm(r, q),
         SameTask(q, w), w.ops = << >>, w.next = w.lock, PhaseOK(w), w.pc # "entry"
  PROVE  Sound(w) /\ Tame(r, w) /\ Calm(r, w)
<1>1. w.lock = q.lock /\ LockOK(q.lock)
  BY DEF SameTask, Sound
<1>2. Sound(w)
  BY <1>1 DEF Sound, OpsOK, NextOK
<1>3. Tame(r, w)
  BY <1>1 DEF Tame, HaveTame, OpsTame
<1>4. Calm(r, w)
  <2>1. OpsCalm(w) /\ NextCalm(w)
    BY DEF OpsCalm, NextCalm
  <2> QED BY <2>1 DEF Calm, HaveCalm
<1> QED BY <1>2, <1>3, <1>4

LEMMA AskedStep ==
  ASSUME Inv, NEW r \in Runs[task], Asked(r)
  PROVE  Inv'
<1> DEFINE q == run[r]
           after == IF q.cmd.kind = "verify" THEN "pins" ELSE "fetch"
<1>1. Still /\ q.pc = "ask"
  BY Zenon DEF Asked, Still
<1>2. /\ task \in Tasks /\ q \in RunRecord(task) /\ Sound(q) /\ Tame(r, q) /\ Calm(r, q)
      /\ q.todo \in Turns /\ q.lock \in Locks /\ q.found \in Finding
  BY TypedRun
<1>3. q.cmd.kind \in {"sync", "verify"} /\ q.cmd # Nobody /\ q.ops = << >> /\ q.next = q.lock /\ q.pc \in Active
  BY <1>1, <1>2 DEF Sound, PhaseOK, Early, Active
<1>4. after \in Phases /\ after \in {"pins", "fetch"} /\ (after = "fetch" => q.cmd.kind = "sync")
  BY <1>3 DEF Phases
<1>5. Hash[latest] \in Nat
  BY HashFacts DEF Inv, WorldOK
<1>6. ASSUME NEW w \in RunRecord(task), w.pc = after, SameTask(q, w), SamePlan(q, w), Go(r, w)
      PROVE  Inv'
  <2>1. w.cmd = q.cmd /\ w.ops = << >> /\ w.next = w.lock
    BY <1>3, <1>6 DEF SameTask, SamePlan
  <2>2. PhaseOK(w) /\ w.pc # "entry"
    BY <1>3, <1>4, <1>6, <2>1 DEF PhaseOK, Early
  <2>3. Sound(w) /\ Tame(r, w) /\ Calm(r, w)
    <3> HIDE DEF q
    <3> QED BY <1>2, <1>3, <1>6, <2>1, <2>2, EarlyFits
  <2> QED BY <1>1, <1>6, <2>3, RunGoes
<1>7. ASSUME NEW a \in ToSet(q.todo),
             Go(r, [q EXCEPT !.pc = after, !.judged = q.lock[a].hash, !.upTo = Hash[latest],
                             !.found = IF q.cmd.kind = "verify"
                                          /\ Crosses(Gated \cup Breaking, q.lock[a].hash, Hash[latest])
                                       THEN @ \cup {"pending"} ELSE @])
      PROVE  Inv'
  <2>1. a \in AliasSet
    BY <1>2, <1>7 DEF Turns, ToSet
  <2>2. q.lock[a].hash \in Nat
    BY <1>2, <2>1 DEF Locks, Entry
  <2> DEFINE s == IF q.cmd.kind = "verify"
                     /\ Crosses(Gated \cup Breaking, q.lock[a].hash, Hash[latest])
                  THEN q.found \cup {"pending"} ELSE q.found
             j == q.lock[a].hash
             u == Hash[latest]
             w == [q EXCEPT !.pc = after, !.judged = j, !.upTo = u, !.found = s]
  <2>3. s \in Finding
    BY <1>2 DEF Finding, Finds
  <2>4. Go(r, w)
    BY <1>7
  <2>5. w \in RunRecord(task) /\ w.pc = after /\ SameTask(q, w) /\ SamePlan(q, w)
    <3> HIDE DEF q, s, after, u, j
    <3>1. j \in Nat /\ u \in Nat
      BY <1>5, <2>2 DEF j, u
    <3> QED BY <1>2, <1>4, <2>3, <3>1 DEF RunRecord, SameTask, SamePlan
  <2> HIDE DEF w
  <2> QED BY <1>6, <2>4, <2>5
<1>8. ASSUME Go(r, [q EXCEPT !.pc = after, !.found = IF q.cmd.kind = "verify" THEN @ \cup {"unreachable"} ELSE @])
      PROVE  Inv'
  <2> DEFINE s == IF q.cmd.kind = "verify" THEN q.found \cup {"unreachable"} ELSE q.found
             w == [q EXCEPT !.pc = after, !.found = s]
  <2>1. s \in Finding
    BY <1>2 DEF Finding, Finds
  <2>2. Go(r, w)
    BY <1>8
  <2>3. w \in RunRecord(task) /\ w.pc = after /\ SameTask(q, w) /\ SamePlan(q, w)
    <3> HIDE DEF q, s, after
    <3> QED BY <1>2, <1>4, <2>1 DEF RunRecord, SameTask, SamePlan
  <2> HIDE DEF w
  <2> QED BY <1>6, <2>2, <2>3
<1> QED BY <1>7, <1>8, Zenon DEF Asked

LEMMA FetchedStep ==
  ASSUME Inv, NEW r \in Runs[task], Fetched(r)
  PROVE  Inv'
<1> DEFINE q == run[r]
           st == [a \in AliasSet |-> IF Contains(q.todo, a) THEN "error" ELSE "none"]
<1>1. Still /\ q.pc = "fetch"
  BY DEF Fetched, Still
<1>2. task \in Tasks /\ q \in RunRecord(task) /\ Sound(q) /\ Tame(r, q) /\ Calm(r, q)
  BY TypedRun
<1>3. q.cmd.kind \in {"add", "sync"} /\ q.cmd # Nobody /\ q.ops = << >> /\ q.next = q.lock /\ q.pc \in Active
  BY <1>1, <1>2 DEF Sound, PhaseOK, Early, Active
<1>4. CASE Go(r, [q EXCEPT !.pc = "entries", !.seen = latest])
  <2> DEFINE v == "entries"
             w == [q EXCEPT !.pc = v, !.seen = latest]
  <2>1. latest \in Nat /\ latest \in Versions /\ v \in Phases
    BY HashFacts DEF Inv, WorldOK, Phases
  <2>2. w \in RunRecord(task) /\ w.pc = v /\ w.seen = latest /\ SameTask(q, w) /\ SamePlan(q, w)
    <3> HIDE DEF q, v
    <3> QED BY <1>2, <2>1 DEF RunRecord, SameTask, SamePlan
  <2>3. Go(r, w)
    BY <1>4
  <2> HIDE DEF w
  <2>4. w.cmd = q.cmd /\ w.ops = << >> /\ w.next = w.lock
    BY <1>3, <2>2 DEF SameTask, SamePlan
  <2>5. PhaseOK(w) /\ w.pc # "entry"
    BY <1>3, <2>1, <2>2, <2>4 DEF PhaseOK, Early
  <2>6. Sound(w) /\ Tame(r, w) /\ Calm(r, w)
    <3> HIDE DEF q
    <3> QED BY <1>2, <1>3, <2>2, <2>4, <2>5, EarlyFits
  <2> QED BY <1>1, <2>2, <2>3, <2>6, RunGoes
<1>5. CASE Go(r, Over(q, "failed"))
  BY <1>1, <1>2, <1>5, RunIsOver
<1>6. CASE Go(r, Over([q EXCEPT !.status = st], "done"))
  <2>1. st \in Reports
    BY DEF Reports, Statuses
  <2>2. [q EXCEPT !.status = st] \in RunRecord(task)
    <3> HIDE DEF q, st
    <3> QED BY <1>2, <2>1 DEF RunRecord
  <2> HIDE DEF st
  <2> QED BY <1>1, <1>6, <2>2, RunIsOver
<1> QED BY <1>4, <1>5, <1>6 DEF Fetched

LEMMA LookStep ==
  ASSUME Inv, NEW r \in Runs[task], Look(r)
  PROVE  Inv'
<1> DEFINE q == run[r]
           a == Head(q.todo)
           e == q.lock[a]
           f == Current(a, e)
           d == ClientDir(a, e)
           v == "entry"
           w == [q EXCEPT !.pc = v, !.have = f, !.where = d]
<1>1. /\ q.pc = "entries" /\ q.cmd.kind = "sync" /\ q.todo # << >>
      /\ Go(r, w)
  BY DEF Look
<1>2. Still
  BY DEF Look, Still
<1>3. /\ task \in Tasks /\ q \in RunRecord(task) /\ Sound(q) /\ Tame(r, q) /\ Calm(r, q)
      /\ q.lock \in Locks /\ q.todo \in Turns /\ client \in [Paths -> File]
  BY TypedRun
<1>4. a \in AliasSet
  BY <1>1, <1>3 DEF Turns
<1>5. e \in Entry
  BY <1>3, <1>4 DEF Locks
<1>6. d \in DirSet /\ f \in File /\ (Generated(<<a, d>>) => f = client[<<a, d>>])
  <2> HIDE DEF a, e
  <2> QED BY <1>3, <1>4, <1>5, DirChosen, FoundThere
<1>7. v \in Phases
  BY DEF Phases
<1>8. /\ w \in RunRecord(task) /\ w.pc = v /\ w.have = f /\ w.where = d /\ w.todo = q.todo
      /\ SameTask(q, w) /\ SamePlan(q, w) /\ SameSeen(q, w)
  <2> HIDE DEF q, f, d, v
  <2> QED BY <1>3, <1>6, <1>7 DEF RunRecord, SameTask, SamePlan, SameSeen
<1> HIDE DEF w, f, d
<1>9. /\ w.cmd = q.cmd /\ w.lock = q.lock /\ w.next = q.next /\ w.ops = q.ops
      /\ w.seen = q.seen /\ w.judged = q.judged /\ w.upTo = q.upTo
  BY <1>8 DEF SameTask, SamePlan, SameSeen
<1>10. PhaseOK(q) /\ PhaseOK(w) /\ q.pc \in Active
  <2>1. PhaseOK(q)
    BY <1>3 DEF Sound
  <2> QED BY <1>1, <1>8, <1>9, <2>1 DEF PhaseOK, Early, Active
<1>11. Sound(w)
  <2>1. \A x : Taken(w, x) = Taken(q, x)
    BY <1>9 DEF Taken
  <2>2. LockOK(w.lock) /\ LockOK(w.next)
    BY <1>3, <1>9 DEF Sound
  <2>3. OpsOK(w)
    BY <1>3, <1>9, <2>1 DEF Sound, OpsOK
  <2>4. NextOK(w)
    BY <1>3, <1>9, <1>10, <2>1 DEF Sound, NextOK
  <2> QED BY <1>10, <2>2, <2>3, <2>4 DEF Sound
<1>12. LET p == <<Head(w.todo), w.where>>
       IN  Generated(p) => w.have = client[p]
  BY <1>6, <1>8
<1>13. Tame(r, w)
  BY <1>3, <1>8, <1>9, <1>10, <1>12, Zenon DEF Tame, HaveTame, OpsTame, Generated
<1>14. Calm(r, w)
  <2>1. Calm(r, q) /\ q.pc \in Active /\ q.pc # "entry"
    BY <1>1, <1>3, <1>10
  <2>2. LET p == <<Head(w.todo), w.where>>
        IN  Generated(p) => w.have = client[p]
    BY <1>12
  <2> HIDE DEF q
  <2> QED BY <1>9, <2>1, <2>2 DEF Calm, HaveCalm, OpsCalm, NextCalm
<1> QED BY <1>1, <1>2, <1>8, <1>11, <1>13, <1>14, RunGoes

(* What a command of the task asks for.                                      *)
LEMMA CommandFits ==
  ASSUME NEW t \in Tasks, NEW c \in Jobs(t), c # Nobody
  PROVE  /\ c \in Command
         /\ c.kind = "add" => \E a \in AliasSet : c.of = {a}
BY CommandsAssumption DEF Jobs

LEMMA AddStep ==
  ASSUME Inv, NEW r \in Runs[task], AddPlanned(r)
  PROVE  Inv'
<1> DEFINE q == run[r]
           a == CHOOSE x \in q.cmd.of : TRUE
           p == <<a, q.cmd.dir>>
           h == Hash[q.seen]
           Pin(found) == IF found = "published" THEN q.seen ELSE 0
           F(found) == Rendered(h, Pin(found), h)
           fs == {q.cmd.dir} \cup {d \in q.lock[a].files : client[<<a, d>>].kind # "none"}
           E(found) == [hash |-> h, pin |-> Pin(found), dir |-> q.cmd.dir, files |-> fs]
<1>1. Still /\ q.pc = "entries" /\ q.cmd.kind = "add"
  BY Zenon DEF AddPlanned, Still
<1>2. /\ task \in Tasks /\ q \in RunRecord(task) /\ Sound(q) /\ Tame(r, q) /\ Calm(r, q)
      /\ q.lock \in Locks /\ q.next \in Locks /\ client \in [Paths -> File] /\ q.cmd \in Jobs(task)
  BY TypedRun
<1>3. PhaseOK(q) /\ q.pc \in Active
  BY <1>1, <1>2 DEF Sound, Active
<1>4. q.cmd # Nobody /\ q.ops = << >> /\ q.next = q.lock /\ q.seen \in Versions
  BY <1>1, <1>3 DEF PhaseOK, Early
<1>5. a \in AliasSet /\ q.cmd.dir \in DirSet /\ q.cmd.force \in {"yes", "no"}
  <2>1. q.cmd \in Command /\ \E x \in AliasSet : q.cmd.of = {x}
    BY <1>1, <1>2, <1>4, CommandFits
  <2> QED BY <2>1 DEF Command
<1>6. p \in Paths /\ h \in Nat /\ q.seen \in Nat
  <2>1. p \in Paths
    <3> HIDE DEF a, q
    <3> QED BY <1>5 DEF Paths
  <2>2. h \in Nat /\ q.seen \in Nat
    <3> HIDE DEF q
    <3> QED BY <1>4, HashFacts
  <2> QED BY <2>1, <2>2
<1>7. FileOK(client[p]) /\ client[p] \in File
  BY <1>2, <1>6 DEF Inv, WorldOK
<1>8. ASSUME Go(r, Over(q, "failed")) PROVE Inv'
  BY <1>1, <1>2, <1>8, RunIsOver
<1>9. ASSUME NEW found,
             \/ client[p].kind = "none" \/ client[p] = F(found)
             \/ q.cmd.force = "yes" \/ Ours(p),
             Go(r, [q EXCEPT !.pc = "plan", !.ops = <<Planned(p, F(found))>>,
                             !.next = [@ EXCEPT ![a] = E(found)],
                             !.lockMode = LockMode([q.next EXCEPT ![a] = E(found)])])
      PROVE  Inv'
  <2> DEFINE v == "plan"
             f == F(found)
             e == E(found)
             o == Planned(p, f)
             ops == <<o>>
             n == [q.next EXCEPT ![a] = e]
             m == LockMode(n)
             w == [q EXCEPT !.pc = v, !.ops = ops, !.next = n, !.lockMode = m]
  <2>1. Pin(found) \in Nat /\ (Pin(found) # 0 => Pin(found) = q.seen)
    BY <1>6
  <2>2. /\ f \in File /\ f.kind = "generated" /\ f.edited = "no" /\ f.hash = h /\ f.schema = h
        /\ FileOK(f)
    <3> HIDE DEF Pin, h, q
    <3>1. /\ f \in File /\ f.kind = "generated" /\ f.edited = "no"
          /\ f.hash = h /\ f.schema = h /\ f.version = Pin(found)
      BY <1>6, <2>1, RenderedFits
    <3>2. FileOK(f)
      BY <1>4, <2>1, <3>1 DEF FileOK, h
    <3> QED BY <3>1, <3>2
  <2>3. e \in Entry /\ EntryOK(e) /\ e.hash = h /\ q.cmd.dir \in e.files
    <3>1. fs \subseteq DirSet
      BY <1>2, <1>5 DEF Locks, Entry
    <3> HIDE DEF fs
    <3>2. e \in Entry /\ e.hash = h /\ e.pin = Pin(found) /\ e.files = fs
      BY <1>5, <1>6, <2>1, <3>1 DEF Entry
    <3>3. EntryOK(e)
      BY <1>4, <2>1, <3>2 DEF EntryOK
    <3> QED BY <3>2, <3>3, Zenon DEF fs
  <2>4. /\ o \in Op /\ o.at = p /\ o.file = f
        /\ o.mode = "unchanged" <=> client[p].kind # "none" /\ client[p] = f
    <3> HIDE DEF p, f
    <3> QED BY <1>6, <2>2, PlannedFits
  <2>5. /\ client[p].kind = "none" \/ client[p] = f \/ q.cmd.force = "yes"
           \/ (client[p].kind = "generated" /\ client[p].edited = "no")
        /\ Go(r, w)
    BY <1>9, Zenon DEF Ours, Generated
  <2> HIDE DEF f, o, e
  <2>6. ops \in Plans /\ DOMAIN ops = {1} /\ ops[1] = o
    BY <2>4 DEF Plans
  <2>7. n \in Locks /\ n[a] = e /\ \A b \in AliasSet \ {a} : n[b] = q.lock[b]
    BY <1>2, <1>4, <1>5, <2>3 DEF Locks
  <2>8. m \in Modes /\ v \in Phases
    BY LockModeFits DEF Phases
  <2> HIDE DEF n, m, ops
  <2>9. /\ w \in RunRecord(task) /\ w.pc = v /\ w.ops = ops /\ w.next = n
        /\ w.cmd = q.cmd /\ w.lock = q.lock /\ w.seen = q.seen
    <3> HIDE DEF q, v
    <3> QED BY <1>2, <2>6, <2>7, <2>8 DEF RunRecord
  <2> HIDE DEF w
  <2>10. PhaseOK(w) /\ w.pc \in Active
    BY <1>1, <1>4, <2>9 DEF PhaseOK, Early, Active
  <2>11. \A b : Taken(w, b) = h
    BY <1>1, <2>9 DEF Taken
  <2>12. Sound(w)
    <3>1. LockOK(w.lock) /\ LockOK(w.next)
      BY <1>2, <2>3, <2>7, <2>9 DEF Sound, LockOK
    <3>2. OpsOK(w)
      BY <2>2, <2>4, <2>6, <2>9, <2>11 DEF OpsOK
    <3>3. NextOK(w)
      BY <1>1, <2>3, <2>7, <2>9, <2>11 DEF NextOK
    <3> QED BY <2>10, <3>1, <3>2, <3>3 DEF Sound
  <2>13. Tame(r, w)
    BY <1>1, <1>2, <1>3, <2>9 DEF Tame, HaveTame, OpsTame
  <2>14. OpsCalm(w)
    <3>1. o.mode = "unchanged" => client[p].hash = f.hash
      BY <2>4
    <3>2. \/ q.cmd.force = "yes" \/ o.mode = "unchanged"
          \/ client[p].edited = "no" /\ client[p].kind # "own"
      BY <1>7, <2>2, <2>4, <2>5, Zenon DEF FileOK, File
    <3> QED BY <2>4, <2>6, <2>9, <3>1, <3>2 DEF OpsCalm
  <2>15. NextCalm(w)
    <3>1. ASSUME NEW b \in AliasSet, w.next[b] # w.lock[b]
          PROVE  b = a
      BY <2>7, <2>9, <3>1
    <3>2. w.next[a] = e /\ w.ops[1].at = <<a, q.cmd.dir>> /\ 1 \in DOMAIN w.ops
      BY <2>4, <2>6, <2>7, <2>9
    <3> QED BY <2>3, <3>1, <3>2 DEF NextCalm
  <2>16. Calm(r, w)
    BY <2>9, <2>14, <2>15 DEF Calm, HaveCalm
  <2> QED BY <1>1, <2>5, <2>9, <2>12, <2>13, <2>16, RunGoes
<1>10. PICK found \in IF q.cmd.pin = "yes" THEN Lookups(q.seen) ELSE {"unpinned"} :
         \/ Go(r, Over(q, "failed"))
         \/ /\ \/ client[p].kind = "none" \/ client[p] = F(found)
               \/ q.cmd.force = "yes" \/ Ours(p)
            /\ Go(r, [q EXCEPT !.pc = "plan", !.ops = <<Planned(p, F(found))>>,
                               !.next = [@ EXCEPT ![a] = E(found)],
                               !.lockMode = LockMode([q.next EXCEPT ![a] = E(found)])])
  BY Zenon DEF AddPlanned, AddRefused
<1> QED BY <1>8, <1>9, <1>10, Zenon

(* A run at an entry of swfte.json.                                          *)
LEMMA AtEntryFacts ==
  ASSUME Inv, NEW r \in Runs[task], AtEntry(r)
  PROVE  LET q == run[r]
             a == Head(q.todo)
         IN  /\ PhaseOK(q) /\ q.pc = "entry" /\ q.pc \in Active
             /\ q.cmd.kind = "sync" /\ q.cmd # Nobody /\ q.cmd \in Command
             /\ q.todo # << >> /\ a \in AliasSet /\ q.lock[a] \in Entry /\ EntryOK(q.lock[a])
             /\ q.seen \in Versions /\ q.have \in File /\ q.where \in DirSet
             /\ <<a, q.where>> \in Paths
<1> DEFINE q == run[r]
           a == Head(q.todo)
<1>1. q.pc = "entry" /\ q.pc \in Active
  BY DEF AtEntry, Active
<1>2. /\ Sound(q) /\ q.lock \in Locks /\ q.todo \in Turns /\ q.have \in File
      /\ q.where \in DirSet /\ q.cmd \in Jobs(task) /\ task \in Tasks
  BY TypedRun
<1>3. PhaseOK(q) /\ LockOK(q.lock)
  BY <1>2 DEF Sound
<1>4. q.cmd.kind = "sync" /\ q.todo # << >> /\ q.seen \in Versions /\ q.cmd # Nobody
  BY <1>1, <1>3 DEF PhaseOK
<1>5. a \in AliasSet
  BY <1>2, <1>4 DEF Turns
<1>6. q.lock[a] \in Entry /\ EntryOK(q.lock[a])
  BY <1>2, <1>3, <1>5 DEF Locks, LockOK
<1>7. q.cmd \in Command
  BY <1>2, <1>4, CommandFits
<1>8. <<a, q.where>> \in Paths
  <2> HIDE DEF a, q
  <2> QED BY <1>2, <1>5 DEF Paths
<1> QED BY <1>1, <1>2, <1>3, <1>4, <1>5, <1>6, <1>7, <1>8

LEMMA HoldStep ==
  ASSUME Inv, NEW r \in Runs[task], AtEntry(r), NEW s \in Statuses, Hold(r, s), Still
  PROVE  Inv'
<1> DEFINE q == run[r]
           w == NextEntry(q, s)
<1>1. /\ PhaseOK(q) /\ q.pc \in Active /\ q.cmd.kind = "sync" /\ q.cmd # Nobody
      /\ q.todo # << >> /\ q.seen \in Versions
  BY AtEntryFacts
<1>2. task \in Tasks /\ q \in RunRecord(task) /\ Sound(q) /\ Tame(r, q) /\ Calm(r, q)
  BY TypedRun
<1>3. /\ w \in RunRecord(task) /\ w.pc = "entries"
      /\ SameTask(q, w) /\ SamePlan(q, w) /\ SameSeen(q, w)
  BY <1>1, <1>2, NextRecord
<1>4. Go(r, w)
  BY DEF Hold
<1> HIDE DEF w
<1>5. PhaseOK(w) /\ w.pc # "entry"
  BY <1>1, <1>3 DEF PhaseOK, Early, SameTask, SameSeen
<1>6. Sound(w) /\ Tame(r, w) /\ Calm(r, w)
  <2> HIDE DEF q
  <2> QED BY <1>1, <1>2, <1>3, <1>5, KeptFits
<1> QED BY <1>3, <1>4, <1>6, RunGoes

(* What must be so of a client before it is regenerated.                     *)
MayTake(q, f, hash, pin) ==
  LET e == q.lock[Head(q.todo)]
  IN  /\ f \in File /\ FileOK(f) /\ f.kind = "generated" /\ f.edited = "no"
      /\ f.hash = hash /\ f.schema = hash /\ hash = Taken(q, Head(q.todo))
      /\ hash \in Nat /\ pin \in Nat /\ (pin # 0 => pin \in Versions /\ hash = Hash[pin])
      /\ q.cmd.moves = "no" => pin = e.pin
      /\ hash # e.hash => q.judged # 0 /\ (q.cmd.accept = "yes" \/ ~Crosses(Gated, q.judged, q.upTo))
      /\ q.cmd.breaks = "no" /\ hash # e.hash => q.have.kind = "none" \/ ~Crosses(Breaking, q.have.schema, hash)
      /\ q.have.edited = "no" \/ q.cmd.force = "yes"

LEMMA RegenerateStep ==
  ASSUME Inv, NEW r \in Runs[task], AtEntry(r), Still,
         NEW f, NEW hash, NEW pin, MayTake(run[r], f, hash, pin), Regenerate(r, f, hash, pin)
  PROVE  Inv'
<1> DEFINE q == run[r]
           a == Head(q.todo)
           p == <<a, q.where>>
           e == q.lock[a]
           g == [e EXCEPT !.hash = hash, !.pin = pin, !.files = @ \cup {q.where}]
           o == Planned(p, f)
           st == IF q.have.kind = "none" THEN "restored"
                 ELSE IF f # q.have \/ hash # e.hash \/ pin # e.pin THEN "regenerated" ELSE "unchanged"
           x == NextEntry(q, st)
           ops == Append(x.ops, o)
           n == [x.next EXCEPT ![a] = g]
           w == [x EXCEPT !.ops = ops, !.next = n]
<1>1. /\ PhaseOK(q) /\ q.pc = "entry" /\ q.pc \in Active /\ q.cmd.kind = "sync" /\ q.cmd # Nobody
      /\ q.todo # << >> /\ q.seen \in Versions /\ a \in AliasSet /\ e \in Entry /\ EntryOK(e)
      /\ p \in Paths /\ q.where \in DirSet
  BY AtEntryFacts
<1>2. /\ task \in Tasks /\ q \in RunRecord(task) /\ Sound(q) /\ Tame(r, q) /\ Calm(r, q)
      /\ q.ops \in Plans /\ q.next \in Locks
  BY TypedRun
<1>3. Go(r, w)
  BY Zenon DEF Regenerate
<1>4. st \in Statuses
  BY DEF Statuses
<1>5. /\ x \in RunRecord(task) /\ x.pc = "entries"
      /\ SameTask(q, x) /\ SamePlan(q, x) /\ SameSeen(q, x)
  <2> HIDE DEF st
  <2> QED BY <1>1, <1>2, <1>4, NextRecord
<1> HIDE DEF st, x
<1>6. x.ops = q.ops /\ x.next = q.next
  BY <1>5 DEF SamePlan
<1>7. f \in File /\ f.kind = "generated" /\ f.edited = "no" /\ f.hash = hash /\ f.schema = hash
  BY DEF MayTake
<1>8. /\ o \in Op /\ o.at = p /\ o.file = f
      /\ o.mode = "unchanged" <=> client[p].kind # "none" /\ client[p] = f
  <2> HIDE DEF p
  <2> QED BY <1>1, <1>7, PlannedFits
<1>9. /\ g \in Entry /\ g.hash = hash /\ g.pin = pin /\ q.where \in g.files /\ EntryOK(g)
  <2>1. hash \in Nat /\ pin \in Nat /\ (pin # 0 => pin \in Versions /\ hash = Hash[pin])
    BY DEF MayTake
  <2>2. g \in Entry /\ g.hash = hash /\ g.pin = pin /\ q.where \in g.files
    <3> HIDE DEF e, q
    <3> QED BY <1>1, <2>1 DEF Entry
  <2> HIDE DEF g
  <2> QED BY <2>1, <2>2 DEF EntryOK
<1> HIDE DEF o, g
<1>10. /\ ops \in Plans /\ DOMAIN ops = DOMAIN q.ops \cup {Len(q.ops) + 1}
       /\ ops[Len(q.ops) + 1] = o /\ \A k \in DOMAIN q.ops : ops[k] = q.ops[k]
  BY <1>2, <1>6, <1>8 DEF Plans
<1>11. n \in Locks /\ n[a] = g /\ \A b \in AliasSet \ {a} : n[b] = q.next[b]
  <2> HIDE DEF a, q
  <2> QED BY <1>1, <1>2, <1>6, <1>9 DEF Locks
<1> HIDE DEF ops, n
<1>12. /\ w \in RunRecord(task) /\ w.pc = x.pc /\ w.ops = ops /\ w.next = n
       /\ SameTask(x, w) /\ SameSeen(x, w)
  BY <1>2, <1>5, <1>10, <1>11 DEF RunRecord, SameTask, SameSeen
<1> HIDE DEF w
<1>13. /\ w.pc = "entries" /\ w.cmd = q.cmd /\ w.lock = q.lock
       /\ w.seen = q.seen /\ w.judged = q.judged /\ w.upTo = q.upTo
  BY <1>5, <1>12 DEF SameTask, SameSeen
<1>14. PhaseOK(w) /\ w.pc # "entry" /\ w.pc \in Active
  BY <1>1, <1>13 DEF PhaseOK, Early, Active
<1>15. \A b : Taken(w, b) = Taken(q, b)
  BY <1>13 DEF Taken
<1>16. hash = Taken(q, a) /\ FileOK(f)
  BY DEF MayTake
<1>17. Sound(w)
  <2>1. LockOK(q.lock) /\ LockOK(q.next) /\ OpsOK(q) /\ NextOK(q)
    BY <1>2 DEF Sound
  <2>2. LockOK(w.lock) /\ LockOK(w.next)
    <3>1. ASSUME NEW b \in AliasSet PROVE EntryOK(n[b])
      BY <1>9, <1>11, <2>1 DEF LockOK
    <3> QED BY <1>12, <1>13, <2>1, <3>1 DEF LockOK
  <2>3. OpsOK(w)
    <3> HIDE DEF a, q
    <3>1. ASSUME NEW k \in DOMAIN q.ops
          PROVE  LET y == ops[k]
                 IN  /\ FileOK(y.file) /\ y.file.kind = "generated" /\ y.file.edited = "no"
                     /\ y.file.hash = Taken(w, y.at[1]) /\ y.file.schema = Taken(w, y.at[1])
      BY <1>10, <1>15, <2>1 DEF OpsOK
    <3>2. LET y == ops[Len(q.ops) + 1]
          IN  /\ FileOK(y.file) /\ y.file.kind = "generated" /\ y.file.edited = "no"
              /\ y.file.hash = Taken(w, y.at[1]) /\ y.file.schema = Taken(w, y.at[1])
      BY <1>7, <1>8, <1>10, <1>15, <1>16
    <3> QED BY <1>10, <1>12, <3>1, <3>2 DEF OpsOK
  <2>4. NextOK(w)
    <3>1. q.cmd.moves = "no" => g.pin = q.lock[a].pin
      BY <1>9 DEF MayTake
    <3>2. g.hash # q.lock[a].hash => q.judged # 0 /\ (q.cmd.accept = "yes" \/ ~Crosses(Gated, q.judged, q.upTo))
      BY <1>9 DEF MayTake
    <3> HIDE DEF a, q
    <3>3. ASSUME NEW b \in AliasSet
          PROVE  /\ n[b] # q.lock[b] => n[b].hash = Taken(q, b)
                 /\ q.cmd.moves = "no" => n[b].pin = q.lock[b].pin
                 /\ n[b].hash # q.lock[b].hash =>
                      q.judged # 0 /\ (q.cmd.accept = "yes" \/ ~Crosses(Gated, q.judged, q.upTo))
      BY <1>1, <1>9, <1>11, <1>16, <2>1, <3>1, <3>2 DEF NextOK
    <3> QED BY <1>12, <1>13, <1>15, <3>3 DEF NextOK
  <2> QED BY <1>14, <2>2, <2>3, <2>4 DEF Sound
<1>18. Tame(r, w)
  <2> SUFFICES ASSUME Undisturbed(r) PROVE lock = w.lock /\ OpsTame(w)
    BY <1>14 DEF Tame, HaveTame
  <2>1. lock = q.lock /\ HaveTame(q) /\ OpsTame(q)
    BY <1>1, <1>2 DEF Tame
  <2>2. Generated(p) => q.have.kind = "generated" /\ q.have.schema = client[p].schema
    BY <1>1, <2>1 DEF HaveTame
  <2>3. ASSUME q.cmd.breaks = "no", Generated(p), NEW h \in Breaking,
               client[p].schema < h, h <= hash
        PROVE  h <= q.lock[a].hash
    <3>1. CASE hash = q.lock[a].hash
      BY <2>3, <3>1
    <3>2. CASE hash # q.lock[a].hash
      <4>1. q.have.kind = "none" \/ ~Crosses(Breaking, q.have.schema, hash)
        BY <2>3, <3>2 DEF MayTake
      <4> QED BY <2>2, <2>3, <4>1 DEF Crosses
    <3> QED BY <3>1, <3>2
  <2>4. OpsTame(w)
    <3> SUFFICES ASSUME q.cmd.breaks = "no", NEW k \in DOMAIN ops, Generated(ops[k].at),
                        NEW h \in Breaking, client[ops[k].at].schema < h, h <= ops[k].file.schema
                 PROVE  h <= q.lock[ops[k].at[1]].hash
      BY <1>12, <1>13 DEF OpsTame
    <3>1. CASE k \in DOMAIN q.ops
      BY <1>1, <1>10, <2>1, <3>1, Zenon DEF OpsTame
    <3>2. CASE k = Len(q.ops) + 1
      BY <1>7, <1>8, <1>10, <2>3, <3>2
    <3> QED BY <1>10, <3>1, <3>2
  <2> QED BY <1>13, <2>1, <2>4
<1>19. Calm(r, w)
  <2> SUFFICES ASSUME r \in steady PROVE OpsCalm(w) /\ NextCalm(w)
    BY <1>14 DEF Calm, HaveCalm
  <2>1. HaveCalm(q) /\ OpsCalm(q) /\ NextCalm(q)
    BY <1>1, <1>2 DEF Calm
  <2>2. Generated(p) => q.have = client[p]
    BY <1>1, <2>1 DEF HaveCalm
  <2>3. OpsCalm(w)
    <3>1. o.mode = "unchanged" => client[p].hash = f.hash
      BY <1>8
    <3>2. q.cmd.force = "yes" \/ client[p].edited = "no"
      <4>1. FileOK(client[p]) /\ client[p].edited \in {"yes", "no"}
        BY <1>1 DEF Inv, WorldOK, File
      <4>2. q.have.edited = "no" \/ q.cmd.force = "yes"
        BY DEF MayTake
      <4> QED BY <2>2, <4>1, <4>2 DEF FileOK, Generated
    <3> HIDE DEF q, p
    <3>3. ASSUME NEW k \in DOMAIN ops
          PROVE  LET y == ops[k]
                 IN  /\ y.mode = "unchanged" => client[y.at].hash = y.file.hash
                     /\ \/ q.cmd.force = "yes" \/ y.mode = "unchanged"
                        \/ client[y.at].edited = "no" /\ ~(client[y.at].kind = "own" /\ q.cmd.kind = "add")
      <4>1. CASE k \in DOMAIN q.ops
        BY <1>10, <2>1, <4>1 DEF OpsCalm
      <4>2. CASE k = Len(q.ops) + 1
        BY <1>1, <1>8, <1>10, <3>1, <3>2, <4>2
      <4> QED BY <1>10, <4>1, <4>2
    <3> QED BY <1>12, <1>13, <3>3 DEF OpsCalm
  <2>4. NextCalm(w)
    <3>1. ASSUME NEW b \in AliasSet, b # a, n[b] # q.lock[b]
          PROVE  \E d \in n[b].files : \/ client[<<b, d>>].hash = n[b].hash
                                       \/ \E k \in DOMAIN ops : ops[k].at = <<b, d>>
      <4> HIDE DEF a, q
      <4>1. n[b] = q.next[b]
        BY <1>11, <3>1
      <4> QED BY <1>10, <2>1, <3>1, <4>1 DEF NextCalm
    <3>2. q.where \in n[a].files /\ Len(q.ops) + 1 \in DOMAIN ops /\ ops[Len(q.ops) + 1].at = <<a, q.where>>
      BY <1>8, <1>9, <1>10, <1>11
    <3> HIDE DEF a, q
    <3> QED BY <1>12, <1>13, <3>1, <3>2 DEF NextCalm
  <2> QED BY <2>3, <2>4
<1> QED BY <1>3, <1>12, <1>17, <1>18, <1>19, RunGoes

LEMMA SyncPinnedStep ==
  ASSUME Inv, NEW r \in Runs[task], SyncPinned(r)
  PROVE  Inv'
<1> DEFINE q == run[r]
           a == Head(q.todo)
           e == q.lock[a]
           sc == IF e.hash = Hash[q.seen] THEN Hash[q.seen] ELSE PinnedSchema(r, e.pin)
           f == Rendered(e.hash, e.pin, sc)
           have == q.have
<1>1. AtEntry(r) /\ StaysPinned(r) /\ Still
  BY DEF SyncPinned, Still
<1>2. /\ q.cmd.kind = "sync" /\ q.cmd \in Command /\ a \in AliasSet /\ e \in Entry /\ EntryOK(e)
      /\ q.seen \in Versions /\ q.have \in File
  BY <1>1, AtEntryFacts
<1>3. ASSUME NEW s \in Statuses, Hold(r, s) PROVE Inv'
  BY <1>1, <1>3, HoldStep
<1>4. ASSUME have.edited = "no" \/ q.cmd.force = "yes", Regenerate(r, f, e.hash, e.pin)
      PROVE  Inv'
  <2>1. e.pin # 0 /\ (e.hash = Hash[q.seen] \/ q.cmd.moves = "no")
    BY <1>1 DEF StaysPinned
  <2>2. e.pin \in Versions /\ e.hash = Hash[e.pin] /\ e.hash \in Nat /\ e.pin \in Nat
    BY <1>2, <2>1 DEF EntryOK, Entry
  <2>3. sc = e.hash
    BY <2>2 DEF PinnedSchema
  <2>4. /\ f \in File /\ f.kind = "generated" /\ f.edited = "no"
        /\ f.hash = e.hash /\ f.version = e.pin /\ f.schema = e.hash
    <3> HIDE DEF e, sc
    <3> QED BY <2>2, <2>3, RenderedFits
  <2>5. Taken(q, a) = e.hash
    BY <1>2, <2>1 DEF Taken
  <2> HIDE DEF f
  <2>6. FileOK(f)
    BY <2>2, <2>4 DEF FileOK
  <2>7. MayTake(q, f, e.hash, e.pin)
    BY <1>4, <2>2, <2>4, <2>5, <2>6, Zenon DEF MayTake
  <2> QED BY <1>1, <1>4, <2>7, RegenerateStep
<1>5. /\ "unchanged" \in Statuses /\ "error" \in Statuses /\ "blocked-edited" \in Statuses
  BY DEF Statuses
<1>6. \/ Hold(r, "unchanged") \/ Hold(r, "error") \/ Hold(r, "blocked-edited")
      \/ (have.edited = "no" \/ q.cmd.force = "yes") /\ Regenerate(r, f, e.hash, e.pin)
  BY DEF SyncPinned
<1> QED BY <1>3, <1>4, <1>5, <1>6

LEMMA SyncLatestStep ==
  ASSUME Inv, NEW r \in Runs[task], SyncLatest(r)
  PROVE  Inv'
<1> DEFINE q == run[r]
           a == Head(q.todo)
           e == q.lock[a]
           h == Hash[q.seen]
           have == q.have
           pins == e.pin # 0 \/ (q.cmd.moves = "yes" /\ q.cmd.pin = "yes")
           Pin(found) == IF found = "published" THEN q.seen ELSE 0
           F(found) == Rendered(h, Pin(found), h)
           Held == Hold(r, "error") \/ Hold(r, "blocked-unpublished") \/ Hold(r, "blocked-unvetted")
                   \/ Hold(r, "blocked-reapproval") \/ Hold(r, "blocked-breaking") \/ Hold(r, "blocked-edited")
<1>1. AtEntry(r) /\ ~StaysPinned(r) /\ Still
  BY DEF SyncLatest, Still
<1>2. /\ q.cmd.kind = "sync" /\ q.cmd \in Command /\ a \in AliasSet /\ e \in Entry /\ EntryOK(e)
      /\ q.seen \in Versions /\ q.have \in File
  BY <1>1, AtEntryFacts
<1>3. ASSUME NEW s \in Statuses, Hold(r, s) PROVE Inv'
  BY <1>1, <1>3, HoldStep
<1>4. ASSUME NEW found \in IF pins THEN Lookups(q.seen) ELSE {"unpinned"},
             ~Unvetted(r, e), q.cmd.accept = "yes" \/ ~NeedsApproval(r, e),
             q.cmd.breaks = "yes" \/ ~Breaks(r, e, have),
             q.cmd.force = "yes" \/ ~Clobbers(r, e, have, F(found)),
             Regenerate(r, F(found), h, Pin(found))
      PROVE  Inv'
  <2> DEFINE f == F(found)
             pin == Pin(found)
  <2>1. h \in Nat /\ q.seen \in Nat
    <3> HIDE DEF q
    <3> QED BY <1>2, HashFacts
  <2>2. pin \in Nat /\ (pin # 0 => pin = q.seen)
    BY <2>1
  <2>3. q.cmd.moves = "no" => pin = e.pin
    BY <1>1, <1>4 DEF StaysPinned
  <2>4. /\ f \in File /\ f.kind = "generated" /\ f.edited = "no"
        /\ f.hash = h /\ f.version = pin /\ f.schema = h
    <3> HIDE DEF h, Pin
    <3> QED BY <2>1, <2>2, RenderedFits
  <2>5. Taken(q, a) = h
    BY <1>1 DEF Taken, StaysPinned
  <2>6. have.edited = "no" \/ q.cmd.force = "yes"
    <3>1. have.edited \in {"yes", "no"}
      BY <1>2 DEF File
    <3> HIDE DEF F
    <3> QED BY <1>4, <2>4, <3>1 DEF Clobbers
  <2>7. h # e.hash => q.judged # 0 /\ (q.cmd.accept = "yes" \/ ~Crosses(Gated, q.judged, q.upTo))
    BY <1>4 DEF Unvetted, NeedsApproval
  <2>8. q.cmd.breaks = "no" /\ h # e.hash => have.kind = "none" \/ ~Crosses(Breaking, have.schema, h)
    BY <1>4 DEF Breaks
  <2> HIDE DEF f, pin
  <2>9. FileOK(f)
    BY <1>2, <2>2, <2>4 DEF FileOK
  <2>10. MayTake(q, f, h, pin)
    BY <1>2, <2>1, <2>2, <2>3, <2>4, <2>5, <2>6, <2>7, <2>8, <2>9 DEF MayTake
  <2>11. Regenerate(r, f, h, pin)
    BY <1>4 DEF f, pin
  <2> QED BY <1>1, <2>10, <2>11, RegenerateStep
<1>5. CASE Held
  BY <1>3, <1>5 DEF Statuses
<1>6. \/ Held
      \/ \E found \in IF pins THEN Lookups(q.seen) ELSE {"unpinned"} :
           /\ ~Unvetted(r, e) /\ (q.cmd.accept = "yes" \/ ~NeedsApproval(r, e))
           /\ q.cmd.breaks = "yes" \/ ~Breaks(r, e, have)
           /\ q.cmd.force = "yes" \/ ~Clobbers(r, e, have, F(found))
           /\ Regenerate(r, F(found), h, Pin(found))
  BY Zenon DEF SyncLatest
<1> QED BY <1>4, <1>5, <1>6

LEMMA EntriesOverStep ==
  ASSUME Inv, NEW r \in Runs[task], EntriesOver(r)
  PROVE  Inv'
<1> DEFINE q == run[r]
           v == "plan"
           m == IF q.next = q.lock THEN "unchanged" ELSE LockMode(q.next)
           w == [q EXCEPT !.pc = v, !.lockMode = m]
<1>1. Still /\ q.pc = "entries" /\ q.cmd.kind = "sync" /\ q.pc \in Active /\ Go(r, w)
  BY DEF EntriesOver, Still, Active
<1>2. task \in Tasks /\ q \in RunRecord(task) /\ Sound(q) /\ Tame(r, q) /\ Calm(r, q)
  BY TypedRun
<1>3. v \in Phases /\ m \in Modes
  BY LockModeFits DEF Phases, Modes
<1>4. /\ w \in RunRecord(task) /\ w.pc = v
      /\ SameTask(q, w) /\ SamePlan(q, w) /\ SameSeen(q, w)
  <2> HIDE DEF q, v, m
  <2> QED BY <1>2, <1>3 DEF RunRecord, SameTask, SamePlan, SameSeen
<1> HIDE DEF w
<1>5. PhaseOK(w) /\ w.pc # "entry"
  BY <1>1, <1>2, <1>4 DEF Sound, PhaseOK, Early, SameTask, SameSeen
<1>6. Sound(w) /\ Tame(r, w) /\ Calm(r, w)
  <2> HIDE DEF q
  <2> QED BY <1>1, <1>2, <1>4, <1>5, KeptFits
<1> QED BY <1>1, <1>4, <1>6, RunGoes

LEMMA PinCheckedStep ==
  ASSUME Inv, NEW r \in Runs[task], PinChecked(r)
  PROVE  Inv'
<1> DEFINE q == run[r]
           e == q.lock[Head(q.todo)]
           td == Tail(q.todo)
           New(found) == CASE found = "published"     -> {}
                           [] found = "not-published" -> {"vanished"}
                           [] found = "lookup"        -> {"unreachable"}
                           [] found = "unsupported"   -> {"unsure"}
<1>1. Still /\ q.pc = "pins" /\ q.todo # << >> /\ q.pc \in Active
  BY DEF PinChecked, Still, Active
<1>2. /\ task \in Tasks /\ q \in RunRecord(task) /\ Sound(q) /\ Tame(r, q) /\ Calm(r, q)
      /\ q.todo \in Turns /\ q.found \in Finding
  BY TypedRun
<1>3. PICK found \in IF e.pin = 0 THEN {"published"} ELSE Lookups(e.pin) :
        Go(r, [q EXCEPT !.todo = td, !.found = @ \cup New(found)])
  BY Zenon DEF PinChecked
<1>4. found \in {"published", "not-published", "lookup", "unsupported"}
  BY DEF Lookups
<1> DEFINE s == q.found \cup New(found)
           w == [q EXCEPT !.todo = td, !.found = s]
<1>5. s \in Finding
  <2>1. New(found) \subseteq Finds
    BY <1>4 DEF Finds
  <2> HIDE DEF New
  <2> QED BY <1>2, <2>1 DEF Finding
<1>6. td \in Turns
  BY <1>1, <1>2 DEF Turns
<1>7. Go(r, w)
  BY <1>3
<1>8. w \in RunRecord(task) /\ w.pc = q.pc /\ SameTask(q, w) /\ SamePlan(q, w)
  <2> HIDE DEF q, td, s
  <2> QED BY <1>2, <1>5, <1>6 DEF RunRecord, SameTask, SamePlan
<1> HIDE DEF w
<1>9. q.cmd # Nobody /\ q.ops = << >> /\ q.next = q.lock
  BY <1>1, <1>2 DEF Sound, PhaseOK, Early
<1>10. w.cmd = q.cmd /\ w.ops = << >> /\ w.next = w.lock
  BY <1>8, <1>9 DEF SameTask, SamePlan
<1>11. PhaseOK(w) /\ w.pc # "entry"
  BY <1>1, <1>8, <1>9, <1>10 DEF PhaseOK, Early
<1>12. Sound(w) /\ Tame(r, w) /\ Calm(r, w)
  <2> HIDE DEF q
  <2> QED BY <1>1, <1>2, <1>8, <1>10, <1>11, EarlyFits
<1> QED BY <1>1, <1>7, <1>8, <1>12, RunGoes

LEMMA PinsOverStep ==
  ASSUME Inv, NEW r \in Runs[task], PinsOver(r)
  PROVE  Inv'
<1>1. Still /\ Go(r, Over(run[r], "done"))
  BY DEF PinsOver, Still
<1>2. run[r] \in RunRecord(task)
  BY TypedRun
<1> QED BY <1>1, <1>2, RunIsOver

LEMMA PrecheckedStep ==
  ASSUME Inv, NEW r \in Runs[task], Prechecked(r)
  PROVE  Inv'
<1> DEFINE q == run[r]
           v == "commit"
           w == [q EXCEPT !.pc = v]
<1>1. Still /\ q.pc = "plan" /\ q.pc \in Active /\ (Go(r, Over(q, "failed")) \/ Go(r, w))
  BY DEF Prechecked, Still, Active
<1>2. task \in Tasks /\ q \in RunRecord(task) /\ Sound(q) /\ Tame(r, q) /\ Calm(r, q)
  BY TypedRun
<1>3. v \in Phases
  BY DEF Phases
<1>4. /\ w \in RunRecord(task) /\ w.pc = v
      /\ SameTask(q, w) /\ SamePlan(q, w) /\ SameSeen(q, w)
  <2> HIDE DEF q, v
  <2> QED BY <1>2, <1>3 DEF RunRecord, SameTask, SamePlan, SameSeen
<1> HIDE DEF w
<1>5. PhaseOK(w) /\ w.pc # "entry"
  BY <1>1, <1>2, <1>4 DEF Sound, PhaseOK, Early, SameTask, SameSeen
<1>6. Sound(w) /\ Tame(r, w) /\ Calm(r, w)
  <2> HIDE DEF q
  <2> QED BY <1>1, <1>2, <1>4, <1>5, KeptFits
<1>7. CASE Go(r, Over(q, "failed"))
  BY <1>1, <1>2, <1>7, RunIsOver
<1>8. CASE Go(r, w)
  BY <1>1, <1>4, <1>6, <1>8, RunGoes
<1> QED BY <1>1, <1>7, <1>8

-----------------------------------------------------------------------------
(* Steps that change more.                                                   *)

LEMMA StepGoes ==
  ASSUME Inv, NEW r \in Runs[task], NEW w \in RunRecord(task), Sound(w), Go(r, w),
         task' = task, WorldOK', Fits(r)', \A s \in Runs[task] \ {r} : Fits(s)'
  PROVE  Inv'
<1>1. DOMAIN run = Runs[task] /\ run' = [run EXCEPT ![r] = w]
  BY DEF Inv, RunsOK, Go
<1>2. RunsOK'
  <2>1. run' \in [Runs[task] -> RunRecord(task)]
    BY <1>1 DEF Inv, RunsOK
  <2>2. \A s \in Runs[task] : Sound(run'[s])
    BY <1>1 DEF Inv, RunsOK
  <2> QED BY <2>1, <2>2 DEF RunsOK
<1>3. RunsFit'
  BY DEF RunsFit
<1> QED BY <1>2, <1>3 DEF Inv

(* Once another has written, nothing is expected any more.                   *)
LEMMA OthersFit ==
  ASSUME NEW r \in Runs[task], NEW s \in Runs[task] \ {r}, task' = task, s \notin steady'
  PROVE  Fits(s)'
BY DEF Fits, Tame, Calm, Undisturbed

LEMMA StartStep ==
  ASSUME Inv, NEW r \in Runs[task], NEW c \in Commands[task], Start(r, c)
  PROVE  Inv'
<1> DEFINE v  == IF c.kind = "add" THEN "fetch" ELSE "ask"
           td == IF c.kind = "add" THEN << >> ELSE Targets(c)
           s  == IF c.kind = "verify" /\ \E a \in Entries(lock) : LocalProblem(lock, a) THEN {"local"} ELSE {}
           w  == [Idle EXCEPT !.pc = v, !.cmd = c, !.lock = lock, !.next = lock, !.todo = td, !.found = s]
<1>1. /\ Go(r, w) /\ steady' = steady \cup {r}
      /\ UNCHANGED <<task, latest, published, lock, torn, client, changes>>
  BY DEF Start, Go
<1>2. task \in Tasks /\ lock \in Locks /\ LockOK(lock) /\ client \in [Paths -> File]
  BY TypedRun
<1>3. c \in Jobs(task) /\ c \in Command /\ c # Nobody
  <2>1. c \in Command
    BY <1>2, CommandsAssumption
  <2>2. c.kind # "none" /\ Nobody.kind = "none"
    BY <2>1 DEF Command, Nobody
  <2> QED BY <2>1, <2>2 DEF Jobs
<1>4. v \in Phases /\ s \in Finding
  BY DEF Phases, Finding, Finds
<1>5. td \in Turns
  BY TargetsFit DEF Turns
<1>6. Idle \in RunRecord(task) /\ Idle.ops = << >>
  BY <1>2, IdleFits DEF Idle
<1>7. /\ w \in RunRecord(task) /\ w.pc = v /\ w.cmd = c /\ w.lock = lock /\ w.next = lock
      /\ w.ops = << >>
  <2> HIDE DEF v, td, s
  <2> QED BY <1>2, <1>3, <1>4, <1>5, <1>6 DEF RunRecord
<1> HIDE DEF w
<1>8. PhaseOK(w)
  <2>1. c.kind \in {"add", "sync", "verify"}
    BY <1>3 DEF Command
  <2> QED BY <1>3, <1>7, <2>1 DEF PhaseOK, Early
<1>9. Sound(w)
  BY <1>2, <1>7, <1>8 DEF Sound, OpsOK, NextOK
<1>10. run'[r] = w
  BY <1>1 DEF Inv, RunsOK, Go
<1>11. w.pc # "entry"
  BY <1>7
<1>12. Fits(r)'
  <2>1. (HaveTame(run[r]) /\ OpsTame(run[r]))'
    BY <1>7, <1>10, <1>11 DEF HaveTame, OpsTame
  <2>2. (HaveCalm(run[r]) /\ OpsCalm(run[r]) /\ NextCalm(run[r]))'
    BY <1>7, <1>10, <1>11 DEF HaveCalm, OpsCalm, NextCalm
  <2>3. lock' = run'[r].lock
    BY <1>1, <1>7, <1>10
  <2> QED BY <2>1, <2>2, <2>3 DEF Fits, Tame, Calm
<1>13. ASSUME NEW x \in Runs[task] \ {r} PROVE Fits(x)'
  <2>1. Fits(x) /\ run'[x] = run[x]
    BY <1>1 DEF Inv, RunsOK, RunsFit, Go
  <2>2. Undisturbed(x)' => Undisturbed(x)
    BY <1>1 DEF Undisturbed
  <2>3. x \in steady' => x \in steady
    BY <1>1
  <2>4. lock' = lock /\ client' = client
    BY <1>1
  <2>5. Tame(x, run[x])'
    BY <2>1, <2>2, <2>4 DEF Fits, Tame, HaveTame, OpsTame, Generated
  <2>6. Calm(x, run[x])'
    <3>1. HaveCalm(run[x]) => HaveCalm(run[x])'
      BY <2>1, <2>4 DEF HaveCalm, Generated
    <3>2. OpsCalm(run[x]) => OpsCalm(run[x])'
      BY <2>1, <2>4 DEF OpsCalm
    <3>3. NextCalm(run[x]) => NextCalm(run[x])'
      BY <2>1, <2>4 DEF NextCalm
    <3> QED BY <2>1, <2>3, <3>1, <3>2, <3>3 DEF Fits, Calm
  <2> QED BY <2>5, <2>6 DEF Fits
<1>14. WorldOK'
  BY <1>1 DEF Inv, WorldOK
<1> QED BY <1>1, <1>7, <1>9, <1>12, <1>13, <1>14, StepGoes

(* One file of the plan is done with.                                        *)
LEMMA WrittenFits ==
  ASSUME NEW r \in Runs[task], NEW q, NEW w, q.ops \in Plans, q.ops # << >>, q.next \in Locks, q.pc = "commit",
         Sound(q), Tame(r, q), Calm(r, q), client \in [Paths -> File],
         w.pc = q.pc, w.ops = Tail(q.ops), w.next = q.next, SameTask(q, w), SameSeen(q, w),
         run'[r] = w, lock' = lock, steady' \subseteq steady, task' = task,
         client' = client \/ client' = [client EXCEPT ![Head(q.ops).at] = Head(q.ops).file],
         r \in steady => client'[Head(q.ops).at].hash = Head(q.ops).file.hash
  PROVE  Sound(w) /\ Fits(r)'
<1> DEFINE o == Head(q.ops)
<1>1. /\ Tail(q.ops) \in Plans /\ o = q.ops[1] /\ 1 \in DOMAIN q.ops
      /\ \A k \in DOMAIN Tail(q.ops) : k + 1 \in DOMAIN q.ops /\ k \in Nat /\ Tail(q.ops)[k] = q.ops[k + 1]
      /\ \A k \in DOMAIN q.ops : k # 1 => k - 1 \in DOMAIN Tail(q.ops) /\ Tail(q.ops)[k - 1] = q.ops[k]
  BY DEF Plans
<1>2. \A k \in DOMAIN q.ops : q.ops[k] \in Op
  BY DEF Plans
<1>3. /\ w.cmd = q.cmd /\ w.lock = q.lock /\ w.seen = q.seen /\ w.judged = q.judged /\ w.upTo = q.upTo
      /\ \A b : Taken(w, b) = Taken(q, b)
  BY DEF SameTask, SameSeen, Taken
<1>4. LockOK(q.lock) /\ LockOK(q.next) /\ PhaseOK(q) /\ OpsOK(q) /\ NextOK(q)
  BY DEF Sound
<1>5. Sound(w)
  <2>1. PhaseOK(w)
    BY <1>3, <1>4 DEF PhaseOK, Early
  <2>2. OpsOK(w)
    BY <1>1, <1>3, <1>4 DEF OpsOK
  <2>3. NextOK(w)
    BY <1>3, <1>4 DEF NextOK
  <2> QED BY <1>3, <1>4, <2>1, <2>2, <2>3 DEF Sound
<1>6. q.pc \in Active /\ w.pc \in Active /\ q.pc # "entry" /\ w.pc # "entry"
  BY DEF Active
<1>7. \A p \in Paths : p # o.at => client'[p] = client[p]
  BY <1>1, <1>2
<1>8. o \in Op /\ o.at \in Paths /\ o.file \in File
  BY <1>1, <1>2 DEF Op
<1>9. client'[o.at] = client[o.at] \/ client'[o.at] = o.file
  BY <1>8
<1>10. Tame(r, run[r])'
  <2> SUFFICES ASSUME Undisturbed(r)' PROVE lock' = run'[r].lock /\ OpsTame(run[r])'
    BY <1>6 DEF Tame, HaveTame
  <2>1. Undisturbed(r)
    BY DEF Undisturbed
  <2>2. lock = q.lock /\ OpsTame(q)
    BY <1>6, <2>1 DEF Tame
  <2>3. OpsTame(run[r])'
    <3> SUFFICES ASSUME q.cmd.kind = "sync", q.cmd.breaks = "no", NEW k \in DOMAIN Tail(q.ops),
                        client'[Tail(q.ops)[k].at].kind = "generated", NEW h \in Breaking,
                        client'[Tail(q.ops)[k].at].schema < h, h <= Tail(q.ops)[k].file.schema
                 PROVE  h <= q.lock[Tail(q.ops)[k].at[1]].hash
      BY <1>3 DEF OpsTame, Generated
    <3> DEFINE y == q.ops[k + 1]
    <3>1. Tail(q.ops)[k] = y /\ y \in Op /\ y.at \in Paths /\ y.file \in File /\ k + 1 \in DOMAIN q.ops
      BY <1>1, <1>2 DEF Op
    <3>2. CASE client'[y.at] = client[y.at]
      BY <2>2, <3>1, <3>2 DEF OpsTame, Generated
    <3>3. CASE client'[y.at] # client[y.at]
      <4>1. y.at = o.at /\ client'[y.at] = o.file
        BY <1>7, <1>9, <3>1, <3>3
      <4>2. y.file.schema = o.file.schema
        BY <1>1, <1>4, <3>1, <4>1 DEF OpsOK
      <4>3. o.file.schema \in Nat /\ o.file.schema < h /\ h <= o.file.schema
        BY <1>8, <3>1, <4>1, <4>2 DEF File
      <4>4. h \in Nat
        BY GatesAssumption
      <4> QED BY <4>3, <4>4
    <3> QED BY <3>2, <3>3
  <2> QED BY <1>3, <2>2, <2>3
<1>11. Calm(r, run[r])'
  <2> SUFFICES ASSUME r \in steady PROVE OpsCalm(run[r])' /\ NextCalm(run[r])'
    BY <1>6 DEF Calm, HaveCalm
  <2>1. OpsCalm(q) /\ NextCalm(q) /\ client'[o.at].hash = o.file.hash
    BY <1>6 DEF Calm
  <2>2. OpsCalm(run[r])'
    <3>1. ASSUME NEW k \in DOMAIN Tail(q.ops)
          PROVE  LET y == Tail(q.ops)[k]
                 IN  /\ y.mode = "unchanged" => client'[y.at].hash = y.file.hash
                     /\ \/ q.cmd.force = "yes" \/ y.mode = "unchanged"
                        \/ client'[y.at].edited = "no" /\ ~(client'[y.at].kind = "own" /\ q.cmd.kind = "add")
      <4> DEFINE y == q.ops[k + 1]
      <4>1. Tail(q.ops)[k] = y /\ y \in Op /\ y.at \in Paths /\ k + 1 \in DOMAIN q.ops
        BY <1>1, <1>2 DEF Op
      <4>2. CASE client'[y.at] = client[y.at]
        BY <2>1, <4>1, <4>2 DEF OpsCalm
      <4>3. CASE client'[y.at] # client[y.at]
        <5>1. y.at = o.at /\ client'[y.at] = o.file
          BY <1>7, <1>9, <4>1, <4>3
        <5>2. y.file.hash = o.file.hash /\ o.file.kind = "generated" /\ o.file.edited = "no"
          BY <1>1, <1>4, <4>1, <5>1 DEF OpsOK
        <5> QED BY <4>1, <5>1, <5>2
      <4> QED BY <4>2, <4>3
    <3> DEFINE Held(c, f, ops) ==
          \A k \in DOMAIN ops :
            LET y == ops[k]
            IN  /\ y.mode = "unchanged" => f[y.at].hash = y.file.hash
                /\ \/ c.force = "yes" \/ y.mode = "unchanged"
                   \/ f[y.at].edited = "no" /\ ~(f[y.at].kind = "own" /\ c.kind = "add")
    <3>2. OpsCalm(run[r])' <=> Held(run'[r].cmd, client', run'[r].ops)
      BY Zenon DEF OpsCalm
    <3>3. Held(q.cmd, client', Tail(q.ops))
      BY <3>1
    <3>4. run'[r].ops = Tail(q.ops) /\ run'[r].cmd = q.cmd
      BY <1>3
    <3> HIDE DEF Held
    <3> QED BY <3>2, <3>3, <3>4
  <2>3. NextCalm(run[r])'
    <3> SUFFICES ASSUME NEW a \in AliasSet, q.next[a] # q.lock[a]
                 PROVE  \E d \in q.next[a].files :
                           \/ client'[<<a, d>>].hash = q.next[a].hash
                           \/ \E n \in DOMAIN Tail(q.ops) : Tail(q.ops)[n].at = <<a, d>>
      <4>1. /\ run'[r].ops = Tail(q.ops) /\ run'[r].next = q.next /\ run'[r].lock = q.lock
        BY <1>3
      <4> DEFINE Held(l, n, f, ops) ==
            \A a \in AliasSet : n[a] # l[a] =>
               \E d \in n[a].files : \/ f[<<a, d>>].hash = n[a].hash
                                     \/ \E k \in DOMAIN ops : ops[k].at = <<a, d>>
      <4>2. NextCalm(run[r])' <=> Held(run'[r].lock, run'[r].next, client', run'[r].ops)
        BY Zenon DEF NextCalm
      <4>3. Held(run'[r].lock, run'[r].next, client', run'[r].ops) = Held(q.lock, q.next, client', Tail(q.ops))
        <5> HIDE DEF Held
        <5> QED BY <4>1
      <4> QED BY <4>2, <4>3
    <3>1. PICK d \in q.next[a].files :
             \/ client[<<a, d>>].hash = q.next[a].hash
             \/ \E n \in DOMAIN q.ops : q.ops[n].at = <<a, d>>
      BY <2>1 DEF NextCalm
    <3>2. q.next[a].hash = Taken(q, a)
      BY <1>4, <1>6 DEF NextOK
    <3>3. CASE <<a, d>> = o.at
      <4>1. o.file.hash = Taken(q, a)
        BY <1>1, <1>4, <3>3 DEF OpsOK
      <4> QED BY <2>1, <3>2, <3>3, <4>1
    <3>4. CASE <<a, d>> # o.at /\ client[<<a, d>>].hash = q.next[a].hash
      <4>1. <<a, d>> \in Paths
        BY DEF Locks, Entry, Paths
      <4> QED BY <1>7, <3>4, <4>1
    <3>5. CASE <<a, d>> # o.at /\ \E n \in DOMAIN q.ops : q.ops[n].at = <<a, d>>
      <4>1. PICK n \in DOMAIN q.ops : q.ops[n].at = <<a, d>>
        BY <3>5
      <4>2. n # 1
        BY <1>1, <3>5, <4>1
      <4> QED BY <1>1, <4>1, <4>2
    <3> QED BY <3>1, <3>3, <3>4, <3>5
  <2> QED BY <2>2, <2>3
<1> QED BY <1>5, <1>10, <1>11 DEF Fits

LEMMA OpsPlaced ==
  ASSUME NEW ops \in Plans
  PROVE  \A n \in DOMAIN ops : ops[n] \in Op /\ ops[n].at \in Paths /\ ops[n].file \in File
<1>1. \A n \in DOMAIN ops : ops[n] \in Op
  BY DEF Plans
<1> QED BY <1>1 DEF Op

(* Writing a file at a client's path.                                        *)
LEMMA FileWritten ==
  ASSUME client \in [Paths -> File], \A p \in Paths : FileOK(client[p]),
         NEW p \in Paths, NEW f \in File, FileOK(f), client' = [client EXCEPT ![p] = f]
  PROVE  client' \in [Paths -> File] /\ \A x \in Paths : FileOK(client'[x])
OBVIOUS

LEMMA WriteFileStep ==
  ASSUME Inv, NEW r \in Runs[task], WriteFile(r)
  PROVE  Inv'
<1> DEFINE q == run[r]
           o == Head(q.ops)
           td == Tail(q.ops)
           w == [q EXCEPT !.ops = td]
<1>1. /\ q.pc = "commit" /\ q.ops # << >>
      /\ UNCHANGED <<task, latest, published, lock, torn, changes>>
  BY DEF WriteFile, Committing
<1>2. /\ task \in Tasks /\ q \in RunRecord(task) /\ Sound(q) /\ Tame(r, q) /\ Calm(r, q)
      /\ q.ops \in Plans /\ q.next \in Locks /\ client \in [Paths -> File]
  BY TypedRun
<1>3. td \in Plans /\ o \in Op /\ o.at \in Paths /\ o.file \in File /\ 1 \in DOMAIN q.ops /\ o = q.ops[1]
  <2>1. td \in Plans /\ 1 \in DOMAIN q.ops /\ o = q.ops[1]
    BY <1>1, <1>2 DEF Plans
  <2> QED BY <1>2, <2>1, OpsPlaced
<1>4. FileOK(o.file)
  BY <1>2, <1>3 DEF Sound, OpsOK
<1>5. /\ w \in RunRecord(task) /\ w.pc = q.pc /\ w.ops = td /\ w.next = q.next
      /\ SameTask(q, w) /\ SameSeen(q, w)
  <2> HIDE DEF q, td
  <2> QED BY <1>2, <1>3 DEF RunRecord, SameTask, SameSeen
<1> HIDE DEF w
<1>6. CASE /\ o.mode = "unchanged" /\ Go(r, w) /\ UNCHANGED <<client, steady>>
  <2>1. run'[r] = w
    BY <1>6 DEF Inv, RunsOK, Go
  <2>2. r \in steady => client'[o.at].hash = o.file.hash
    <3>1. q.pc \in Active
      BY <1>1 DEF Active
    <3> HIDE DEF q
    <3> QED BY <1>2, <1>3, <1>6, <3>1 DEF Calm, OpsCalm
  <2>3. Sound(w) /\ Fits(r)'
    <3> HIDE DEF q
    <3> QED BY <1>1, <1>2, <1>5, <1>6, <2>1, <2>2, WrittenFits
  <2>4. Fits(r)' => Tame(r, w) /\ Calm(r, w)
    <3>1. lock' = lock /\ client' = client /\ steady' = steady /\ task' = task
      BY <1>1, <1>6
    <3>2. Tame(r, run[r])' => Tame(r, w)
      BY <2>1, <3>1 DEF Tame, HaveTame, OpsTame, Undisturbed, Generated
    <3>3. HaveCalm(run[r])' => HaveCalm(w)
      BY <2>1, <3>1 DEF HaveCalm, Generated
    <3>4. OpsCalm(run[r])' => OpsCalm(w)
      BY <2>1, <3>1 DEF OpsCalm
    <3>5. NextCalm(run[r])' => NextCalm(w)
      BY <2>1, <3>1 DEF NextCalm
    <3>6. Calm(r, run[r])' => Calm(r, w)
      BY <2>1, <3>1, <3>3, <3>4, <3>5 DEF Calm
    <3> QED BY <3>2, <3>6 DEF Fits
  <2> QED BY <1>1, <1>5, <1>6, <2>3, <2>4, RunGoes DEF Still
<1>7. CASE /\ client' = [client EXCEPT ![o.at] = o.file] /\ Go(r, w) /\ steady' = steady \cap {r}
  <2>1. run'[r] = w
    BY <1>7 DEF Inv, RunsOK, Go
  <2>2. r \in steady => client'[o.at].hash = o.file.hash
    BY <1>2, <1>3, <1>7
  <2>3. Sound(w) /\ Fits(r)'
    <3>1. steady' \subseteq steady
      BY <1>7
    <3> HIDE DEF q
    <3> QED BY <1>1, <1>2, <1>5, <1>7, <2>1, <2>2, <3>1, WrittenFits
  <2>4. \A s \in Runs[task] \ {r} : Fits(s)'
    BY <1>1, <1>7, OthersFit
  <2>5. WorldOK'
    <3>1. client' \in [Paths -> File] /\ \A x \in Paths : FileOK(client'[x])
      BY <1>3, <1>4, <1>7, FileWritten DEF Inv, WorldOK
    <3> QED BY <1>1, <1>7, <3>1 DEF Inv, WorldOK
  <2> QED BY <1>1, <1>5, <1>7, <2>3, <2>4, <2>5, StepGoes
<1>8. CASE Go(r, Over(q, "failed")) /\ UNCHANGED <<client, steady>>
  BY <1>1, <1>2, <1>8, RunIsOver DEF Still
<1>9. \/ o.mode = "unchanged" /\ Go(r, w) /\ UNCHANGED <<client, steady>>
      \/ client' = [client EXCEPT ![o.at] = o.file] /\ Go(r, w) /\ steady' = steady \cap {r}
      \/ Go(r, Over(q, "failed")) /\ UNCHANGED <<client, steady>>
  BY DEF WriteFile, w
<1> QED BY <1>6, <1>7, <1>8, <1>9

(* A run that is over fits whatever there is.                                *)
LEMMA OverFits ==
  ASSUME Inv, NEW r \in Runs[task], NEW v \in {"done", "failed"}, Go(r, Over(run[r], v))
  PROVE  /\ Over(run[r], v) \in RunRecord(task) /\ Sound(Over(run[r], v))
         /\ Fits(r)'
<1>1. /\ Over(run[r], v) \in RunRecord(task) /\ Sound(Over(run[r], v)) /\ Over(run[r], v).pc = v
  BY TypedRun, OverRecord
<1>2. run'[r] = Over(run[r], v)
  BY DEF Inv, RunsOK, Go
<1>3. Fits(r)'
  BY <1>1, <1>2 DEF Fits, Tame, Calm, Active
<1> QED BY <1>1, <1>3

LEMMA WriteLockStep ==
  ASSUME Inv, NEW r \in Runs[task], WriteLock(r)
  PROVE  Inv'
<1> DEFINE q == run[r]
<1>1. UNCHANGED <<task, latest, published, client, changes>>
  BY DEF WriteLock
<1>2. q \in RunRecord(task) /\ Sound(q) /\ q.next \in Locks
  BY TypedRun
<1>3. CASE /\ Go(r, Over(q, "done")) \/ Go(r, Over(q, "failed"))
           /\ UNCHANGED <<lock, torn, steady>>
  BY <1>1, <1>2, <1>3, RunIsOver DEF Still
<1>4. CASE /\ lock' = q.next /\ torn' = "no" /\ Go(r, Over(q, "done")) /\ steady' = steady \cap {r}
  <2>1. /\ Over(q, "done") \in RunRecord(task) /\ Sound(Over(q, "done")) /\ Fits(r)'
    BY <1>4, OverFits
  <2>2. \A s \in Runs[task] \ {r} : Fits(s)'
    BY <1>1, <1>4, OthersFit
  <2>3. WorldOK'
    <3>1. lock' \in Locks /\ LockOK(lock')
      BY <1>2, <1>4 DEF Sound
    <3> HIDE DEF q
    <3> QED BY <1>1, <1>4, <3>1 DEF Inv, WorldOK, LockOK
  <2> QED BY <1>1, <1>4, <2>1, <2>2, <2>3, StepGoes
<1>5. \/ /\ Go(r, Over(q, "done")) \/ Go(r, Over(q, "failed"))
         /\ UNCHANGED <<lock, torn, steady>>
      \/ lock' = q.next /\ torn' = "no" /\ Go(r, Over(q, "done")) /\ steady' = steady \cap {r}
  BY DEF WriteLock
<1> QED BY <1>3, <1>4, <1>5

LEMMA CrashStep ==
  ASSUME Inv, NEW r \in Runs[task], Crash(r)
  PROVE  Inv'
<1> DEFINE q == run[r]
           o == Head(q.ops)
<1>1. /\ Go(r, Over(q, "failed")) /\ steady' = {}
      /\ UNCHANGED <<task, latest, published, changes>>
      /\ lock' = lock /\ torn' \in {torn, "yes"}
      /\ \/ client' = client
         \/ q.ops # << >> /\ client' = [client EXCEPT ![o.at] = TornFile]
  BY DEF Crash
<1>2. q.ops \in Plans
  BY TypedRun
<1>3. /\ Over(q, "failed") \in RunRecord(task) /\ Sound(Over(q, "failed")) /\ Fits(r)'
  BY <1>1, OverFits
<1>4. \A s \in Runs[task] \ {r} : Fits(s)'
  BY <1>1, OthersFit
<1>5. client' \in [Paths -> File] /\ \A x \in Paths : FileOK(client'[x])
  <2>1. CASE client' = client
    BY <2>1 DEF Inv, WorldOK
  <2>2. CASE q.ops # << >> /\ client' = [client EXCEPT ![o.at] = TornFile]
    <3>1. o.at \in Paths
      <4>1. 1 \in DOMAIN q.ops /\ o = q.ops[1]
        BY <1>2, <2>2 DEF Plans
      <4> QED BY <1>2, <4>1, OpsPlaced
    <3> QED BY <2>2, <3>1, FilesFit, FileWritten DEF Inv, WorldOK
  <2> QED BY <1>1, <2>1, <2>2
<1>6. WorldOK'
  <2> HIDE DEF q, o
  <2> QED BY <1>1, <1>5 DEF Inv, WorldOK, LockOK
<1> QED BY <1>1, <1>3, <1>4, <1>6, StepGoes

(* What the developer and the workflow's owner do leaves runs with less to   *)
(* expect, and makes no generated client.                                    *)
LEMMA ChangedFits ==
  ASSUME Inv, Changed, WorldOK',
         \A p \in Paths : client'[p].kind = "generated" =>
           client[p].kind = "generated" /\ client'[p].schema = client[p].schema
  PROVE  Inv'
<1>1. task' = task /\ lock' = lock /\ run' = run /\ steady' = {}
  BY DEF Changed
<1>2. RunsOK'
  BY <1>1 DEF Inv, RunsOK
<1>3. ASSUME NEW s \in Runs[task] PROVE Fits(s)'
  <2> DEFINE q == run[s]
  <2>1. /\ Tame(s, q) /\ Sound(q) /\ q.ops \in Plans /\ q.todo \in Turns /\ q.where \in DirSet
    BY <1>3, TypedRun
  <2>2. Undisturbed(s)' => Undisturbed(s)
    BY <1>1 DEF Undisturbed
  <2>3. ASSUME HaveTame(q), q.pc = "entry" PROVE HaveTame(run[s])'
    <3>1. <<Head(q.todo), q.where>> \in Paths
      <4>1. AtEntry(s)
        BY <2>3 DEF AtEntry
      <4> QED BY <1>3, <4>1, AtEntryFacts
    <3> QED BY <1>1, <2>3, <3>1 DEF HaveTame, Generated
  <2>4. ASSUME OpsTame(q) PROVE OpsTame(run[s])'
    <3>1. \A n \in DOMAIN q.ops : q.ops[n].at \in Paths
      BY <2>1, OpsPlaced
    <3> QED BY <1>1, <2>4, <3>1 DEF OpsTame, Generated
  <2>5. q.pc # "entry" => HaveTame(run[s])'
    BY <1>1 DEF HaveTame
  <2>6. Tame(s, run[s])'
    BY <1>1, <2>1, <2>2, <2>3, <2>4, <2>5 DEF Tame
  <2>7. Calm(s, run[s])'
    BY <1>1 DEF Calm
  <2> QED BY <2>6, <2>7 DEF Fits
<1>4. RunsFit'
  BY <1>1, <1>3 DEF RunsFit
<1> QED BY <1>2, <1>4 DEF Inv

LEMMA OwnerSteps ==
  ASSUME Inv, Publish \/ Release \/ Unpublish
  PROVE  Inv'
<1>1. Changed /\ client' = client
  BY DEF Publish, Release, Unpublish
<1>2. UNCHANGED <<task, lock, torn, run>> /\ steady' = {} /\ changes' = changes + 1 /\ changes < MaxChanges[task]
  BY <1>1 DEF Changed
<1>3. latest' \in Versions /\ published' \subseteq 1..latest'
  <2>1. latest \in Versions /\ published \subseteq 1..latest
    BY DEF Inv, WorldOK
  <2>2. CASE Publish
    <3>1. latest \in Nat /\ latest < Len(Hash) /\ latest' = latest + 1
      BY <2>1, <2>2, HashFacts DEF Publish
    <3>2. latest' \in Versions
      BY <3>1, HashFacts
    <3> QED BY <2>1, <2>2, <3>1, <3>2 DEF Publish
  <2>3. CASE Release
    BY <2>1, <2>3 DEF Release
  <2>4. CASE Unpublish
    BY <2>1, <2>4 DEF Unpublish
  <2> QED BY <2>2, <2>3, <2>4
<1>4. changes' \in 0..MaxChanges[task]
  BY <1>2, ChangesAssumption DEF Inv, WorldOK
<1>5. WorldOK'
  BY <1>1, <1>2, <1>3, <1>4 DEF Inv, WorldOK, LockOK
<1> QED BY <1>1, <1>5, ChangedFits

LEMMA DeveloperSteps ==
  ASSUME Inv, NEW p \in Paths, EditClient(p) \/ DeleteClient(p) \/ WriteOwnFile(p)
  PROVE  Inv'
<1>1. Changed /\ UNCHANGED <<latest, published>>
  BY DEF EditClient, DeleteClient, WriteOwnFile
<1>2. UNCHANGED <<task, lock, torn, run>> /\ steady' = {} /\ changes' = changes + 1 /\ changes < MaxChanges[task]
  BY <1>1 DEF Changed
<1>3. changes' \in 0..MaxChanges[task]
  BY <1>2, ChangesAssumption DEF Inv, WorldOK
<1> DEFINE f == [client[p] EXCEPT !.edited = "yes"]
<1>4. /\ client[p] \in File /\ FileOK(client[p]) /\ client \in [Paths -> File]
      /\ \A x \in Paths : FileOK(client[x])
  BY DEF Inv, WorldOK
<1>5. /\ f \in File /\ f.kind = client[p].kind /\ f.schema = client[p].schema
      /\ client[p].kind = "generated" => FileOK(f)
  BY <1>4 DEF File, FileOK
<1>6. \/ client[p].kind = "generated" /\ client' = [client EXCEPT ![p] = f]
      \/ client' = [client EXCEPT ![p] = NoFile]
      \/ client' = [client EXCEPT ![p] = OwnFile]
  BY <1>4 DEF EditClient, DeleteClient, WriteOwnFile
<1>7. NoFile.kind # "generated" /\ OwnFile.kind # "generated"
  BY DEF NoFile, OwnFile
<1> HIDE DEF f
<1>8. client' \in [Paths -> File] /\ \A x \in Paths : FileOK(client'[x])
  BY <1>4, <1>5, <1>6, FilesFit, FileWritten
<1>9. \A x \in Paths : client'[x].kind = "generated" =>
        client[x].kind = "generated" /\ client'[x].schema = client[x].schema
  BY <1>4, <1>5, <1>6, <1>7
<1>10. WorldOK'
  BY <1>1, <1>2, <1>3, <1>8 DEF Inv, WorldOK, LockOK
<1> QED BY <1>1, <1>9, <1>10, ChangedFits

-----------------------------------------------------------------------------
(* The invariant holds in every state.                                       *)

LEMMA InitInv == ASSUME Init PROVE Inv
<1>1. WorldOK
  <2>1. lock \in Locks /\ LockOK(lock)
    BY FilesFit DEF Init, Locks, LockOK
  <2>2. client \in [Paths -> File] /\ \A p \in Paths : FileOK(client[p])
    BY FilesFit DEF Init
  <2>3. latest \in Versions /\ published \subseteq 1..latest
    BY HashFacts DEF Init
  <2>4. changes \in 0..MaxChanges[task]
    BY ChangesAssumption DEF Init
  <2> QED BY <2>1, <2>2, <2>3, <2>4 DEF Init, WorldOK
<1>2. Idle \in RunRecord(task) /\ Sound(Idle) /\ Idle.pc \notin Active
  BY IdleFits DEF Init, Idle, Active
<1>3. RunsOK
  BY <1>2 DEF Init, RunsOK
<1>4. \A r \in Runs[task] : Fits(r)
  BY <1>2 DEF Init, Fits, Tame, Calm
<1> QED BY <1>1, <1>3, <1>4 DEF Inv, RunsFit

LEMMA NextInv == ASSUME Inv, [Next]_vars PROVE Inv'
<1>1. ASSUME NEW r \in Runs[task], NEW c \in Commands[task], Start(r, c) PROVE Inv'
  BY <1>1, StartStep
<1>2. ASSUME NEW r \in Runs[task],
             \/ Asked(r) \/ Fetched(r) \/ AddPlanned(r) \/ Look(r) \/ SyncPinned(r)
             \/ SyncLatest(r) \/ EntriesOver(r) \/ PinChecked(r) \/ PinsOver(r)
             \/ Prechecked(r) \/ WriteFile(r) \/ WriteLock(r) \/ Crash(r)
      PROVE  Inv'
  BY <1>2, AskedStep, FetchedStep, AddStep, LookStep, SyncPinnedStep, SyncLatestStep,
     EntriesOverStep, PinCheckedStep, PinsOverStep, PrecheckedStep, WriteFileStep,
     WriteLockStep, CrashStep
<1>3. CASE Publish \/ Release \/ Unpublish
  BY <1>3, OwnerSteps
<1>4. ASSUME NEW p \in Paths, EditClient(p) \/ DeleteClient(p) \/ WriteOwnFile(p) PROVE Inv'
  BY <1>4, DeveloperSteps
<1>5. CASE UNCHANGED vars
  <2>1. UNCHANGED <<task, latest, published, lock, torn, client, run, steady, changes>>
    BY <1>5 DEF vars
  <2>2. WorldOK' /\ RunsOK'
    BY <2>1 DEF Inv, WorldOK, RunsOK, LockOK
  <2>3. ASSUME NEW r \in Runs[task] PROVE Fits(r)'
    <3>1. Fits(r)
      BY DEF Inv, RunsFit
    <3>2. (HaveTame(run[r]) => HaveTame(run[r])') /\ (HaveCalm(run[r]) => HaveCalm(run[r])')
      BY <2>1 DEF HaveTame, HaveCalm, Generated
    <3>3. OpsTame(run[r]) => OpsTame(run[r])'
      BY <2>1 DEF OpsTame, Generated
    <3>4. (OpsCalm(run[r]) => OpsCalm(run[r])') /\ (NextCalm(run[r]) => NextCalm(run[r])')
      BY <2>1 DEF OpsCalm, NextCalm
    <3> QED BY <2>1, <3>1, <3>2, <3>3, <3>4 DEF Fits, Tame, Calm, Undisturbed
  <2> QED BY <2>1, <2>2, <2>3 DEF Inv, RunsFit
<1> QED BY <1>1, <1>2, <1>3, <1>4, <1>5 DEF Next

LEMMA AlwaysInv == Spec => []Inv
<1>1. Init => Inv
  BY InitInv
<1>2. Inv /\ [Next]_vars => Inv'
  BY NextInv
<1> QED BY <1>1, <1>2, PTL DEF Spec

(* TypeOK: the project, swfte.json and every run keep their types.           *)
THEOREM ProjectIsTyped == Spec => []TypeOK
<1>1. ASSUME Inv PROVE TypeOK
  <2>1. ASSUME NEW r \in Runs[task]
        PROVE  /\ run[r].pc \in {"idle", "ask", "fetch", "entries", "entry", "pins", "plan", "commit", "done", "failed"}
               /\ run[r].cmd \in Commands[task] \cup {[kind |-> "none"]}
               /\ run[r].lock \in [AliasSet -> Entry] /\ run[r].next \in [AliasSet -> Entry]
               /\ run[r].todo \in Seq(AliasSet)
               /\ {run[r].judged, run[r].upTo, run[r].seen} \subseteq Nat
               /\ run[r].have \in File /\ run[r].where \in DirSet
               /\ run[r].ops \in Seq(Op) /\ run[r].lockMode \in Modes
               /\ run[r].status \in [AliasSet -> Statuses]
               /\ run[r].found \subseteq {"local", "pending", "vanished", "unreachable", "unsure"}
    <3>1. run[r] \in RunRecord(task)
      BY <1>1 DEF Inv, RunsOK
    <3>2. /\ run[r].pc \in Phases /\ run[r].cmd \in Jobs(task) /\ run[r].lock \in Locks
          /\ run[r].next \in Locks /\ run[r].todo \in Turns /\ run[r].judged \in Nat
          /\ run[r].upTo \in Nat /\ run[r].seen \in Nat /\ run[r].have \in File
          /\ run[r].where \in DirSet /\ run[r].ops \in Plans /\ run[r].lockMode \in Modes
          /\ run[r].status \in Reports /\ run[r].found \in Finding
      BY <3>1 DEF RunRecord
    <3> QED BY <3>2 DEF Phases, Jobs, Nobody, Locks, Turns, Plans, Reports, Finding, Finds
  <2> QED BY <1>1, <2>1 DEF Inv, WorldOK, Locks, TypeOK
<1> QED BY <1>1, AlwaysInv, PTL

(* TypesMatchPin: a client that calls a version by number has the types of   *)
(* that version, whatever runs were beside each other and however they ended *)
(* (lookupPinnedVersion, pinContract).                                       *)
THEOREM PinnedTypesFit == Spec => []TypesMatchPin
<1>1. Inv => TypesMatchPin
  BY DEF Inv, WorldOK, FileOK, TypesMatchPin, Generated
<1> QED BY <1>1, AlwaysInv, PTL

-----------------------------------------------------------------------------
(* What a run writes.                                                        *)

(* A run goes on by a step of its own.                                       *)
Begins(r)  == \E c \in Commands[task] : Start(r, c)
Asks(r)    == Asked(r) \/ Fetched(r) \/ AddPlanned(r) \/ PinChecked(r) \/ PinsOver(r)
Syncs(r)   == Look(r) \/ SyncPinned(r) \/ SyncLatest(r) \/ EntriesOver(r)
Commit(r)  == Prechecked(r) \/ WriteFile(r) \/ WriteLock(r) \/ Crash(r)

LEMMA WhoGoes ==
  ASSUME Inv, Next, NEW r \in Runs[task], run'[r] # run[r]
  PROVE  Begins(r) \/ Asks(r) \/ Syncs(r) \/ Commit(r)
<1>1. DOMAIN run = Runs[task]
  BY DEF Inv, RunsOK
<1>2. ASSUME NEW s \in Runs[task], s # r, NEW w, Go(s, w) PROVE FALSE
  BY <1>1, <1>2 DEF Go
<1>3. ASSUME NEW s \in Runs[task], s # r, NEW c \in Commands[task], Start(s, c) PROVE FALSE
  BY <1>1, <1>3 DEF Start
<1>4. ASSUME NEW s \in Runs[task], s # r, WriteFile(s) \/ WriteLock(s) \/ Crash(s) PROVE FALSE
  BY <1>2, <1>4 DEF WriteFile, WriteLock, Crash
<1>5. ASSUME NEW s \in Runs[task], s # r,
             Asked(s) \/ Fetched(s) \/ AddPlanned(s) \/ Look(s) \/ EntriesOver(s)
             \/ PinChecked(s) \/ PinsOver(s) \/ Prechecked(s)
      PROVE  FALSE
  <2>1. \E w : Go(s, w)
    BY <1>5, Zenon
       DEF Asked, Fetched, AddPlanned, AddRefused, Look, EntriesOver, PinChecked, PinsOver,
           Prechecked
  <2> QED BY <1>2, <1>5, <2>1
<1>6. ASSUME NEW s \in Runs[task], s # r, SyncPinned(s) \/ SyncLatest(s) PROVE FALSE
  <2>1. \E w : Go(s, w)
    BY <1>6, Zenon DEF SyncPinned, SyncLatest, Hold, Regenerate
  <2> QED BY <1>2, <1>6, <2>1
<1>7. ~(Publish \/ Release \/ Unpublish)
  BY DEF Publish, Release, Unpublish, Changed
<1>8. \A p \in Paths : ~(EditClient(p) \/ DeleteClient(p) \/ WriteOwnFile(p))
  BY DEF EditClient, DeleteClient, WriteOwnFile, Changed
<1> QED BY <1>3, <1>4, <1>5, <1>6, <1>7, <1>8 DEF Next, Begins, Asks, Syncs, Commit

(* Only the three steps of commit write.                                     *)
LEMMA WhoWrites ==
  ASSUME Inv, Next, NEW r \in Runs[task], Writes(r)
  PROVE  WriteFile(r) \/ WriteLock(r) \/ Crash(r)
<1>1. run[r].pc = "commit" /\ run'[r] # run[r]
  BY DEF Writes, Committing
<1>2. ~Begins(r) /\ ~Asks(r)
  BY <1>1 DEF Begins, Asks, Start, Asked, Fetched, AddPlanned, PinChecked, PinsOver
<1>3. ~Syncs(r) /\ ~Prechecked(r)
  BY <1>1 DEF Syncs, Look, EntriesOver, Prechecked, SyncPinned, SyncLatest, AtEntry
<1> QED BY <1>1, <1>2, <1>3, WhoGoes DEF Commit

(* swfte.json is written as planned, when every file is.                     *)
LEMMA WhatIsCommitted ==
  ASSUME Inv, Next, NEW r \in Runs[task], Commits(r)
  PROVE  lock' = run[r].next /\ run[r].ops = << >> /\ client' = client
<1>1. run[r].pc = "commit" /\ run'[r].pc = "done" /\ lock' # lock
  BY DEF Commits, Writes, Committing
<1>2. WriteFile(r) \/ WriteLock(r) \/ Crash(r)
  BY WhoWrites DEF Commits
<1>3. lock' # lock => ~WriteFile(r) /\ ~Crash(r)
  BY DEF WriteFile, Crash
<1>4. WriteLock(r)
  BY <1>1, <1>2, <1>3
<1> QED BY <1>1, <1>4 DEF WriteLock, FilesWritten

(* A file is replaced by the next of the plan, or cut short.                 *)
LEMMA WhatIsWritten ==
  ASSUME Inv, Next, NEW r \in Runs[task], Writes(r), NEW p \in Paths, client'[p] # client[p]
  PROVE  LET o == run[r].ops[1]
         IN  /\ 1 \in DOMAIN run[r].ops /\ o.at = p /\ o.mode # "unchanged"
             /\ client'[p] = o.file \/ client'[p] = TornFile
<1> DEFINE q == run[r]
           o == Head(q.ops)
<1>1. /\ client \in [Paths -> File] /\ q.ops \in Plans
  BY TypedRun
<1>2. WriteFile(r) \/ WriteLock(r) \/ Crash(r)
  BY WhoWrites
<1>3. client' # client
  OBVIOUS
<1>4. /\ q.ops # << >> /\ o.mode # "unchanged"
      /\ client' = [client EXCEPT ![o.at] = o.file] \/ client' = [client EXCEPT ![o.at] = TornFile]
  BY <1>2, <1>3 DEF WriteFile, WriteLock, Crash
<1>5. 1 \in DOMAIN q.ops /\ o = q.ops[1]
  BY <1>1, <1>4 DEF Plans
<1>6. o.at = p /\ (client'[p] = o.file \/ client'[p] = TornFile)
  BY <1>1, <1>4
<1> QED BY <1>4, <1>5, <1>6

LEMMA MinFits ==
  ASSUME NEW x \in Nat, NEW y \in Nat
  PROVE  Min({x, y}) \in Nat /\ Min({x, y}) <= x /\ Min({x, y}) <= y
<1>1. \E z \in {x, y} : \A u \in {x, y} : z <= u
  <2>1. CASE x <= y
    BY <2>1
  <2>2. CASE ~(x <= y)
    BY <2>2
  <2> QED BY <2>1, <2>2
<1>2. Min({x, y}) \in {x, y} /\ \A u \in {x, y} : Min({x, y}) <= u
  BY <1>1 DEF Min
<1> QED BY <1>2

LEMMA GateKept == ASSUME Inv, Next PROVE GateHolds
<1> SUFFICES ASSUME NEW r \in Runs[task], Undisturbed(r), Commits(r), run[r].cmd.kind = "sync",
                    NEW a \in Entries(lock), lock'[a].hash # lock[a].hash
             PROVE  /\ run[r].judged # 0
                    /\ \/ run[r].cmd.accept = "yes"
                       \/ run[r].judged # lock[a].hash
                       \/ ~Crosses(Gated, lock[a].hash, Min({lock'[a].hash, run[r].upTo}))
  BY DEF GateHolds
<1>1. lock' = run[r].next
  BY WhatIsCommitted
<1>2. run[r].pc \in Active
  BY DEF Commits, Writes, Committing, Active
<1>3. lock = run[r].lock
  BY <1>2, TypedRun DEF Tame
<1>4. a \in AliasSet
  BY DEF Entries
<1>5. run[r].judged # 0 /\ (run[r].cmd.accept = "yes" \/ ~Crosses(Gated, run[r].judged, run[r].upTo))
  BY <1>1, <1>2, <1>3, <1>4, TypedRun DEF Sound, NextOK
<1>6. ASSUME run[r].judged = lock[a].hash, ~Crosses(Gated, run[r].judged, run[r].upTo)
      PROVE  ~Crosses(Gated, lock[a].hash, Min({lock'[a].hash, run[r].upTo}))
  <2>1. lock'[a].hash \in Nat /\ run[r].upTo \in Nat
    BY <1>1, <1>4, TypedRun DEF Locks, Entry
  <2>2. /\ Min({lock'[a].hash, run[r].upTo}) \in Nat
        /\ Min({lock'[a].hash, run[r].upTo}) <= run[r].upTo
    BY <2>1, MinFits
  <2>3. \A h \in Gated : h \in Nat
    BY GatesAssumption
  <2> QED BY <1>6, <2>1, <2>2, <2>3 DEF Crosses
<1> QED BY <1>5, <1>6

LEMMA PinKept == ASSUME Inv, Next PROVE PinHolds
<1>1. ASSUME NEW r \in Runs[task], Undisturbed(r), Commits(r), run[r].cmd.kind = "sync",
             run[r].cmd.moves = "no", NEW a \in Entries(lock)
      PROVE  lock'[a].pin = lock[a].pin
  <2>1. lock' = run[r].next
    BY <1>1, WhatIsCommitted
  <2>2. run[r].pc \in Active
    BY <1>1 DEF Commits, Writes, Committing, Active
  <2>3. lock = run[r].lock /\ NextOK(run[r])
    BY <1>1, <2>2, TypedRun DEF Tame, Sound
  <2> QED BY <1>1, <2>1, <2>2, <2>3 DEF NextOK, Entries
<1>2. ASSUME NEW r \in Runs[task], Undisturbed(r), Writes(r), run[r].cmd.kind = "sync",
             run[r].cmd.breaks = "no", NEW p \in Paths, Generated(p), client'[p].kind = "generated",
             NEW h \in Breaking, client[p].schema < h, h <= client'[p].schema
      PROVE  h <= lock[p[1]].hash
  <2> DEFINE q == run[r]
             o == q.ops[1]
  <2>1. client'[p] # client[p]
    <3>1. client[p].schema \in Nat /\ h \in Nat
      BY GatesAssumption DEF Inv, WorldOK, File
    <3> QED BY <1>2, <3>1
  <2>2. 1 \in DOMAIN q.ops /\ o.at = p /\ (client'[p] = o.file \/ client'[p] = TornFile)
    BY <1>2, <2>1, WhatIsWritten
  <2>3. client'[p] = o.file
    <3>1. TornFile.kind # "generated"
      BY DEF TornFile, NoFile
    <3> QED BY <1>2, <2>2, <3>1
  <2>4. q.pc \in Active
    BY <1>2 DEF Writes, Committing, Active
  <2>5. lock = q.lock /\ OpsTame(q)
    BY <1>2, <2>4, TypedRun DEF Tame
  <2> HIDE DEF q
  <2> QED BY <1>2, <2>2, <2>3, <2>5 DEF OpsTame, q
<1> QED BY <1>1, <1>2 DEF PinHolds

LEMMA EditsKept == ASSUME Inv, Next PROVE EditKept
<1> SUFFICES ASSUME NEW r \in Runs[task] \cap steady, NEW p \in Paths, Writes(r), client'[p] # client[p],
                    client[p].edited = "yes" \/ (client[p].kind = "own" /\ run[r].cmd.kind = "add")
             PROVE  run[r].cmd.force = "yes"
  BY DEF EditKept
<1> DEFINE q == run[r]
           o == q.ops[1]
<1>1. 1 \in DOMAIN q.ops /\ o.at = p /\ o.mode # "unchanged"
  BY WhatIsWritten
<1>2. q.pc \in Active
  BY DEF Writes, Committing, Active
<1>3. OpsCalm(q)
  BY <1>2, TypedRun DEF Calm
<1>4. "yes" # "no"
  OBVIOUS
<1> HIDE DEF q
<1> QED BY <1>1, <1>3, <1>4 DEF OpsCalm, q

(* NothingUnasked: no step of a run beside which nobody wrote takes an entry *)
(* over an approval gate unasked, moves a pin or breaks a client in a plain  *)
(* sync, and none replaces an edit without force while nothing else changes  *)
(* (syncProject, bakeArtifact).                                              *)
THEOREM RunsDoAsAsked == Spec => NothingUnasked
<1>1. Inv /\ [Next]_vars => [GateHolds /\ PinHolds /\ EditKept]_vars
  BY GateKept, PinKept, EditsKept
<1> QED BY <1>1, AlwaysInv, PTL DEF Spec, NothingUnasked

(* LockFollowsClients: what swfte.json says anew of an entry is written when *)
(* a client of that contract already is (ConfinedWriter.commit).             *)
THEOREM LockComesLast == Spec => LockFollowsClients
<1>1. ASSUME Inv, Next PROVE ClientFirst
  <2> SUFFICES ASSUME NEW r \in Runs[task] \cap steady, Commits(r), NEW a \in AliasSet, lock'[a] # lock[a]
               PROVE  \E d \in lock'[a].files : client[<<a, d>>].hash = lock'[a].hash
    BY DEF ClientFirst
  <2>1. lock' = run[r].next /\ run[r].ops = << >>
    BY <1>1, WhatIsCommitted
  <2>2. run[r].pc \in Active /\ Undisturbed(r)
    BY DEF Commits, Writes, Committing, Active, Undisturbed
  <2>3. lock = run[r].lock /\ NextCalm(run[r])
    BY <1>1, <2>2, TypedRun DEF Tame, Calm
  <2>4. \A n \in DOMAIN run[r].ops : FALSE
    BY <2>1
  <2> QED BY <2>1, <2>3, <2>4 DEF NextCalm
<1>2. Inv /\ [Next]_vars => [ClientFirst]_vars
  BY <1>1
<1> QED BY <1>2, AlwaysInv, PTL DEF Spec, LockFollowsClients

-----------------------------------------------------------------------------
(* What a run reports, if nothing has changed since it started.              *)

(* verify: what it found wrong it says, and what it does not say is right.   *)
LookedAt(q) == "local" \in q.found \/ \A a \in Entries(lock) : ~LocalProblem(lock, a)

Calls(q, a) ==
  lock[a].pin \in published \cup {0} \/ q.found \cap {"vanished", "unreachable", "unsure"} # {}

Quiet(b)  == ~Crosses(Gated \cup Breaking, lock[b].hash, Hash[latest])
Vetted(q) == q.found \cap {"pending", "unreachable"} # {} \/ \E b \in Entries(lock) : Quiet(b)

(* What is left to ask about, or was asked.                                  *)
Checked(q) ==
  /\ q.pc \in {"ask", "pins", "done"} => LookedAt(q)
  /\ q.pc = "ask" => ToSet(q.todo) = Entries(lock)
  /\ q.pc \in {"pins", "done"} => Vetted(q)
  /\ q.pc = "pins" => \A a \in Entries(lock) : a \in ToSet(q.todo) \/ Calls(q, a)
  /\ q.pc = "done" => \A a \in Entries(lock) : Calls(q, a)

Honest(r, q) == r \in steady /\ q.cmd.kind = "verify" => Checked(q)

(* sync: the client of an entry is found in d.                               *)
Stands(a, e, d) ==
  /\ d \in e.files
  /\ \E n \in DOMAIN Dirs :
       /\ Dirs[n] = d
       /\ \A m \in 1..(n - 1) : Dirs[m] # d /\ (Dirs[m] \in e.files => ~Generated(<<a, Dirs[m]>>))

Made == {"regenerated", "restored"}

Matches(f, e) == f.kind = "generated" /\ f.edited = "no" /\ f.hash = e.hash /\ f.version = e.pin

(* An entry's one file is there as the plan has it, or will be.              *)
Comes(q, a, d) ==
  /\ Matches(client[<<a, d>>], q.next[a]) \/ \E n \in DOMAIN q.ops : q.ops[n].at = <<a, d>>
  /\ \A n \in DOMAIN q.ops :
       LET o == q.ops[n]
       IN  o.at[1] = a => /\ o.at = <<a, d>> /\ Matches(o.file, q.next[a])
                          /\ o.mode = "unchanged" => Matches(client[o.at], q.next[a])

WillStand(q, a) == \E d \in DirSet : Stands(a, q.next[a], d) /\ Comes(q, a, d)

Promised(q) == \A a \in AliasSet : q.status[a] \in Made => WillStand(q, a)

Clean(l, a) == ~LocalProblem(l, a) /\ Current(a, l[a]).version = l[a].pin

(* The entries that a sync has not come to yet are each to come once.        *)
Ahead == {"ask", "fetch", "entries", "entry"}

Untouched(q) ==
  /\ IsInjective(q.todo)
  /\ \A a \in ToSet(q.todo) : q.status[a] = "none" /\ \A n \in DOMAIN q.ops : q.ops[n].at[1] # a

Reported(q) ==
  /\ q.pc \in Ahead => Untouched(q)
  /\ q.pc = "entry" => q.where = ClientDir(Head(q.todo), q.lock[Head(q.todo)])
  /\ q.pc \in {"plan", "commit"} /\ q.lockMode = "unchanged" => q.next = lock
  /\ q.pc # "pins" /\ (q.pc \in Active => Promised(q))
  /\ q.pc = "done" => \A a \in AliasSet : q.status[a] \in Made => Clean(lock, a)

Faithful(r, q) == r \in steady /\ q.cmd.kind = "sync" => Reported(q)

-----------------------------------------------------------------------------
(* Where a run that nothing has disturbed is, between its own steps.         *)

LEMMA Goes ==
  ASSUME Inv, NEW r \in Runs[task], NEW w, Go(r, w)
  PROVE  run'[r] = w
BY DEF Inv, RunsOK, Go

LEMMA Elsewhere ==
  ASSUME Inv, [Next]_vars, NEW r \in Runs[task], r \in steady', run'[r] = run[r]
  PROVE  r \in steady /\ UNCHANGED <<lock, client, latest, published>>
<1>1. CASE UNCHANGED vars
  BY <1>1 DEF vars
<1>2. ASSUME NEW s \in Runs[task], NEW c \in Commands[task], Start(s, c) PROVE r \in steady /\ UNCHANGED <<lock, client, latest, published>>
  <2>1. s # r
    <3> SUFFICES ASSUME s = r PROVE FALSE
      OBVIOUS
    <3>1. run'[r].pc \in {"ask", "fetch"}
      <4> DEFINE w == [Idle EXCEPT !.pc   = IF c.kind = "add" THEN "fetch" ELSE "ask",
                    !.cmd  = c, !.lock = lock, !.next = lock,
                    !.todo = IF c.kind = "add" THEN << >> ELSE Targets(c),
                    !.found = IF c.kind = "verify" /\ \E a \in Entries(lock) : LocalProblem(lock, a)
                              THEN {"local"} ELSE {}]
      <4>1. run'[r] = w
        BY <1>2 DEF Start, Inv, RunsOK
      <4>2. w.pc = IF c.kind = "add" THEN "fetch" ELSE "ask"
        BY DEF Idle
      <4> QED BY <4>1, <4>2
    <3> QED BY <1>2, <3>1 DEF Start
  <2> QED BY <1>2, <2>1 DEF Start
<1>3. ASSUME NEW s \in Runs[task], WriteFile(s) PROVE r \in steady /\ UNCHANGED <<lock, client, latest, published>>
  <2> DEFINE q == run[s]
             w == [q EXCEPT !.ops = Tail(@)]
  <2>1. Go(s, w) => run'[s] = w /\ w.ops = Tail(q.ops)
    <3>1. q \in RunRecord(task)
      BY TypedRun
    <3>2. w.ops = Tail(q.ops)
      <4> HIDE DEF q
      <4> QED BY <3>1 DEF RunRecord
    <3> HIDE DEF w
    <3> QED BY <3>2, Goes
  <2>2. q.ops # << >> => Tail(q.ops) # q.ops
    <3>1. q.ops \in Plans
      BY TypedRun
    <3> HIDE DEF q
    <3>2. ASSUME q.ops # << >> PROVE Len(Tail(q.ops)) # Len(q.ops)
      BY <3>1, <3>2 DEF Plans
    <3> QED BY <3>2
  <2>3. s = r => ~Go(s, w) \/ q.ops = << >>
    BY <2>1, <2>2
  <2> HIDE DEF w
  <2> QED BY <1>3, <2>3 DEF WriteFile, w
<1>4. ASSUME NEW s \in Runs[task], WriteLock(s) PROVE r \in steady /\ UNCHANGED <<lock, client, latest, published>>
  <2>1. Go(s, Over(run[s], "done")) => run'[s].pc = "done"
    BY TypedRun, OverRecord, Goes
  <2>2. s = r => ~Go(s, Over(run[s], "done"))
    BY <1>4, <2>1 DEF WriteLock, Committing
  <2> QED BY <1>4, <2>2 DEF WriteLock
<1>5. ASSUME NEW s \in Runs[task], Asks(s) \/ Syncs(s) \/ Prechecked(s) PROVE r \in steady /\ UNCHANGED <<lock, client, latest, published>>
  BY <1>5, Zenon
     DEF Asks, Syncs, Asked, Fetched, AddPlanned, PinChecked, PinsOver, Look, SyncPinned,
         SyncLatest, EntriesOver, Prechecked
<1>6. ASSUME NEW s \in Runs[task] PROVE ~Crash(s)
  BY DEF Crash
<1>7. ~(Publish \/ Release \/ Unpublish)
  BY DEF Publish, Release, Unpublish, Changed
<1>8. \A p \in Paths : ~(EditClient(p) \/ DeleteClient(p) \/ WriteOwnFile(p))
  BY DEF EditClient, DeleteClient, WriteOwnFile, Changed
<1> QED BY <1>1, <1>2, <1>3, <1>4, <1>5, <1>6, <1>7, <1>8 DEF Next, Asks, Syncs

(* A run keeps its command.                                                  *)
LEMMA CommandKept ==
  ASSUME Inv, NEW r \in Runs[task], Asks(r) \/ Syncs(r) \/ Commit(r)
  PROVE  run'[r].cmd = run[r].cmd
<1> DEFINE q == run[r]
           Kept(w) == w.cmd = q.cmd
<1>1. q \in RunRecord(task)
  BY TypedRun
<1>2. ASSUME NEW w, Go(r, w), Kept(w) PROVE run'[r].cmd = run[r].cmd
  BY <1>2, Goes
<1>3. \A v : Kept(Over(q, v))
  BY DEF Over, Idle
<1>4. \A s : Kept(NextEntry(q, s))
  <2> HIDE DEF q
  <2> QED BY <1>1 DEF NextEntry, RunRecord
<1>5. ASSUME NEW f, NEW h, NEW v, Regenerate(r, f, h, v) PROVE run'[r].cmd = run[r].cmd
  <2> DEFINE a == Head(q.todo)
             e == q.lock[a]
             status == IF q.have.kind = "none" THEN "restored"
                       ELSE IF f # q.have \/ h # e.hash \/ v # e.pin
                       THEN "regenerated" ELSE "unchanged"
             w == [NextEntry(q, status) EXCEPT
                     !.ops  = Append(@, Planned(<<a, q.where>>, f)),
                     !.next = [@ EXCEPT ![a] = [e EXCEPT !.hash = h, !.pin = v,
                                                         !.files = @ \cup {q.where}]]]
  <2>1. Go(r, w)
    BY <1>5, Zenon DEF Regenerate
  <2>2. NextEntry(q, status).cmd = q.cmd
    BY <1>4
  <2>3. Kept(w)
    <3> HIDE DEF q, status
    <3> QED BY <1>1, <2>2 DEF RunRecord, NextEntry
  <2> HIDE DEF w
  <2> QED BY <1>2, <2>1, <2>3
<1>6. CASE Asked(r) \/ PinChecked(r)
  <2>2. CASE Asked(r)
    <3>1. \E w : Go(r, w) /\ Kept(w)
      <4> DEFINE after == IF q.cmd.kind = "verify" THEN "pins" ELSE "fetch"
                 Vote(a) == [q EXCEPT !.pc = after, !.judged = q.lock[a].hash, !.upTo = Hash[latest],
                              !.found = IF q.cmd.kind = "verify"
                                           /\ Crosses(Gated \cup Breaking, q.lock[a].hash, Hash[latest])
                                        THEN @ \cup {"pending"} ELSE @]
                 Silent == [q EXCEPT !.pc = after,
                               !.found = IF q.cmd.kind = "verify" THEN @ \cup {"unreachable"} ELSE @]
      <4>1. (\E a \in ToSet(q.todo) : Go(r, Vote(a))) \/ Go(r, Silent)
        BY <2>2, Zenon DEF Asked
      <4>2. (\A a : Kept(Vote(a))) /\ Kept(Silent)
        <5> HIDE DEF q, after
        <5> QED BY <1>1 DEF RunRecord
      <4> HIDE DEF Vote, Silent
      <4> QED BY <4>1, <4>2
    <3> QED BY <1>2, <3>1
  <2>3. CASE PinChecked(r)
    <3> DEFINE Told(found) == [q EXCEPT !.todo = Tail(@),
                           !.found = @ \cup CASE found = "published"     -> {}
                                             [] found = "not-published" -> {"vanished"}
                                             [] found = "lookup"        -> {"unreachable"}
                                             [] found = "unsupported"   -> {"unsure"}]
    <3>1. \E found : Go(r, Told(found))
      BY <2>3, Zenon DEF PinChecked
    <3>2. \A found : Kept(Told(found))
      <4> HIDE DEF q
      <4> QED BY <1>1 DEF RunRecord
    <3> HIDE DEF Told
    <3> QED BY <1>2, <3>1, <3>2
  <2> QED BY <1>6, <2>2, <2>3
<1>7. CASE Fetched(r)
  <2> DEFINE st == [a \in AliasSet |-> IF Contains(q.todo, a) THEN "error" ELSE "none"]
             w1 == [q EXCEPT !.pc = "entries", !.seen = latest]
             w2 == Over([q EXCEPT !.status = st], "done")
  <2>1. Go(r, w1) \/ Go(r, Over(q, "failed")) \/ Go(r, w2)
    BY <1>7 DEF Fetched
  <2>2. Kept(w1) /\ Kept(w2)
    <3> HIDE DEF q, st
    <3> QED BY <1>1 DEF RunRecord, Over, Idle
  <2> HIDE DEF w1, w2
  <2> QED BY <1>2, <1>3, <2>1, <2>2
<1>8. CASE AddPlanned(r)
  <2> DEFINE Plan(o, n, m) == [q EXCEPT !.pc = "plan", !.ops = o, !.next = n, !.lockMode = m]
  <2>1. Go(r, Over(q, "failed")) \/ \E o, n, m : Go(r, Plan(o, n, m))
    BY <1>8, Zenon DEF AddPlanned, AddRefused
  <2>2. \A o, n, m : Kept(Plan(o, n, m))
    <3> HIDE DEF q
    <3> QED BY <1>1 DEF RunRecord
  <2> HIDE DEF Plan
  <2> QED BY <1>2, <1>3, <2>1, <2>2
<1>9. CASE Look(r) \/ EntriesOver(r) \/ Prechecked(r) \/ WriteFile(r)
  <2> DEFINE Have(f, d) == [q EXCEPT !.pc = "entry", !.have = f, !.where = d]
             Mode(m) == [q EXCEPT !.pc = "plan", !.lockMode = m]
             Sure == [q EXCEPT !.pc = "commit"]
             Rest == [q EXCEPT !.ops = Tail(@)]
  <2>1. \/ \E f, d : Go(r, Have(f, d))
        \/ \E m : Go(r, Mode(m))
        \/ Go(r, Sure) \/ Go(r, Rest) \/ Go(r, Over(q, "failed"))
    <3>1. CASE Look(r)
      BY <3>1, Zenon DEF Look
    <3>2. CASE EntriesOver(r)
      BY <3>2 DEF EntriesOver
    <3>3. CASE Prechecked(r)
      BY <3>3 DEF Prechecked
    <3>4. CASE WriteFile(r)
      BY <3>4, Zenon DEF WriteFile
    <3> QED BY <1>9, <3>1, <3>2, <3>3, <3>4, Zenon
  <2>2. (\A f, d : Kept(Have(f, d))) /\ (\A m : Kept(Mode(m))) /\ Kept(Sure) /\ Kept(Rest)
    <3> HIDE DEF q
    <3> QED BY <1>1 DEF RunRecord
  <2> HIDE DEF Have, Mode, Sure, Rest
  <2> QED BY <1>2, <1>3, <2>1, <2>2
<1>10. CASE PinsOver(r) \/ WriteLock(r) \/ Crash(r)
  <2>1. \E v : Go(r, Over(q, v))
    BY <1>10 DEF PinsOver, WriteLock, Crash
  <2> QED BY <1>2, <1>3, <2>1
<1>11. CASE SyncPinned(r) \/ SyncLatest(r)
  <2>1. (\E s : Hold(r, s)) \/ \E f, h, v : Regenerate(r, f, h, v)
    <3>1. CASE SyncPinned(r)
      BY <3>1 DEF SyncPinned
    <3>2. CASE SyncLatest(r)
      BY <3>2 DEF SyncLatest
    <3> QED BY <1>11, <3>1, <3>2
  <2> QED BY <1>2, <1>4, <1>5, <2>1 DEF Hold
<1> QED BY <1>6, <1>7, <1>8, <1>9, <1>10, <1>11 DEF Asks, Syncs, Commit

(* What was read is still there.                                             *)
LEMMA AsRead ==
  ASSUME Inv, NEW r \in Runs[task], r \in steady, run[r].pc \in Active
  PROVE  lock = run[r].lock
BY TypedRun DEF Tame, Undisturbed

(* Of what was found nothing is forgotten.                                   *)
LEMMA MoreFound ==
  ASSUME NEW q, NEW w, q.found \subseteq w.found
  PROVE  /\ LookedAt(q) => LookedAt(w)
         /\ Vetted(q) => Vetted(w)
         /\ \A a \in Entries(lock) : Calls(q, a) => Calls(w, a)
BY DEF LookedAt, Vetted, Calls

LEMMA CheckedThen ==
  ASSUME NEW r, Checked(run'[r]), UNCHANGED <<lock, client, latest, published>>
  PROVE  Checked(run[r])'
<1>1. Entries(lock)' = Entries(lock)
  BY DEF Entries
<1>2. \A a : LocalProblem(lock, a)' <=> LocalProblem(lock, a)
  BY DEF LocalProblem, Current, ClientDir, Found, Generated
<1>3. LookedAt(run[r])' <=> LookedAt(run'[r])
  BY <1>1, <1>2 DEF LookedAt
<1>4. (Vetted(run[r])' <=> Vetted(run'[r])) /\ \A a : Calls(run[r], a)' <=> Calls(run'[r], a)
  BY <1>1 DEF Vetted, Quiet, Crosses, Calls
<1> QED BY <1>1, <1>3, <1>4 DEF Checked

(* The steps of verify.                                                      *)
LEMMA VerifyBegins ==
  ASSUME Inv, NEW r \in Runs[task], NEW c \in Commands[task], Start(r, c), c.kind = "verify"
  PROVE  Checked(run[r])'
<1> DEFINE s  == IF \E a \in Entries(lock) : LocalProblem(lock, a) THEN {"local"} ELSE {}
           td == Targets(c)
           v  == "ask"
           w  == [Idle EXCEPT !.pc = v, !.cmd = c, !.lock = lock, !.next = lock, !.todo = td, !.found = s]
<1>1. Go(r, w) /\ UNCHANGED <<task, latest, published, lock, torn, client, changes>>
  BY DEF Start, Go
<1>2. run'[r] = w
  <2> HIDE DEF w
  <2> QED BY <1>1, Goes
<1>3. w.pc = "ask" /\ w.todo = td /\ w.found = s
  BY DEF Idle
<1>4. ToSet(td) = Entries(lock)
  BY TargetsFit DEF Chosen
<1> HIDE DEF w
<1>5. LookedAt(w)
  BY <1>3 DEF LookedAt
<1>6. Checked(w)
  BY <1>3, <1>4, <1>5 DEF Checked
<1> QED BY <1>1, <1>2, <1>6, CheckedThen

LEMMA VerifyGoesOn ==
  ASSUME Inv, NEW r \in Runs[task], r \in steady, run[r].cmd.kind = "verify", Checked(run[r]),
         Asked(r) \/ PinChecked(r) \/ PinsOver(r)
  PROVE  Checked(run[r])'
<1> DEFINE q == run[r]
<1>1. UNCHANGED <<lock, client, latest, published>>
  BY Zenon DEF Asked, PinChecked, PinsOver
<1>2. SUFFICES Checked(run'[r])
  BY <1>1, CheckedThen
<1>3. q.pc \in {"ask", "pins"}
  BY Zenon DEF Asked, PinChecked, PinsOver
<1>4. q \in RunRecord(task) /\ q.todo \in Seq(AliasSet) /\ lock = q.lock
  BY <1>3, TypedRun, AsRead DEF Active, Turns
<1>5. ASSUME NEW a \in ToSet(q.todo),
             Go(r, [q EXCEPT !.pc = "pins", !.judged = q.lock[a].hash, !.upTo = Hash[latest],
                             !.found = IF Crosses(Gated \cup Breaking, q.lock[a].hash, Hash[latest])
                                       THEN @ \cup {"pending"} ELSE @]),
             q.pc = "ask"
      PROVE  Checked(run'[r])
  <2> DEFINE s == IF Crosses(Gated \cup Breaking, q.lock[a].hash, Hash[latest])
                  THEN q.found \cup {"pending"} ELSE q.found
             j == q.lock[a].hash
             u == Hash[latest]
             w == [q EXCEPT !.pc = "pins", !.judged = j, !.upTo = u, !.found = s]
  <2>1. run'[r] = w
    <3>1. Go(r, w)
      BY <1>5
    <3> HIDE DEF w
    <3> QED BY <3>1, Goes
  <2>2. w.pc = "pins" /\ w.todo = q.todo /\ w.found = s
    <3> HIDE DEF q, s, j, u
    <3> QED BY <1>4 DEF RunRecord
  <2>3. a \in Entries(lock) /\ ToSet(q.todo) = Entries(lock) /\ LookedAt(q)
    BY <1>5 DEF Checked
  <2>4. LookedAt(w)
    <3>1. q.found \subseteq w.found
      BY <2>2
    <3> HIDE DEF q, w
    <3> QED BY <2>3, <3>1, MoreFound
  <2>5. Vetted(w)
    <3>1. CASE Crosses(Gated \cup Breaking, q.lock[a].hash, Hash[latest])
      <4>1. "pending" \in w.found
        BY <2>2, <3>1
      <4> HIDE DEF w
      <4> QED BY <4>1 DEF Vetted
    <3>2. CASE ~Crosses(Gated \cup Breaking, q.lock[a].hash, Hash[latest])
      <4>1. Quiet(a)
        BY <1>4, <3>2 DEF Quiet
      <4> HIDE DEF w
      <4> QED BY <2>3, <4>1 DEF Vetted
    <3> QED BY <3>1, <3>2
  <2> HIDE DEF w, q
  <2> QED BY <2>1, <2>2, <2>3, <2>4, <2>5 DEF Checked
<1>6. ASSUME Go(r, [q EXCEPT !.pc = "pins", !.found = @ \cup {"unreachable"}]), q.pc = "ask"
      PROVE  Checked(run'[r])
  <2> DEFINE w == [q EXCEPT !.pc = "pins", !.found = @ \cup {"unreachable"}]
  <2>1. run'[r] = w
    <3>1. Go(r, w)
      BY <1>6
    <3> HIDE DEF w
    <3> QED BY <3>1, Goes
  <2>2. w.pc = "pins" /\ w.todo = q.todo /\ w.found = q.found \cup {"unreachable"}
    <3> HIDE DEF q
    <3> QED BY <1>4 DEF RunRecord
  <2>3. ToSet(q.todo) = Entries(lock) /\ LookedAt(q)
    BY <1>6 DEF Checked
  <2> HIDE DEF w, q
  <2>4. LookedAt(w)
    BY <2>2, <2>3, MoreFound
  <2>5. Vetted(w)
    BY <2>2 DEF Vetted
  <2> QED BY <2>1, <2>2, <2>3, <2>4, <2>5 DEF Checked
<1>7. CASE Asked(r)
  BY <1>5, <1>6, <1>7, Zenon DEF Asked
<1>8. CASE PinChecked(r)
  <2> DEFINE a == Head(q.todo)
             New(found) == CASE found = "published"     -> {}
                             [] found = "not-published" -> {"vanished"}
                             [] found = "lookup"        -> {"unreachable"}
                             [] found = "unsupported"   -> {"unsure"}
             w(found) == [q EXCEPT !.todo = Tail(@), !.found = @ \cup New(found)]
  <2>1. PICK found \in IF q.lock[a].pin = 0 THEN {"published"} ELSE Lookups(q.lock[a].pin) : Go(r, w(found))
    BY <1>8, Zenon DEF PinChecked
  <2>2. q.pc = "pins" /\ q.todo # << >>
    BY <1>8, Zenon DEF PinChecked
  <2>3. run'[r] = w(found)
    <3> HIDE DEF w
    <3> QED BY <2>1, Goes
  <2>4. w(found).pc = "pins" /\ w(found).todo = Tail(q.todo) /\ w(found).found = q.found \cup New(found)
    <3> HIDE DEF q, New
    <3> QED BY <1>4, <2>2 DEF RunRecord
  <2>5. ToSet(q.todo) = {a} \cup ToSet(Tail(q.todo)) /\ a \in AliasSet
    <3> HIDE DEF q
    <3> QED BY <1>4, <2>2, TailOnce DEF q
  <2>6. /\ LookedAt(q) /\ Vetted(q)
        /\ \A b \in Entries(lock) : b \in ToSet(q.todo) \/ Calls(q, b)
    BY <2>2 DEF Checked
  <2>7. Calls(w(found), a)
    <3>1. found \in {"published", "not-published", "lookup", "unsupported"} /\ (found = "published" => lock[a].pin \in published \cup {0})
      <4>1. Failures[task] \subseteq {"upgrades", "contract", "lookup", "unsupported", "crash"}
        BY TypedRun, FailuresAssumption
      <4> HIDE DEF q
      <4> QED BY <1>4, <2>1 DEF Lookups
    <3>2. found # "published" => New(found) \cap {"vanished", "unreachable", "unsure"} # {}
      BY <3>1
    <3> HIDE DEF w, New
    <3> QED BY <2>4, <3>1, <3>2 DEF Calls
  <2> HIDE DEF w, q
  <2>8. /\ LookedAt(w(found)) /\ Vetted(w(found))
        /\ \A b \in Entries(lock) : Calls(q, b) => Calls(w(found), b)
    <3>1. q.found \subseteq w(found).found
      BY <2>4
    <3> QED BY <2>6, <3>1, MoreFound
  <2> QED BY <2>3, <2>4, <2>5, <2>6, <2>7, <2>8 DEF Checked
<1>9. CASE PinsOver(r)
  <2> DEFINE w == Over(q, "done")
  <2>1. Go(r, w) /\ q.pc = "pins" /\ q.todo = << >>
    BY <1>9 DEF PinsOver
  <2>2. w.pc = "done" /\ w.found = q.found
    BY DEF Over, Idle
  <2>3. ToSet(q.todo) = {}
    BY <2>1 DEF ToSet
  <2>4. LookedAt(q) /\ Vetted(q) /\ \A b \in Entries(lock) : Calls(q, b)
    BY <2>1, <2>3 DEF Checked
  <2> HIDE DEF w, q
  <2>5. LookedAt(w) /\ Vetted(w) /\ \A b \in Entries(lock) : Calls(w, b)
    BY <2>2, <2>4, MoreFound
  <2>6. run'[r] = w
    BY <2>1, Goes
  <2> QED BY <2>2, <2>5, <2>6 DEF Checked
<1> QED BY <1>7, <1>8, <1>9

LEMMA BegunWith ==
  ASSUME Inv, NEW r \in Runs[task], NEW c \in Commands[task], Start(r, c)
  PROVE  run'[r].cmd = c
<1> DEFINE w == [Idle EXCEPT !.pc   = IF c.kind = "add" THEN "fetch" ELSE "ask",
                    !.cmd  = c, !.lock = lock, !.next = lock,
                    !.todo = IF c.kind = "add" THEN << >> ELSE Targets(c),
                    !.found = IF c.kind = "verify" /\ \E a \in Entries(lock) : LocalProblem(lock, a)
                              THEN {"local"} ELSE {}]
<1>1. Go(r, w)
  BY DEF Start, Go
<1>2. w.cmd = c
  BY DEF Idle
<1> HIDE DEF w
<1> QED BY <1>1, <1>2, Goes

LEMMA HonestStep ==
  ASSUME Inv, [Next]_vars, NEW r \in Runs[task], Honest(r, run[r])
  PROVE  Honest(r, run[r])'
<1> SUFFICES ASSUME r \in steady', run'[r].cmd.kind = "verify" PROVE Checked(run[r])'
  BY DEF Honest
<1>1. CASE run'[r] = run[r]
  <2>1. r \in steady /\ UNCHANGED <<lock, client, latest, published>>
    BY <1>1, Elsewhere
  <2>2. Checked(run'[r])
    BY <1>1, <2>1 DEF Honest
  <2> QED BY <2>1, <2>2, CheckedThen
<1>2. CASE run'[r] # run[r]
  <2>1. Next /\ (Begins(r) \/ Asks(r) \/ Syncs(r) \/ Commit(r))
    BY <1>2, WhoGoes DEF vars
  <2>2. CASE Begins(r)
    <3>1. PICK c \in Commands[task] : Start(r, c)
      BY <2>2 DEF Begins
    <3> QED BY <3>1, BegunWith, VerifyBegins
  <2>3. CASE ~Begins(r)
    <3>1. run[r].cmd.kind = "verify"
      BY <2>1, <2>3, CommandKept
    <3>2. PhaseOK(run[r]) /\ "verify" # "add" /\ "verify" # "sync"
      BY TypedRun DEF Sound
    <3>3. run[r].pc \notin {"fetch", "entries", "entry", "plan", "commit"}
      BY <3>1, <3>2 DEF PhaseOK
    <3>4. ~Syncs(r) /\ ~Commit(r) /\ ~Fetched(r) /\ ~AddPlanned(r)
      BY <3>3, Zenon
         DEF Syncs, Commit, Look, SyncPinned, SyncLatest, EntriesOver, AtEntry, Prechecked,
                  WriteFile, WriteLock, Crash, Committing, Fetched, AddPlanned
    <3>5. Asked(r) \/ PinChecked(r) \/ PinsOver(r)
      BY <2>1, <2>3, <3>4 DEF Asks
    <3>6. r \in steady
      BY <3>5, Zenon DEF Asked, PinChecked, PinsOver
    <3> QED BY <3>1, <3>5, <3>6, VerifyGoesOn DEF Honest
  <2> QED BY <2>2, <2>3
<1> QED BY <1>1, <1>2

LEMMA TaskStays == ASSUME [Next]_vars PROVE task' = task
<1>1. ASSUME NEW r \in Runs[task], NEW c \in Commands[task], Start(r, c) PROVE task' = task
  BY <1>1 DEF Start
<1>2. ASSUME NEW r \in Runs[task], Asks(r) \/ Syncs(r) PROVE task' = task
  BY <1>2, Zenon DEF Asks, Syncs, Asked, Fetched, AddPlanned, PinChecked, PinsOver,
              Look, SyncPinned, SyncLatest, EntriesOver
<1>3. ASSUME NEW r \in Runs[task], Commit(r) PROVE task' = task
  BY <1>3 DEF Commit, Prechecked, WriteFile, WriteLock, Crash
<1>4. CASE Publish \/ Release \/ Unpublish
  BY <1>4 DEF Publish, Release, Unpublish, Changed
<1>5. ASSUME NEW p \in Paths, EditClient(p) \/ DeleteClient(p) \/ WriteOwnFile(p) PROVE task' = task
  BY <1>5 DEF EditClient, DeleteClient, WriteOwnFile, Changed
<1>6. CASE UNCHANGED vars
  BY <1>6 DEF vars
<1> QED BY <1>1, <1>2, <1>3, <1>4, <1>5, <1>6 DEF Next, Asks, Syncs, Commit

HonestInv == \A r \in Runs[task] : Honest(r, run[r])

LEMMA AlwaysHonest == Spec => []HonestInv
<1>1. Init => HonestInv
  <2>1. Idle.cmd.kind = "none"
    BY DEF Idle
  <2> QED BY <2>1 DEF Init, HonestInv, Honest
<1>2. ASSUME Inv, HonestInv, [Next]_vars PROVE HonestInv'
  <2>1. task' = task
    BY <1>2, TaskStays
  <2>2. ASSUME NEW r \in Runs[task] PROVE Honest(r, run[r])'
    BY <1>2, HonestStep DEF HonestInv
  <2> QED BY <2>1, <2>2 DEF HonestInv
<1> QED BY <1>1, <1>2, AlwaysInv, PTL DEF Spec

(* VerifiedIsSound: what verify passes, with nothing changed since it        *)
(* started, is there, unedited, of its contract and callable, and waits for  *)
(* no approval (verifyProject).                                              *)
THEOREM VerifyIsHonest == Spec => []VerifiedIsSound
<1>1. ASSUME Inv, HonestInv PROVE VerifiedIsSound
  <2> SUFFICES ASSUME NEW r \in Runs[task], Steady(r, "verify"), ExitCode(run[r].found) = 0,
                      NEW a \in Entries(lock)
               PROVE  /\ ~LocalProblem(lock, a)
                      /\ lock[a].pin \in published \cup {0} \/ "unsure" \in run[r].found
                      /\ \/ ~Crosses(Gated \cup Breaking, lock[a].hash, Hash[latest])
                         \/ \E b \in Entries(lock) : lock[b].hash > lock[a].hash
    BY DEF VerifiedIsSound
  <2>1. run[r].found \ {"unreachable", "unsure"} = {} /\ "unreachable" \notin run[r].found
    BY DEF ExitCode
  <2>2. /\ "local" \notin run[r].found /\ "pending" \notin run[r].found
        /\ "vanished" \notin run[r].found /\ "unreachable" \notin run[r].found
    BY <2>1
  <2>3. LookedAt(run[r]) /\ Vetted(run[r]) /\ Calls(run[r], a)
    BY <1>1 DEF HonestInv, Honest, Steady, Checked
  <2>4. ~LocalProblem(lock, a)
    BY <2>2, <2>3 DEF LookedAt
  <2>5. lock[a].pin \in published \cup {0} \/ "unsure" \in run[r].found
    BY <2>2, <2>3 DEF Calls
  <2>6. PICK b \in Entries(lock) : ~Crosses(Gated \cup Breaking, lock[b].hash, Hash[latest])
    BY <2>2, <2>3 DEF Vetted, Quiet
  <2>7. lock[a].hash \in Nat /\ lock[b].hash \in Nat /\ \A h \in Gated \cup Breaking : h \in Nat
    BY <1>1, TypedRun, GatesAssumption DEF Entries, Locks, Entry
  <2>8. ASSUME ~(lock[b].hash > lock[a].hash) PROVE ~Crosses(Gated \cup Breaking, lock[a].hash, Hash[latest])
    BY <2>6, <2>7, <2>8 DEF Crosses
  <2> QED BY <2>4, <2>5, <2>8
<1> QED BY <1>1, AlwaysInv, AlwaysHonest, PTL

-----------------------------------------------------------------------------
(* What a sync reports.                                                      *)

(* The first of some directories.                                            *)
LEMMA FirstDir ==
  ASSUME NEW T, T \subseteq DirSet, T # {}
  PROVE  \E n \in DOMAIN Dirs : Dirs[n] \in T /\ \A m \in 1..(n - 1) : Dirs[m] \notin T
<1> DEFINE D == {n \in DOMAIN Dirs : Dirs[n] \in T}
<1>1. D \subseteq Nat /\ D # {}
  BY ProjectAssumption DEF DirSet, ToSet
<1>2. PICK n \in D : \A m \in D : n <= m
  <2> HIDE DEF D
  <2> QED BY <1>1, LeastOf
<1>3. ASSUME NEW m \in 1..(n - 1) PROVE Dirs[m] \notin T
  <2>1. m \in DOMAIN Dirs /\ ~(n <= m)
    BY <1>2, ProjectAssumption
  <2> QED BY <1>2, <2>1
<1> QED BY <1>2, <1>3

(* A client that stands where it is looked for is found.                     *)
LEMMA StandsThere ==
  ASSUME NEW a \in AliasSet, NEW e \in Entry, NEW d \in DirSet, Stands(a, e, d), Generated(<<a, d>>)
  PROVE  ClientDir(a, e) = d /\ Current(a, e) = client[<<a, d>>]
<1> DEFINE listed == Found(a, e) \cap e.files
           First(n) == Dirs[n] \in listed /\ \A m \in 1..(n - 1) : Dirs[m] \notin listed
<1>1. d \in listed
  BY DEF Stands, Found
<1>2. PICK n \in DOMAIN Dirs :
        /\ Dirs[n] = d
        /\ \A m \in 1..(n - 1) : Dirs[m] # d /\ (Dirs[m] \in e.files => ~Generated(<<a, Dirs[m]>>))
  BY DEF Stands
<1>3. First(n)
  BY <1>1, <1>2 DEF Found
<1>4. ASSUME NEW k \in DOMAIN Dirs, First(k) PROVE k = n
  <2>1. k \in Nat \ {0} /\ n \in Nat \ {0}
    BY ProjectAssumption
  <2>2. ~(k < n) /\ ~(n < k)
    <3> HIDE DEF listed
    <3> QED BY <1>3, <1>4, <2>1
  <2> QED BY <2>1, <2>2
<1>5. (CHOOSE k \in DOMAIN Dirs : First(k)) = n
  <2> HIDE DEF First
  <2> QED BY <1>3, <1>4
<1>6. ClientDir(a, e) = Dirs[CHOOSE k \in DOMAIN Dirs : First(k)]
  BY <1>1 DEF ClientDir
<1>7. Found(a, e) # {}
  BY <1>1
<1> QED BY <1>2, <1>5, <1>6, <1>7 DEF Current

(* Where an entry's client was looked for, it stands once it is listed.      *)
LEMMA LookStands ==
  ASSUME NEW a \in AliasSet, NEW e \in Entry, NEW x, x.files = e.files \cup {ClientDir(a, e)}
  PROVE  Stands(a, x, ClientDir(a, e))
<1> DEFINE listed == Found(a, e) \cap e.files
           First(n) == Dirs[n] \in listed /\ \A m \in 1..(n - 1) : Dirs[m] \notin listed
           d == ClientDir(a, e)
<1>1. e.dir \in DirSet /\ e.files \subseteq DirSet
  BY DEF Entry
<1>2. CASE listed = {}
  <2>1. d = e.dir
    BY <1>2 DEF ClientDir
  <2>2. PICK n \in DOMAIN Dirs : Dirs[n] \in {d} /\ \A m \in 1..(n - 1) : Dirs[m] \notin {d}
    <3>1. {d} \subseteq DirSet /\ {d} # {}
      BY <1>1, <2>1
    <3> HIDE DEF d
    <3> QED BY <3>1, FirstDir
  <2>3. \A y \in e.files : ~Generated(<<a, y>>)
    BY <1>2 DEF Found
  <2> HIDE DEF d
  <2> QED BY <2>2, <2>3 DEF Stands, d
<1>3. CASE listed # {}
  <2>1. \E n \in DOMAIN Dirs : First(n)
    <3>1. listed \subseteq DirSet
      BY <1>1
    <3> HIDE DEF listed
    <3> QED BY <1>3, <3>1, FirstDir
  <2> DEFINE n == CHOOSE k \in DOMAIN Dirs : First(k)
  <2>2. n \in DOMAIN Dirs /\ First(n)
    <3> HIDE DEF First
    <3> QED BY <2>1
  <2>3. d = Dirs[n]
    BY <1>3 DEF ClientDir
  <2>4. \A y \in e.files : Generated(<<a, y>>) => y \in listed
    BY DEF Found
  <2> HIDE DEF d, n
  <2>5. \A m \in 1..(n - 1) : Dirs[m] # d /\ (Dirs[m] \in x.files => ~Generated(<<a, Dirs[m]>>))
    <3> HIDE DEF listed
    <3> QED BY <2>2, <2>3, <2>4 DEF d
  <2> QED BY <2>2, <2>3, <2>5 DEF Stands, d
<1> QED BY <1>2, <1>3

LEMMA ReportedThen ==
  ASSUME NEW r, Reported(run'[r]), UNCHANGED <<lock, client>>
  PROVE  Reported(run[r])'
<1>1. \A a, e : ClientDir(a, e)' = ClientDir(a, e) /\ Current(a, e)' = Current(a, e)
  BY DEF Current, ClientDir, Found, Generated
<1>2. \A a : Clean(lock, a)' <=> Clean(lock, a)
  BY <1>1 DEF Clean, LocalProblem
<1>3. \A a, e, d : Stands(a, e, d)' <=> Stands(a, e, d)
  BY DEF Stands, Generated
<1>4. \A a, d : Comes(run[r], a, d)' <=> Comes(run'[r], a, d)
  BY DEF Comes
<1>5. Promised(run[r])' <=> Promised(run'[r])
  BY <1>3, <1>4 DEF Promised, WillStand
<1> QED BY <1>1, <1>2, <1>5 DEF Reported, Untouched

(* A step that leaves the plan alone leaves what it promises.                *)
LEMMA PromisedKept ==
  ASSUME NEW q, NEW w, SamePlan(q, w), w.status = q.status
  PROVE  /\ Promised(q) => Promised(w)
         /\ w.todo = q.todo /\ Untouched(q) => Untouched(w)
<1>1. w.ops = q.ops /\ w.next = q.next
  BY DEF SamePlan
<1>2. \A a, d : Comes(q, a, d) => Comes(w, a, d)
  BY <1>1 DEF Comes
<1>3. \A a : WillStand(q, a) => WillStand(w, a)
  BY <1>1, <1>2 DEF WillStand
<1> QED BY <1>1, <1>3 DEF Promised, Untouched

LEMMA SyncBegins ==
  ASSUME Inv, NEW r \in Runs[task], NEW c \in Commands[task], Start(r, c), c.kind = "sync"
  PROVE  Reported(run[r])'
<1> DEFINE td == Targets(c)
           w  == [Idle EXCEPT !.pc = "ask", !.cmd = c, !.lock = lock, !.next = lock, !.todo = td, !.found = {}]
<1>1. Go(r, w) /\ UNCHANGED <<task, latest, published, lock, torn, client, changes>>
  BY DEF Start, Go
<1>2. run'[r] = w
  <2> HIDE DEF w
  <2> QED BY <1>1, Goes
<1>3. w.pc = "ask" /\ w.todo = td /\ w.ops = << >> /\ w.status = [a \in AliasSet |-> "none"]
  BY DEF Idle
<1>4. IsInjective(td) /\ ToSet(td) \subseteq AliasSet
  BY TargetsFit DEF Chosen, Entries
<1> HIDE DEF w, td
<1>5. Untouched(w)
  <2>1. DOMAIN w.ops = {}
    BY <1>3
  <2> QED BY <1>3, <1>4, <2>1 DEF Untouched
<1>6. Promised(w)
  <2>1. "none" \notin Made
    BY DEF Made
  <2> QED BY <1>3, <2>1 DEF Promised
<1>7. Reported(w)
  BY <1>3, <1>5, <1>6 DEF Reported
<1> QED BY <1>1, <1>2, <1>7, ReportedThen

(* The steps that plan nothing.                                              *)
LEMMA SyncAsks ==
  ASSUME Inv, NEW r \in Runs[task], r \in steady, run[r].cmd.kind = "sync", Reported(run[r]),
         Asked(r) \/ Fetched(r) \/ Look(r) \/ EntriesOver(r) \/ Prechecked(r)
  PROVE  Reported(run[r])'
<1> DEFINE q == run[r]
<1>1. UNCHANGED <<lock, client>>
  BY Zenon DEF Asked, Fetched, Look, EntriesOver, Prechecked
<1>2. SUFFICES Reported(run'[r])
  BY <1>1, ReportedThen
<1>3. q.pc \in {"ask", "fetch", "entries", "plan"}
  BY Zenon DEF Asked, Fetched, Look, EntriesOver, Prechecked
<1>4. q \in RunRecord(task) /\ lock = q.lock /\ Promised(q) /\ (q.pc \in Ahead => Untouched(q))
  BY <1>3, TypedRun, AsRead DEF Active, Reported
<1>5. ASSUME NEW w, Go(r, w), SamePlan(q, w), w.status = q.status,
             w.pc \in {"fetch", "entries", "entry"} => w.todo = q.todo /\ q.pc \in Ahead,
             w.pc = "entry" => w.where = ClientDir(Head(w.todo), w.lock[Head(w.todo)]),
             w.pc \in {"fetch", "entries", "entry", "plan", "commit"},
             w.pc \in {"plan", "commit"} /\ w.lockMode = "unchanged" => w.next = lock
      PROVE  Reported(run'[r])
  <2>1. run'[r] = w
    BY <1>5, Goes
  <2>2. Promised(w) /\ (w.pc \in {"fetch", "entries", "entry"} => Untouched(w))
    <3> HIDE DEF q
    <3> QED BY <1>4, <1>5, PromisedKept
  <2> QED BY <1>5, <2>1, <2>2 DEF Reported, Ahead
<1>6. ASSUME NEW w, Go(r, w), w.pc = "failed" PROVE Reported(run'[r])
  <2>1. run'[r] = w
    BY <1>6, Goes
  <2> QED BY <1>6, <2>1 DEF Reported, Ahead, Active
<1>7. ASSUME NEW w, Go(r, w), w.pc = "done", \A a \in AliasSet : w.status[a] \in {"error", "none"}
      PROVE Reported(run'[r])
  <2>1. run'[r] = w
    BY <1>7, Goes
  <2>2. \A a \in AliasSet : w.status[a] \notin Made
    BY <1>7 DEF Made
  <2> QED BY <1>7, <2>1, <2>2 DEF Reported, Ahead, Active
<1>8. CASE Asked(r)
  <2> DEFINE Vote(a) == [q EXCEPT !.pc = "fetch", !.judged = q.lock[a].hash, !.upTo = Hash[latest], !.found = @]
             Silent == [q EXCEPT !.pc = "fetch", !.found = @]
  <2>1. "sync" # "verify"
    OBVIOUS
  <2>2. (\E a \in ToSet(q.todo) : Go(r, Vote(a))) \/ Go(r, Silent)
    BY <1>8, <2>1, Zenon DEF Asked
  <2>3. ASSUME NEW w, w = Silent \/ \E a : w = Vote(a)
        PROVE  SamePlan(q, w) /\ w.status = q.status /\ w.pc = "fetch" /\ w.todo = q.todo
    <3> HIDE DEF q
    <3> QED BY <1>4, <2>3 DEF RunRecord, SamePlan
  <2>4. q.pc \in Ahead
    BY <1>8, Zenon DEF Asked, Ahead
  <2> HIDE DEF Vote, Silent
  <2> QED BY <1>5, <2>2, <2>3, <2>4
<1>9. CASE Fetched(r)
  <2> DEFINE st == [a \in AliasSet |-> IF Contains(q.todo, a) THEN "error" ELSE "none"]
             w1 == [q EXCEPT !.pc = "entries", !.seen = latest]
             w2 == Over([q EXCEPT !.status = st], "done")
             w3 == Over(q, "failed")
  <2>1. Go(r, w1) \/ Go(r, w3) \/ Go(r, w2)
    BY <1>9 DEF Fetched
  <2>2. SamePlan(q, w1) /\ w1.status = q.status /\ w1.pc = "entries" /\ w1.todo = q.todo
    <3> HIDE DEF q
    <3> QED BY <1>4 DEF RunRecord, SamePlan
  <2>3. w2.pc = "done" /\ w2.status = st
    <3> HIDE DEF q, st
    <3> QED BY <1>4 DEF RunRecord, Over, Idle
  <2>4. w3.pc = "failed"
    BY DEF Over, Idle
  <2>5. \A a \in AliasSet : st[a] \in {"error", "none"}
    OBVIOUS
  <2>6. q.pc \in Ahead
    BY <1>9 DEF Fetched, Ahead
  <2> HIDE DEF w1, w2, w3, st
  <2> QED BY <1>5, <1>6, <1>7, <2>1, <2>2, <2>3, <2>4, <2>5, <2>6
<1>10. CASE Look(r)
  <2> DEFINE a == Head(q.todo)
             f == Current(a, q.lock[a])
             d == ClientDir(a, q.lock[a])
             w == [q EXCEPT !.pc = "entry", !.have = f, !.where = d]
  <2>1. Go(r, w) /\ q.pc \in Ahead
    BY <1>10 DEF Look, Ahead
  <2>2. /\ SamePlan(q, w) /\ w.status = q.status /\ w.pc = "entry" /\ w.todo = q.todo
        /\ w.lock = q.lock /\ w.where = d
    <3> HIDE DEF q, f, d
    <3> QED BY <1>4 DEF RunRecord, SamePlan
  <2> HIDE DEF w
  <2> QED BY <1>5, <2>1, <2>2
<1>11. CASE EntriesOver(r)
  <2> DEFINE m == IF q.next = q.lock THEN "unchanged" ELSE LockMode(q.next)
             w == [q EXCEPT !.pc = "plan", !.lockMode = m]
  <2>1. Go(r, w)
    BY <1>11 DEF EntriesOver
  <2>2. SamePlan(q, w) /\ w.status = q.status /\ w.pc = "plan" /\ w.lockMode = m /\ w.next = q.next
    <3> HIDE DEF q, m
    <3> QED BY <1>4 DEF RunRecord, SamePlan
  <2>3. m = "unchanged" => q.next = lock
    BY <1>4 DEF LockMode
  <2> HIDE DEF w, m
  <2> QED BY <1>5, <2>1, <2>2, <2>3
<1>12. CASE Prechecked(r)
  <2> DEFINE w == [q EXCEPT !.pc = "commit"]
             w3 == Over(q, "failed")
  <2>1. (Go(r, w) \/ Go(r, w3)) /\ q.pc = "plan"
    BY <1>12 DEF Prechecked
  <2>2. /\ SamePlan(q, w) /\ w.status = q.status /\ w.pc = "commit" /\ w.lockMode = q.lockMode
        /\ w.next = q.next
    <3> HIDE DEF q
    <3> QED BY <1>4 DEF RunRecord, SamePlan
  <2>3. w3.pc = "failed"
    BY DEF Over, Idle
  <2>4. q.lockMode = "unchanged" => q.next = lock
    BY <2>1 DEF Reported
  <2> HIDE DEF w, w3
  <2> QED BY <1>5, <1>6, <2>1, <2>2, <2>3, <2>4
<1> QED BY <1>8, <1>9, <1>10, <1>11, <1>12

LEMMA SyncWritesLock ==
  ASSUME Inv, NEW r \in Runs[task], r \in steady, run[r].cmd.kind = "sync", Reported(run[r]), WriteLock(r)
  PROVE  Reported(run[r])'
<1> DEFINE q == run[r]
<1>1. q.pc = "commit" /\ q.ops = << >> /\ client' = client
  BY DEF WriteLock, Committing, FilesWritten
<1>2. q \in RunRecord(task) /\ q.next \in Locks /\ client \in [Paths -> File]
  BY TypedRun
<1>3. ASSUME Go(r, Over(q, "failed")) PROVE Reported(run[r])'
  <2>1. run'[r] = Over(q, "failed")
    BY <1>3, Goes
  <2>2. run'[r].pc = "failed"
    BY <2>1 DEF Over, Idle
  <2> QED BY <2>2 DEF Reported, Ahead, Active
<1>4. ASSUME Go(r, Over(q, "done")), lock' = q.next PROVE Reported(run[r])'
  <2>1. run'[r] = Over(q, "done")
    BY <1>4, Goes
  <2>2. run'[r].pc = "done" /\ run'[r].status = q.status
    BY <2>1 DEF Over, Idle
  <2>3. ASSUME NEW a \in AliasSet, q.status[a] \in Made PROVE Clean(q.next, a)
    <3>1. PICK d \in DirSet : Stands(a, q.next[a], d) /\ Comes(q, a, d)
      BY <1>1, <2>3 DEF Reported, Active, Promised, WillStand
    <3>2. Matches(client[<<a, d>>], q.next[a])
      BY <1>1, <3>1 DEF Comes
    <3>3. q.next[a] \in Entry
      BY <1>2 DEF Locks
    <3>4. Current(a, q.next[a]) = client[<<a, d>>]
      <4> HIDE DEF q
      <4> QED BY <3>1, <3>2, <3>3, StandsThere DEF Matches, Generated
    <3> QED BY <3>2, <3>4 DEF Clean, LocalProblem, Matches
  <2>4. ASSUME NEW a \in AliasSet, q.status[a] \in Made PROVE Clean(lock, a)'
    <3>1. Clean(q.next, a)
      BY <2>3, <2>4
    <3>2. \A x, e : Current(x, e)' = Current(x, e)
      BY <1>1 DEF Current, ClientDir, Found, Generated
    <3> QED BY <1>4, <3>1, <3>2 DEF Clean, LocalProblem
  <2> QED BY <2>2, <2>4 DEF Reported, Ahead, Active
<1>5. q.lockMode = "unchanged" => q.next = lock
  BY <1>1 DEF Reported
<1> QED BY <1>3, <1>4, <1>5 DEF WriteLock

LEMMA SyncWritesFile ==
  ASSUME Inv, NEW r \in Runs[task], r \in steady, run[r].cmd.kind = "sync", Reported(run[r]), WriteFile(r)
  PROVE  Reported(run[r])'
<1> DEFINE q == run[r]
           o == Head(q.ops)
           w == [q EXCEPT !.ops = Tail(@)]
<1>1. q.pc = "commit" /\ q.ops # << >> /\ lock' = lock
  BY DEF WriteFile, Committing
<1>2. q \in RunRecord(task) /\ q.ops \in Seq(Op) /\ client \in [Paths -> File]
  BY TypedRun DEF Plans
<1>3. /\ o = q.ops[1] /\ 1 \in DOMAIN q.ops
      /\ Len(Tail(q.ops)) = Len(q.ops) - 1 /\ Len(q.ops) \in Nat \ {0}
      /\ \A n \in 1..(Len(q.ops) - 1) : Tail(q.ops)[n] = q.ops[n + 1]
      /\ DOMAIN Tail(q.ops) = 1..(Len(q.ops) - 1) /\ DOMAIN q.ops = 1..Len(q.ops)
  <2> HIDE DEF q
  <2> QED BY <1>1, <1>2 DEF q
<1>4. ASSUME Go(r, Over(q, "failed")) PROVE Reported(run[r])'
  <2>1. run'[r] = Over(q, "failed")
    BY <1>4, Goes
  <2>2. run'[r].pc = "failed"
    BY <2>1 DEF Over, Idle
  <2> QED BY <2>2 DEF Reported, Ahead, Active
<1>5. ASSUME Go(r, w),
             \/ client' = client /\ o.mode = "unchanged"
             \/ client' = [client EXCEPT ![o.at] = o.file]
      PROVE  Reported(run[r])'
  <2>1. run'[r] = w
    <3> HIDE DEF w
    <3> QED BY <1>5, Goes
  <2>2. /\ w.pc = "commit" /\ w.ops = Tail(q.ops) /\ w.next = q.next /\ w.status = q.status
        /\ w.lockMode = q.lockMode
    <3> HIDE DEF q
    <3> QED BY <1>1, <1>2 DEF RunRecord, q
  <2>3. /\ \A p \in Paths : p # o.at => client'[p] = client[p]
        /\ (o.mode = "unchanged" /\ client'[o.at] = client[o.at]) \/ client'[o.at] = o.file
    <3>1. o \in Op
      <4> HIDE DEF q
      <4> QED BY <1>2, <1>3
    <3>2. o.at \in Paths
      <4> HIDE DEF o
      <4> QED BY <3>1 DEF Op
    <3> HIDE DEF q, o
    <3> QED BY <1>2, <1>5, <3>2
  <2> HIDE DEF w
  <2>4. ASSUME NEW a \in AliasSet, q.status[a] \in Made,
               NEW d \in DirSet, Stands(a, q.next[a], d), Comes(q, a, d)
        PROVE  /\ Stands(a, run[r].next[a], d)'
               /\ \/ Matches(client'[<<a, d>>], w.next[a])
                  \/ \E n \in DOMAIN w.ops : w.ops[n].at = <<a, d>>
               /\ \A n \in DOMAIN w.ops :
                    w.ops[n].at[1] = a =>
                      /\ w.ops[n].at = <<a, d>> /\ Matches(w.ops[n].file, w.next[a])
                      /\ w.ops[n].mode = "unchanged" => Matches(client'[w.ops[n].at], w.next[a])
    <3>1. o.at[1] = a =>
            /\ o.at = <<a, d>> /\ Matches(o.file, q.next[a])
            /\ o.mode = "unchanged" => Matches(client[<<a, d>>], q.next[a])
      BY <1>3, <2>4 DEF Comes
    <3>2. o.at = <<a, d>> => Matches(client'[<<a, d>>], q.next[a])
      <4>1. o.at = <<a, d>> => o.at[1] = a
        BY <2>4
      <4> HIDE DEF o, q
      <4> QED BY <2>3, <3>1, <4>1
    <3>3. o.at # <<a, d>> => client'[<<a, d>>] = client[<<a, d>>]
      BY <2>3 DEF Paths
    <3>4. \A x \in DirSet : x # d => client'[<<a, x>>] = client[<<a, x>>]
      <4>1. \A x \in DirSet : <<a, x>> = o.at => o.at[1] = a /\ (x # d => <<a, x>> # <<a, d>>)
        OBVIOUS
      <4>2. \A x \in DirSet : <<a, x>> \in Paths
        BY DEF Paths
      <4> HIDE DEF o, q
      <4> QED BY <2>3, <3>1, <4>1, <4>2
    <3>5. Stands(a, run[r].next[a], d)'
      <4>1. \A m \in DOMAIN Dirs : Dirs[m] \in DirSet
        BY DEF DirSet, ToSet
      <4> HIDE DEF q, o
      <4> QED BY <2>1, <2>2, <2>4, <3>4, <4>1, ProjectAssumption DEF Stands, Generated
    <3>6. /\ \A n \in DOMAIN w.ops : n + 1 \in DOMAIN q.ops /\ w.ops[n] = q.ops[n + 1]
          /\ \A n \in DOMAIN q.ops : n # 1 => n - 1 \in DOMAIN w.ops /\ w.ops[n - 1] = q.ops[n]
      <4> HIDE DEF q, o
      <4> QED BY <1>3, <2>2
    <3>7. \/ Matches(client'[<<a, d>>], q.next[a])
          \/ \E n \in DOMAIN w.ops : w.ops[n].at = <<a, d>>
      <4>1. CASE o.at = <<a, d>>
        BY <3>2, <4>1
      <4>2. CASE o.at # <<a, d>> /\ Matches(client[<<a, d>>], q.next[a])
        BY <3>3, <4>2
      <4>3. CASE o.at # <<a, d>> /\ \E n \in DOMAIN q.ops : q.ops[n].at = <<a, d>>
        BY <1>3, <3>6, <4>3
      <4> QED BY <2>4, <4>1, <4>2, <4>3 DEF Comes
    <3>8. ASSUME NEW n \in DOMAIN w.ops, w.ops[n].at[1] = a
          PROVE  /\ w.ops[n].at = <<a, d>> /\ Matches(w.ops[n].file, q.next[a])
                 /\ w.ops[n].mode = "unchanged" => Matches(client'[w.ops[n].at], q.next[a])
      <4>1. /\ w.ops[n].at = <<a, d>> /\ Matches(w.ops[n].file, q.next[a])
            /\ w.ops[n].mode = "unchanged" => Matches(client[<<a, d>>], q.next[a])
        BY <2>4, <3>6, <3>8 DEF Comes
      <4> QED BY <3>2, <3>3, <4>1
    <3> QED BY <2>2, <3>5, <3>7, <3>8, Zenon
  <2>5. ASSUME NEW a \in AliasSet, q.status[a] \in Made PROVE WillStand(run[r], a)'
    <3>1. PICK d \in DirSet : Stands(a, q.next[a], d) /\ Comes(q, a, d)
      BY <1>1, <2>5 DEF Reported, Active, Promised, WillStand
    <3>2. Comes(run[r], a, d)'
      <4> HIDE DEF q, o
      <4> QED BY <2>1, <2>4, <2>5, <3>1 DEF Comes
    <3>3. Stands(a, run[r].next[a], d)'
      BY <2>1, <2>2, <2>4, <2>5, <3>1
    <3> QED BY <3>2, <3>3 DEF WillStand
  <2>6. Promised(run[r])'
    BY <2>1, <2>2, <2>5 DEF Promised
  <2>7. q.lockMode = "unchanged" => q.next = lock
    BY <1>1 DEF Reported
  <2> QED BY <1>1, <2>1, <2>2, <2>6, <2>7 DEF Reported, Ahead
<1> QED BY <1>4, <1>5 DEF WriteFile

(* The entry that a sync is at.                                              *)
LEMMA AtTurn ==
  ASSUME Inv, NEW r \in Runs[task], r \in steady, run[r].cmd.kind = "sync", Reported(run[r]), AtEntry(r)
  PROVE  LET q == run[r]
             a == Head(q.todo)
         IN  /\ q \in RunRecord(task) /\ q.pc = "entry" /\ lock = q.lock
             /\ Promised(q) /\ q.where = ClientDir(a, q.lock[a])
             /\ q.todo \in Seq(AliasSet) /\ q.todo # << >> /\ a \in AliasSet
             /\ q.status[a] = "none" /\ \A n \in DOMAIN q.ops : q.ops[n].at[1] # a
             /\ IsInjective(Tail(q.todo)) /\ a \notin ToSet(Tail(q.todo))
             /\ \A b \in ToSet(Tail(q.todo)) :
                  b \in AliasSet /\ b # a /\ q.status[b] = "none" /\ \A n \in DOMAIN q.ops : q.ops[n].at[1] # b
<1> DEFINE q == run[r]
           a == Head(q.todo)
<1>1. q.pc = "entry"
  BY DEF AtEntry
<1>2. q \in RunRecord(task) /\ PhaseOK(q) /\ q.todo \in Seq(AliasSet) /\ lock = q.lock
  BY <1>1, TypedRun, AsRead DEF Active, Turns, Sound
<1>3. q.todo # << >>
  BY <1>1, <1>2 DEF PhaseOK
<1>4. Untouched(q) /\ Promised(q) /\ q.where = ClientDir(a, q.lock[a])
  BY <1>1 DEF Reported, Ahead, Active
<1>5. /\ a \in ToSet(q.todo) /\ ToSet(q.todo) \subseteq AliasSet
      /\ ToSet(q.todo) = {a} \cup ToSet(Tail(q.todo))
      /\ a \notin ToSet(Tail(q.todo)) /\ IsInjective(Tail(q.todo))
  <2> HIDE DEF q
  <2> QED BY <1>2, <1>3, <1>4, TailOnce DEF Untouched, q
<1> HIDE DEF q
<1> QED BY <1>1, <1>2, <1>3, <1>4, <1>5 DEF Untouched, q

LEMMA SyncHolds ==
  ASSUME Inv, NEW r \in Runs[task], r \in steady, run[r].cmd.kind = "sync", Reported(run[r]), AtEntry(r),
         NEW s \in Statuses \ Made, Hold(r, s)
  PROVE  Reported(run'[r])
<1> DEFINE q == run[r]
           a == Head(q.todo)
           w == NextEntry(q, s)
<1>1. /\ q \in RunRecord(task) /\ Promised(q)
      /\ q.todo \in Seq(AliasSet) /\ q.todo # << >> /\ a \in AliasSet
      /\ IsInjective(Tail(q.todo))
      /\ \A b \in ToSet(Tail(q.todo)) :
           b \in AliasSet /\ b # a /\ q.status[b] = "none" /\ \A n \in DOMAIN q.ops : q.ops[n].at[1] # b
  BY AtTurn
<1>2. run'[r] = w
  BY Goes DEF Hold
<1>3. /\ w.pc = "entries" /\ w.ops = q.ops /\ w.next = q.next /\ w.todo = Tail(q.todo)
      /\ w.status = [q.status EXCEPT ![a] = s] /\ q.status \in [AliasSet -> Statuses]
  <2> HIDE DEF q
  <2> QED BY <1>1 DEF NextEntry, RunRecord, Reports
<1> HIDE DEF w
<1>4. Untouched(w)
  <2>1. \A b \in ToSet(w.todo) : w.status[b] = "none"
    BY <1>1, <1>3
  <2> QED BY <1>1, <1>3, <2>1 DEF Untouched
<1>5. Promised(w)
  <2>1. \A b \in AliasSet : w.status[b] \in Made => q.status[b] \in Made
    BY <1>1, <1>3
  <2>2. \A b \in AliasSet : WillStand(q, b) => WillStand(w, b)
    <3>1. \A b, d : Comes(q, b, d) => Comes(w, b, d)
      BY <1>3 DEF Comes
    <3> QED BY <1>3, <3>1 DEF WillStand
  <2> QED BY <1>1, <2>1, <2>2 DEF Promised
<1> QED BY <1>2, <1>3, <1>4, <1>5 DEF Reported, Ahead

LEMMA SyncPlans ==
  ASSUME Inv, NEW r \in Runs[task], r \in steady, run[r].cmd.kind = "sync", Reported(run[r]), AtEntry(r),
         NEW f \in File, NEW h \in Nat, NEW v \in Nat, Regenerate(r, f, h, v),
         f.kind = "generated", f.edited = "no", f.hash = h, f.version = v
  PROVE  Reported(run'[r])
<1> DEFINE q == run[r]
           a == Head(q.todo)
           e == q.lock[a]
           o == Planned(<<a, q.where>>, f)
           x == [e EXCEPT !.hash = h, !.pin = v, !.files = @ \cup {q.where}]
           status == IF q.have.kind = "none" THEN "restored"
                     ELSE IF f # q.have \/ h # e.hash \/ v # e.pin
                     THEN "regenerated" ELSE "unchanged"
           w == [NextEntry(q, status) EXCEPT !.ops = Append(@, o), !.next = [@ EXCEPT ![a] = x]]
<1>1. /\ q \in RunRecord(task) /\ Promised(q) /\ q.where = ClientDir(a, e)
      /\ q.todo \in Seq(AliasSet) /\ q.todo # << >> /\ a \in AliasSet
      /\ \A n \in DOMAIN q.ops : q.ops[n].at[1] # a
      /\ IsInjective(Tail(q.todo))
      /\ \A b \in ToSet(Tail(q.todo)) :
           b \in AliasSet /\ b # a /\ q.status[b] = "none" /\ \A n \in DOMAIN q.ops : q.ops[n].at[1] # b
  BY AtTurn
<1>2. run'[r] = w
  <2>1. Go(r, w)
    BY Zenon DEF Regenerate
  <2> HIDE DEF w
  <2> QED BY <2>1, Goes
<1>3. q.lock \in Locks /\ q.ops \in Seq(Op) /\ q.next \in Locks /\ q.where \in DirSet
  BY TypedRun DEF Plans
<1>4. e \in Entry /\ <<a, q.where>> \in Paths
  BY <1>1, <1>3 DEF Locks, Paths
<1>5. x.files = e.files \cup {q.where} /\ x.hash = h /\ x.pin = v
  <2> HIDE DEF e, q
  <2> QED BY <1>4 DEF Entry
<1>6. /\ o \in Op /\ o.at = <<a, q.where>> /\ o.file = f
      /\ o.mode = "unchanged" => client[<<a, q.where>>] = f
  <2> HIDE DEF a, q
  <2> QED BY <1>4, PlannedFits DEF a, q
<1>7. /\ w.pc = "entries" /\ w.ops = Append(q.ops, o) /\ w.next = [q.next EXCEPT ![a] = x]
      /\ w.todo = Tail(q.todo) /\ w.status = [q.status EXCEPT ![a] = status]
      /\ q.status \in [AliasSet -> Statuses] /\ q.next \in [AliasSet -> Entry]
  <2>1. q.status \in [AliasSet -> Statuses] /\ q.next \in [AliasSet -> Entry]
    BY <1>1, <1>3 DEF RunRecord, Reports, Locks
  <2> HIDE DEF q, o, x, status, e
  <2> QED BY <1>1, <2>1 DEF NextEntry, RunRecord
<1>8. /\ DOMAIN w.ops = 1..(Len(q.ops) + 1) /\ DOMAIN q.ops = 1..Len(q.ops) /\ Len(q.ops) \in Nat
      /\ w.ops[Len(q.ops) + 1] = o /\ \A n \in DOMAIN q.ops : w.ops[n] = q.ops[n]
  <2> HIDE DEF q, o, w
  <2> QED BY <1>3, <1>6, <1>7
<1> HIDE DEF w, o, x, status
<1>9. Untouched(w)
  <2>1. \A b \in ToSet(w.todo) : w.status[b] = "none"
    BY <1>1, <1>7
  <2>2. ASSUME NEW b \in ToSet(w.todo), NEW n \in DOMAIN w.ops PROVE w.ops[n].at[1] # b
    <3>1. CASE n = Len(q.ops) + 1
      <4>1. o.at[1] = a
        BY <1>6
      <4> QED BY <1>1, <1>7, <1>8, <2>2, <3>1, <4>1
    <3>2. CASE n # Len(q.ops) + 1
      <4>1. n \in DOMAIN q.ops
        <5> HIDE DEF q
        <5> QED BY <1>8, <2>2, <3>2
      <4> QED BY <1>1, <1>7, <1>8, <2>2, <4>1
    <3> QED BY <3>1, <3>2
  <2> QED BY <1>1, <1>7, <2>1, <2>2 DEF Untouched
<1>10. ASSUME NEW n \in DOMAIN w.ops PROVE (n \in DOMAIN q.ops /\ w.ops[n] = q.ops[n]) \/ w.ops[n] = o
  <2> HIDE DEF q
  <2> QED BY <1>8, <1>10
<1>11. WillStand(w, a)
  <2>1. w.next[a] = x
    BY <1>1, <1>7
  <2>2. Stands(a, x, q.where)
    <3>1. x.files = e.files \cup {ClientDir(a, e)}
      BY <1>1, <1>5
    <3> HIDE DEF e, a
    <3> QED BY <1>1, <1>4, <3>1, LookStands DEF e, a
  <2>3. Matches(f, x)
    BY <1>5 DEF Matches
  <2>4. Len(q.ops) + 1 \in DOMAIN w.ops
    BY <1>8
  <2>5. ASSUME NEW n \in DOMAIN w.ops, w.ops[n].at[1] = a PROVE w.ops[n] = o
    BY <1>1, <1>10, <2>5
  <2>6. Comes(w, a, q.where)
    <3> HIDE DEF q, a
    <3> QED BY <1>6, <1>8, <2>1, <2>3, <2>4, <2>5 DEF Comes
  <2> QED BY <1>3, <2>1, <2>2, <2>6 DEF WillStand
<1>12. ASSUME NEW b \in AliasSet, b # a, WillStand(q, b) PROVE WillStand(w, b)
  <2>1. w.next[b] = q.next[b]
    BY <1>7, <1>12
  <2>2. PICK d \in DirSet : Stands(b, q.next[b], d) /\ Comes(q, b, d)
    BY <1>12 DEF WillStand
  <2>3. o.at[1] # b
    BY <1>6, <1>12
  <2>4. Comes(w, b, d)
    <3>1. \A n \in DOMAIN q.ops : n \in DOMAIN w.ops
      <4> HIDE DEF q
      <4> QED BY <1>8
    <3> HIDE DEF q
    <3> QED BY <1>8, <1>10, <2>1, <2>2, <2>3, <3>1 DEF Comes
  <2> QED BY <2>1, <2>2, <2>4 DEF WillStand
<1>13. Promised(w)
  <2>1. \A b \in AliasSet : b # a => w.status[b] = q.status[b]
    BY <1>7
  <2> QED BY <1>1, <1>11, <1>12, <2>1 DEF Promised
<1> QED BY <1>2, <1>7, <1>9, <1>13 DEF Reported, Ahead

LEMMA SyncTakes ==
  ASSUME Inv, NEW r \in Runs[task], r \in steady, run[r].cmd.kind = "sync", Reported(run[r]),
         SyncPinned(r) \/ SyncLatest(r)
  PROVE  Reported(run[r])'
<1> DEFINE q == run[r]
           a == Head(q.todo)
           e == q.lock[a]
           h == Hash[q.seen]
<1>1. AtEntry(r) /\ UNCHANGED <<lock, client>>
  BY Zenon DEF SyncPinned, SyncLatest
<1>2. a \in AliasSet /\ e \in Entry /\ EntryOK(e) /\ q.seen \in Versions
  BY <1>1, AtEntryFacts
<1>3. h \in Nat /\ q.seen \in Nat
  <2> HIDE DEF q
  <2> QED BY <1>2, HashFacts
<1>4. SUFFICES Reported(run'[r])
  BY <1>1, ReportedThen
<1>5. ASSUME NEW s \in Statuses \ Made, Hold(r, s) PROVE Reported(run'[r])
  BY <1>1, <1>5, SyncHolds
<1>6. \A s \in {"unchanged", "error", "blocked-edited", "blocked-unpublished", "blocked-unvetted",
                "blocked-reapproval", "blocked-breaking"} : s \in Statuses \ Made
  BY DEF Statuses, Made
<1>7. ASSUME NEW c \in Nat, NEW v \in Nat, NEW t \in Nat, Regenerate(r, Rendered(c, v, t), c, v)
      PROVE  Reported(run'[r])
  <2> DEFINE f == Rendered(c, v, t)
  <2>1. f \in File /\ f.kind = "generated" /\ f.edited = "no" /\ f.hash = c /\ f.version = v
    BY RenderedFits
  <2>2. Regenerate(r, f, c, v)
    BY <1>7
  <2> HIDE DEF f
  <2> QED BY <1>1, <2>1, <2>2, SyncPlans
<1>8. CASE SyncPinned(r)
  <2> DEFINE sc == IF e.hash = Hash[q.seen] THEN Hash[q.seen] ELSE PinnedSchema(r, e.pin)
             f  == Rendered(e.hash, e.pin, sc)
  <2>1. e.pin # 0
    BY <1>8, Zenon DEF SyncPinned, StaysPinned
  <2>2. e.pin \in Nat /\ e.hash \in Nat /\ sc \in Nat
    BY <1>2, <1>3, <2>1 DEF EntryOK, Entry, PinnedSchema
  <2>3. \/ Hold(r, "unchanged") \/ Hold(r, "error") \/ Hold(r, "blocked-edited")
        \/ Regenerate(r, f, e.hash, e.pin)
    BY <1>8, Zenon DEF SyncPinned
  <2> HIDE DEF sc, e
  <2> QED BY <1>5, <1>6, <1>7, <2>2, <2>3
<1>9. CASE SyncLatest(r)
  <2> DEFINE Pin(found) == IF found = "published" THEN q.seen ELSE 0
  <2>1. \/ Hold(r, "error") \/ Hold(r, "blocked-unpublished") \/ Hold(r, "blocked-unvetted")
        \/ Hold(r, "blocked-reapproval") \/ Hold(r, "blocked-breaking") \/ Hold(r, "blocked-edited")
        \/ \E found : Regenerate(r, Rendered(h, Pin(found), h), h, Pin(found))
    BY <1>9, Zenon DEF SyncLatest
  <2>2. \A found : Pin(found) \in Nat
    BY <1>3
  <2> HIDE DEF h, Pin
  <2> QED BY <1>3, <1>5, <1>6, <1>7, <2>1, <2>2
<1> QED BY <1>8, <1>9

LEMMA FaithfulStep ==
  ASSUME Inv, [Next]_vars, NEW r \in Runs[task], Faithful(r, run[r])
  PROVE  Faithful(r, run[r])'
<1> SUFFICES ASSUME r \in steady', run'[r].cmd.kind = "sync" PROVE Reported(run[r])'
  BY DEF Faithful
<1>1. CASE run'[r] = run[r]
  <2>1. r \in steady /\ UNCHANGED <<lock, client>>
    BY <1>1, Elsewhere
  <2>2. Reported(run'[r])
    BY <1>1, <2>1 DEF Faithful
  <2> QED BY <2>1, <2>2, ReportedThen
<1>2. CASE run'[r] # run[r]
  <2>1. Next /\ (Begins(r) \/ Asks(r) \/ Syncs(r) \/ Commit(r))
    BY <1>2, WhoGoes DEF vars
  <2>2. CASE Begins(r)
    <3>1. PICK c \in Commands[task] : Start(r, c)
      BY <2>2 DEF Begins
    <3> QED BY <3>1, BegunWith, SyncBegins
  <2>3. CASE ~Begins(r)
    <3>1. run[r].cmd.kind = "sync"
      BY <2>1, <2>3, CommandKept
    <3>2. ~Crash(r)
      BY DEF Crash
    <3>3. r \in steady
      BY <2>1, <2>3, <3>2, Zenon
         DEF Asks, Syncs, Commit, Asked, Fetched, AddPlanned, PinChecked, PinsOver, Look,
         SyncPinned, SyncLatest, EntriesOver, Prechecked, WriteFile, WriteLock
    <3>4. Reported(run[r])
      BY <3>1, <3>3 DEF Faithful
    <3>5. ~AddPlanned(r) /\ ~PinChecked(r) /\ ~PinsOver(r)
      <4>1. "sync" # "add"
        OBVIOUS
      <4> QED BY <3>1, <3>4, <4>1, Zenon DEF AddPlanned, PinChecked, PinsOver, Reported
    <3> QED BY <2>1, <2>3, <3>1, <3>2, <3>3, <3>4, <3>5, SyncAsks, SyncTakes, SyncWritesFile,
               SyncWritesLock DEF Asks, Syncs, Commit
  <2> QED BY <2>2, <2>3
<1> QED BY <1>1, <1>2

FaithfulInv == \A r \in Runs[task] : Faithful(r, run[r])

LEMMA AlwaysFaithful == Spec => []FaithfulInv
<1>1. Init => FaithfulInv
  <2>1. Idle.cmd.kind = "none"
    BY DEF Idle
  <2> QED BY <2>1 DEF Init, FaithfulInv, Faithful
<1>2. ASSUME Inv, FaithfulInv, [Next]_vars PROVE FaithfulInv'
  <2>1. task' = task
    BY <1>2, TaskStays
  <2>2. ASSUME NEW r \in Runs[task] PROVE Faithful(r, run[r])'
    BY <1>2, FaithfulStep DEF FaithfulInv
  <2> QED BY <2>1, <2>2 DEF FaithfulInv
<1> QED BY <1>1, <1>2, AlwaysInv, PTL DEF Spec

(* SyncedIsClean: an entry that a sync reports as regenerated or restored    *)
(* has its client, unedited, of the contract and of the version that         *)
(* swfte.json names, however many entries and directories there are          *)
(* (syncProject).                                                            *)
THEOREM SyncIsFaithful == Spec => []SyncedIsClean
<1>1. ASSUME FaithfulInv PROVE SyncedIsClean
  <2> SUFFICES ASSUME NEW r \in Runs[task], NEW a \in AliasSet, Steady(r, "sync"),
                      run[r].status[a] \in {"regenerated", "restored"}
               PROVE  ~LocalProblem(lock, a) /\ Current(a, lock[a]).version = lock[a].pin
    BY DEF SyncedIsClean
  <2>1. Reported(run[r]) /\ run[r].pc = "done"
    BY <1>1 DEF FaithfulInv, Faithful, Steady
  <2> QED BY <2>1 DEF Reported, Made, Clean
<1> QED BY <1>1, AlwaysFaithful, PTL

=============================================================================
