-------------------------- MODULE GroundingProofs ---------------------------
(***************************************************************************)
(* For every project on the platform, any number of calls and any          *)
(* documents: a reference that a call reports was there, nothing dangles,  *)
(* only an overlap loses anything, and a dataset that is called usable is. *)
(***************************************************************************)
EXTENDS Grounding, FiniteSetTheorems, TLAPS

(* What a call or a record may refer to in a field.                          *)
Fits(f, t) == t \in exists /\ (f = "knowledgeModuleIds" => Kind[t] = "module")

Whole(r) == \A f \in Fields : \A t \in r.refs[f] : Fits(f, t)

(* The steps past the pre-flight, and those before anything is written.      *)
Moving == {"before", "list", "merge", "bind", "put", "after"}
Early == {"idle", "mint", "target", "before", "list", "merge"}

Aim(q) == Field(q.job.from, q.job.relation, q.to)

(* What a call holds at each step.                                           *)
Begins(q) ==
  /\ q.pc = "idle" => q = Idle
  /\ q.pc # "idle" => q.job \in Jobs
  /\ q.pc \in {"mint", "tier"} => q.job.tool = "ground"
  /\ q.pc \notin {"tier", "done"} => q.state = "none" /\ q.grounded = "no"

Aims(q) ==
  /\ q.pc = "target" \/ q.pc \in Moving \/ Ok(q.state) => q.to \in Things /\ Aim(q) \in Fields
  /\ (q.pc = "target" \/ q.pc \in Moving) /\ Aim(q) = "knowledgeModuleIds" => Kind[q.to] = "module"
  /\ q.pc \in Moving => q.to \in exists

Carries(q) ==
  /\ q.pc \in {"list", "merge"} => Aim(q) # "agentId"
  /\ q.pc = "list" => Aim(q) # "brain"
  /\ q.pc = "bind" => Aim(q) = "agentId"
  /\ q.pc \in Early /\ q.pc # "merge" => q.list = {}
  /\ q.pc = "merge" => \A t \in q.list : Fits(Aim(q), t)
  /\ q.pc # "put" => q.body = None
  /\ q.pc = "put" => q.body # None /\ Whole(q.body)

Writes(q) ==
  /\ q.pc \in Early => q.wrote = "no"
  /\ q.state \in {"target-missing", "needs-backend", "already-connected"} => q.wrote = "no"
  /\ q.pc # "idle" /\ q.job.dry => q.wrote = "no" /\ q.pc \notin {"list", "merge", "bind", "put", "after"}

Grounds(q) ==
  /\ q.grounded = "yes" => q.job.tool = "ground" /\ Ok(q.state)
  /\ q.pc \notin {"idle", "mint"} /\ q.job.tool = "ground" /\ Kind[q.job.to] = "dataset" =>
       q.state = "module-create-failed" \/ DatasetOf[q.to] = q.job.to

CallOK(q) == Begins(q) /\ Aims(q) /\ Carries(q) /\ Writes(q) /\ Grounds(q)

(* What a call reports, against what the record has held since it began.     *)
Told(q, m) == q.pc # "idle" /\ Ok(q.state) /\ ~q.job.dry => <<Aim(q), q.to>> \in m

FlightOK(w) ==
  /\ w.body # None => Whole(w.body)
  /\ w.body = None => Fits("agentId", w.to)

Tags == (Fields \X Things) \cup ({"edition"} \X Nat)

World ==
  /\ exists \subseteq Things
  /\ rec \in [Sources -> Records] /\ \A s \in Sources : Whole(rec[s])
  /\ flying \subseteq [src : Sources, body : Records \cup {None}, to : Things]
  /\ \A w \in flying : FlightOK(w)
  /\ first \in [Calls -> SUBSET Tags] /\ met \in [Calls -> SUBSET Tags]

CallsOK ==
  /\ call \in [Calls -> CallStates]
  /\ \A c \in Calls : /\ CallOK(call[c]) /\ Told(call[c], met[c])
                      /\ Begun(c) => Marks(rec[From(c)]) \subseteq met[c]

WireSound == World /\ CallsOK

(* What came to a record while some call on it was under way.                *)
Under(s) == {c \in Calls : Begun(c) /\ From(c) = s}
Lapped(s) == UNION {met[c] \ first[c] : c \in Under(s)}

Lasting(m) == {k \in m : k[1] # "brain"}

(* A body that is to replace the record has all of it, but for an overlap.   *)
Replaces(s, r) == Lasting(Marks(rec[s])) \subseteq Marks(r) \cup Lapped(s)

(* What the calls have read and are to write, and the writes in the air.     *)
CarryOn(calls, air) ==
  /\ \A c \in Calls :
       /\ calls[c].pc = "put" => Replaces(calls[c].job.from, calls[c].body)
       /\ calls[c].pc = "merge" /\ Aim(calls[c]) # "brain" =>
            \A t \in rec[calls[c].job.from].refs[Aim(calls[c])] :
              t \in calls[c].list \/ <<Aim(calls[c]), t>> \in Lapped(calls[c].job.from)
  /\ \A w \in air : Under(w.src) # {} /\ (w.body # None => Replaces(w.src, w.body))

(* What a call found when it began is there, but for an overlap.             *)
Found == \A c \in Calls : Begun(c) => Lasting(first[c]) \subseteq Marks(rec[From(c)]) \cup Lapped(From(c))

NothingSlips == Found /\ CarryOn(call, flying)

(* The build. *)
Shapes ==
  [pc : {"idle", "create", "upload", "confirm", "attach", "poll", "probe", "ready", "unusable",
         "refused", "threw"},
   docs : DocLists \cup {<<>>}, local : {"yes", "no"}, doc : Nat, confirmed : {"yes", "no"},
   rows : SUBSET [doc : Nat, row : Row \cup {NotAttached}], segmented : {"yes", "no"},
   probed : {"no", "retrieves", "nothing", "did not run"}]

BuildTyped ==
  /\ kb \in Shapes
  /\ kb.doc \in 1..Len(kb.docs) + 1
  /\ files \in [1..Len(kb.docs) -> {"none", "kept", "lost"}]
  /\ index \in [1..Len(kb.docs) -> Row \cup {NotAttached}]

Judged == {"probe", "ready", "unusable"}

(* Where the build is in its documents.                                      *)
Reached ==
  /\ kb.pc # "idle" => kb.docs \in DocLists
  /\ kb.pc = "idle" => kb.doc = 1
  /\ kb.pc \in {"create", "upload", "confirm", "attach"} => kb.doc <= Len(kb.docs)
  /\ kb.pc \in {"poll"} \cup Judged => kb.doc = Len(kb.docs) + 1
  /\ kb.pc \notin {"idle", "refused"} => \A i \in 1..Len(kb.docs) : ~Refused(kb.docs[i], kb.local)
  /\ Dataset \in exists => kb.pc \notin {"idle", "create", "refused"}

(* What has become of the files and of the rows of the index.                *)
Indexed ==
  /\ kb.confirmed = "yes" =>
       \A i \in 1..Len(kb.docs) : i < kb.doc \/ (i = kb.doc /\ kb.pc = "attach") => files[i] = "kept"
  /\ \A i \in 1..Len(kb.docs) :
       /\ index[i].status \notin Terminal => index[i].segments = 0 /\ index[i].vectors = 0
       /\ i >= kb.doc /\ kb.pc # "threw" => index[i] = NotAttached

(* What the verdict rests on.                                                *)
Judges ==
  /\ kb.pc \notin Judged => kb.rows = {}
  /\ kb.pc \notin {"ready", "unusable"} => kb.probed = "no"
  /\ \A r \in kb.rows : /\ r.doc \in 1..Len(kb.docs)
                        /\ r.row.status \in Terminal => index[r.doc] = r.row
  /\ \A r1, r2 \in kb.rows : r1.doc = r2.doc => r1 = r2
  /\ kb.segmented = "yes" => Segmented(kb.rows)
  /\ kb.probed = "retrieves" => Vectors # {}
  /\ kb.pc = "ready" => kb.confirmed = "yes" /\ kb.segmented = "yes" /\ kb.probed \in {"retrieves", "did not run"}

BuildSound == BuildTyped /\ Reached /\ Indexed /\ Judges

----------------------------------------------------------------------------
(* What the operators give. *)

LEMMA MarkOf ==
  ASSUME NEW r, NEW f \in Fields, NEW t \in Things
  PROVE  <<f, t>> \in Marks(r) <=> t \in r.refs[f]
  BY DEF Marks, Fields, ListFields

LEMMA MarkIs ==
  ASSUME NEW r, NEW k \in Marks(r)
  PROVE  \/ \E f \in Fields, t \in Things : k = <<f, t>> /\ t \in r.refs[f]
         \/ \E n \in 1..r.edition : k = <<"edition", n>>
  BY DEF Marks

LEMMA MarksAreTags ==
  ASSUME NEW r \in Records
  PROVE  Marks(r) \subseteq Tags
  <1>1. r.edition \in Nat
    BY BoundsAssumption DEF Records
  <1>2. ASSUME NEW n \in 1..r.edition
        PROVE  <<"edition", n>> \in {"edition"} \X Nat
    BY <1>1
  <1> QED BY <1>2 DEF Marks, Tags

LEMMA FieldIs ==
  ASSUME NEW from, NEW relation, NEW to
  PROVE  /\ Field(from, relation, to) \in Fields \cup {NoField}
         /\ Field(from, relation, to) = "knowledgeModuleIds" => Kind[to] = "module"
  BY DEF Field, Fields, ListFields, NoField

LEMMA NothingYet ==
  /\ Idle \in CallStates /\ Idle.pc = "idle" /\ Idle.job = NoJob /\ Idle.list = {} /\ Idle.body = None
  /\ Idle.state = "none" /\ Idle.wrote = "no" /\ Idle.grounded = "no" /\ Idle.retries = 0
  BY DEF Idle, CallStates

(* What exists goes on to exist, and so a call keeps what it holds.          *)
LEMMA CallKeeps ==
  ASSUME NEW q, CallOK(q), exists \subseteq exists'
  PROVE  CallOK(q)'
  BY DEF CallOK, Begins, Aims, Carries, Writes, Grounds, Fits, Whole

LEMMA ThingsKeep ==
  ASSUME exists \subseteq exists'
  PROVE  /\ \A r : Whole(r) => Whole(r)'
         /\ \A w : FlightOK(w) => FlightOK(w)'
  BY DEF Whole, FlightOK, Fits

----------------------------------------------------------------------------
(* What a step does to the records, and to the calls. *)

(* What the record of a call holds after the step, the call has met.         *)
Meets ==
  \A c \in Calls :
    /\ met[c] \subseteq met'[c]
    /\ Begun(c) => Marks(rec'[From(c)]) \subseteq met'[c]

LEMMA CallIs ==
  ASSUME CallsOK, NEW c \in Calls
  PROVE  /\ call[c] \in CallStates /\ CallOK(call[c]) /\ Told(call[c], met[c])
         /\ Begun(c) => call[c].job \in Jobs /\ From(c) \in Sources
         /\ Begun(c) => Marks(rec[From(c)]) \subseteq met[c]
  <1>1. /\ call[c] \in CallStates /\ CallOK(call[c]) /\ Told(call[c], met[c])
        /\ Begun(c) => Marks(rec[From(c)]) \subseteq met[c]
    BY DEF CallsOK
  <1>2. Begun(c) => call[c].job \in Jobs
    BY <1>1 DEF CallOK, Begins, Begun
  <1>3. \A job \in Jobs : job.from \in Sources
    BY JobsAssumption
  <1> QED BY <1>1, <1>2, <1>3 DEF From

LEMMA StandingStill ==
  ASSUME World, CallsOK, exists \subseteq exists', exists' \subseteq Things, UNCHANGED <<rec, flying, first, met>>
  PROVE  World' /\ Meets
  <1>1. World'
    BY ThingsKeep DEF World
  <1>2. rec' = rec /\ met' = met
    OBVIOUS
  <1>3. Meets
    BY <1>2, CallIs DEF Meets
  <1> QED BY <1>1, <1>3

LEMMA Stored ==
  ASSUME World, CallsOK, NEW s \in Sources, NEW r \in Records, Whole(r), Store(s, r), UNCHANGED exists
  PROVE  /\ rec' \in [Sources -> Records] /\ \A x \in Sources : Whole(rec'[x])
         /\ first' \in [Calls -> SUBSET Tags] /\ met' \in [Calls -> SUBSET Tags]
         /\ Meets
  <1>1. rec' = [rec EXCEPT ![s] = r] /\ first' = first
    BY DEF Store
  <1>2. rec' \in [Sources -> Records] /\ \A x \in Sources : Whole(rec'[x])
    BY <1>1 DEF World
  <1>3. met' = [c \in Calls |-> IF Begun(c) /\ From(c) = s THEN met[c] \cup Marks(r) ELSE met[c]]
    BY DEF Store
  <1>4. met' \in [Calls -> SUBSET Tags]
    BY <1>3, MarksAreTags DEF World
  <1>5. ASSUME NEW c \in Calls
        PROVE  /\ met[c] \subseteq met'[c]
               /\ Begun(c) => Marks(rec'[From(c)]) \subseteq met'[c]
    <2>1. CASE Begun(c) /\ From(c) = s
      <3>1. met'[c] = met[c] \cup Marks(r)
        BY <2>1, <1>3
      <3>2. rec'[From(c)] = r
        BY <2>1, <1>1 DEF World
      <3> QED BY <3>1, <3>2
    <2>2. CASE Begun(c) /\ From(c) # s
      <3>1. met'[c] = met[c]
        BY <2>2, <1>3
      <3>2. From(c) \in Sources
        BY <2>2, CallIs
      <3>3. rec'[From(c)] = rec[From(c)]
        BY <2>2, <1>1, <3>2 DEF World
      <3> QED BY <3>1, <3>3, CallIs
    <2>3. CASE ~Begun(c)
      BY <2>3, <1>3
    <2> QED BY <2>1, <2>2, <2>3
  <1> QED BY <1>1, <1>2, <1>4, <1>5 DEF Meets, World

(* What a write leads to is as sound as what it was made from.               *)
LEMMA ServedIsWhole ==
  ASSUME World, NEW w \in [src : Sources, body : Records \cup {None}, to : Things], FlightOK(w)
  PROVE  Served(w) \in Records /\ Whole(Served(w))
  <1> DEFINE r == rec[w.src]
             bound == [r EXCEPT !.refs["agentId"] = {w.to}]
  <1>1. r \in Records /\ Whole(r) /\ w.to \in Things
    BY DEF World
  <1> HIDE DEF r
  <1>2. CASE w.body # None
    BY <1>2 DEF Served, FlightOK
  <1>3. CASE w.body = None /\ r.refs["agentId"] \subseteq {w.to}
    <2>1. Served(w) = bound
      BY <1>3 DEF Served, r
    <2>2. "agentId" \in Fields /\ {w.to} \in SUBSET Things
      BY <1>1 DEF Fields
    <2>3. /\ bound \in Records /\ bound.refs["agentId"] = {w.to}
          /\ \A g \in Fields : g # "agentId" => bound.refs[g] = r.refs[g]
      BY <1>1, <2>2 DEF Records
    <2>4. Whole(bound)
      <3>1. Fits("agentId", w.to)
        BY <1>3 DEF FlightOK
      <3> QED BY <1>1, <2>3, <3>1 DEF Whole
    <2> QED BY <2>1, <2>3, <2>4
  <1>4. CASE w.body = None /\ ~(r.refs["agentId"] \subseteq {w.to})
    <2>1. Served(w) = r
      BY <1>4 DEF Served, r
    <2> QED BY <1>1, <2>1
  <1> QED BY <1>2, <1>3, <1>4

LEMMA FateIsSound ==
  ASSUME World, CallsOK, NEW w \in [src : Sources, body : Records \cup {None}, to : Things], FlightOK(w),
         NEW o \in Outcomes, NEW fate \in Fates(o), Fate(w, fate), UNCHANGED exists
  PROVE  World' /\ Meets
  <1>1. CASE fate = "served"
    <2>1. Store(w.src, Served(w)) /\ flying' = flying
      BY <1>1 DEF Fate
    <2>2. Served(w) \in Records /\ Whole(Served(w)) /\ w.src \in Sources
      BY ServedIsWhole
    <2>3. /\ rec' \in [Sources -> Records] /\ \A x \in Sources : Whole(rec'[x])
          /\ first' \in [Calls -> SUBSET Tags] /\ met' \in [Calls -> SUBSET Tags]
          /\ Meets
      BY <2>1, <2>2, Stored
    <2> QED BY <2>1, <2>3, ThingsKeep DEF World
  <1>2. CASE fate = "flying"
    <2>1. flying' = flying \cup {w} /\ rec' = rec /\ first' = first /\ met' = met
      BY <1>2 DEF Fate, Unchanged
    <2>2. World'
      BY <2>1, ThingsKeep DEF World
    <2>3. Meets
      BY <2>1, CallIs DEF Meets
    <2> QED BY <2>2, <2>3
  <1>3. CASE fate = "dropped"
    <2>1. UNCHANGED <<rec, flying, first, met>>
      BY <1>3 DEF Fate, Unchanged
    <2> QED BY <2>1, StandingStill DEF World
  <1> QED BY <1>1, <1>2, <1>3 DEF Fates, Outcomes

(* One call takes a step, under the job that it has.                         *)
LEMMA OneGoes ==
  ASSUME CallsOK, exists \subseteq exists', Meets, NEW c \in Calls, NEW q \in CallStates, Goto(c, q),
         Begun(c), q.pc # "idle", q.job = call[c].job, CallOK(q), Told(q, met'[c])
  PROVE  CallsOK'
  <1>1. call' = [call EXCEPT ![c] = q]
    BY DEF Goto
  <1>2. call' \in [Calls -> CallStates]
    BY <1>1 DEF CallsOK
  <1>3. ASSUME NEW d \in Calls
        PROVE  (CallOK(call[d]) /\ Told(call[d], met[d]) /\ (Begun(d) => Marks(rec[From(d)]) \subseteq met[d]))'
    <2>1. CASE d = c
      <3>1. call'[d] = q
        BY <2>1, <1>1 DEF CallsOK
      <3>2. Marks(rec'[q.job.from]) \subseteq met'[c]
        BY DEF Meets, From
      <3>3. CallOK(q)' /\ q = call'[d]
        BY <3>1, CallKeeps
      <3>4. Told(call[d], met[d])'
        BY <2>1, <3>1
      <3> QED BY <2>1, <3>1, <3>2, <3>3, <3>4 DEF From
    <2>2. CASE d # c
      <3>1. call'[d] = call[d]
        BY <2>2, <1>1 DEF CallsOK
      <3>2. PICK old : old = call[d]
        OBVIOUS
      <3>3. CallOK(old) /\ Told(old, met[d])
        BY <3>2, CallIs
      <3>4. CallOK(old)'
        BY <3>3, CallKeeps
      <3>5. met[d] \subseteq met'[d] /\ (old.pc # "idle" => Marks(rec'[old.job.from]) \subseteq met'[d])
        BY <3>2 DEF Meets, From, Begun
      <3>6. Told(old, met'[d])
        BY <3>3, <3>5 DEF Told
      <3>7. call'[d] = old
        BY <3>1, <3>2
      <3> QED BY <3>4, <3>5, <3>6, <3>7 DEF Begun, From
    <2> QED BY <2>1, <2>2
  <1> QED BY <1>2, <1>3 DEF CallsOK

----------------------------------------------------------------------------
(* What a call holds after each of its steps. *)

States ==
  {"none", "connected", "already-connected", "write-not-reflected", "target-missing",
   "needs-backend", "failed", "module-create-failed"}

LEMMA EndedIs ==
  ASSUME NEW q \in CallStates, NEW state \in States, NEW new, new = Ended(q, state)
  PROVE  /\ new \in CallStates /\ new.pc = (IF q.job.tool = "ground" THEN "tier" ELSE "done")
         /\ new.state = state /\ new.job = q.job /\ new.to = q.to /\ new.list = q.list /\ new.body = q.body
         /\ new.wrote = q.wrote /\ new.grounded = q.grounded
  <1> DEFINE pc == IF q.job.tool = "ground" THEN "tier" ELSE "done"
  <1>1. pc \in {"tier", "done"} /\ new = [q EXCEPT !.pc = pc, !.state = state]
    BY DEF Ended
  <1> HIDE DEF pc
  <1>2. /\ new \in CallStates /\ new.pc = pc /\ new.state = state /\ new.job = q.job /\ new.to = q.to
        /\ new.list = q.list /\ new.body = q.body /\ new.wrote = q.wrote /\ new.grounded = q.grounded
    BY ONLY <1>1, q \in CallStates, state \in States DEF CallStates, States
  <1> QED BY <1>2 DEF pc

(* The call has ended under one of the results of writeWire.                 *)
LEMMA EndedIsOK ==
  ASSUME NEW q \in CallStates, CallOK(q), q.pc \in {"target"} \cup Moving, q.body = None,
         NEW state \in States \ {"none", "module-create-failed"},
         state \in {"target-missing", "needs-backend", "already-connected"} => q.wrote = "no",
         NEW new, new = Ended(q, state)
  PROVE  /\ new \in CallStates /\ CallOK(new)
         /\ new.job = q.job /\ new.pc \in {"tier", "done"} /\ new.state = state /\ Aim(new) = Aim(q) /\ new.to = q.to
  <1>1. /\ new \in CallStates /\ new.pc = (IF q.job.tool = "ground" THEN "tier" ELSE "done")
        /\ new.state = state /\ new.job = q.job /\ new.to = q.to /\ new.list = q.list /\ new.body = q.body
        /\ new.wrote = q.wrote /\ new.grounded = q.grounded
    BY EndedIs
  <1>4. Aim(new) = Aim(q)
    BY <1>1 DEF Aim
  <1>5. Begins(new)
    BY <1>1 DEF CallOK, Begins, Moving
  <1>6. Aims(new)
    BY <1>1, <1>4 DEF CallOK, Aims, Moving
  <1>7. Carries(new)
    BY <1>1, <1>4 DEF CallOK, Carries, Moving, Early
  <1>8. Writes(new)
    BY <1>1 DEF CallOK, Writes, Moving, Early, Begins
  <1>9. Grounds(new)
    BY <1>1 DEF CallOK, Grounds, Begins, Moving, Ok, States
  <1> QED BY <1>1, <1>4, <1>5, <1>6, <1>7, <1>8, <1>9 DEF CallOK

(* The wire is routed: to the pre-flight, or to an end at once.              *)
LEMMA RoutedIsOK ==
  ASSUME NEW q \in CallStates, q.job \in Jobs, NEW to \in Things,
         q.list = {}, q.body = None, q.state = "none", q.wrote = "no", q.grounded = "no",
         q.job.tool = "ground" /\ Kind[q.job.to] = "dataset" => DatasetOf[to] = q.job.to,
         NEW new, new = Routed(q, to)
  PROVE  /\ new \in CallStates /\ CallOK(new)
         /\ new.job = q.job /\ new.pc \in {"target", "tier", "done"} /\ ~Ok(new.state)
  <1> DEFINE route == Route(q.job.from, q.job.relation, to)
  <1>1. CASE route = "target"
    <2>1. new = [q EXCEPT !.pc = "target", !.to = to]
      BY <1>1 DEF Routed
    <2>2. /\ new.pc = "target" /\ new.to = to /\ new.job = q.job /\ new.list = {} /\ new.body = None
          /\ new.state = "none" /\ new.wrote = "no" /\ new.grounded = "no"
      BY <2>1 DEF CallStates
    <2>3. new \in CallStates
      BY <2>1 DEF CallStates
    <2>4. Aim(new) = Field(q.job.from, q.job.relation, to)
      BY <2>2 DEF Aim
    <2>5. Aim(new) \in Fields /\ (Aim(new) = "knowledgeModuleIds" => Kind[to] = "module")
      BY <1>1, <2>4, FieldIs DEF Route
    <2>6. Begins(new) /\ Aims(new) /\ Carries(new) /\ Writes(new)
      BY <2>2, <2>5 DEF Begins, Aims, Carries, Writes, Moving, Early
    <2>7. Grounds(new) /\ ~Ok(new.state)
      BY <2>2 DEF Grounds, Ok
    <2> QED BY <2>2, <2>3, <2>6, <2>7 DEF CallOK
  <1>2. CASE route # "target"
    <2>1. route = "needs-backend"
      BY <1>2 DEF Route
    <2>2. new = [q EXCEPT !.to = to, !.pc = IF q.job.tool = "ground" THEN "tier" ELSE "done",
                          !.state = "needs-backend"]
      BY <2>1 DEF Routed, Ended, CallStates
    <2>3. /\ new.pc = (IF q.job.tool = "ground" THEN "tier" ELSE "done")
          /\ new.to = to /\ new.job = q.job /\ new.list = {} /\ new.body = None
          /\ new.state = "needs-backend" /\ new.wrote = "no" /\ new.grounded = "no"
      BY <2>2 DEF CallStates
    <2>4. new \in CallStates
      BY <2>2 DEF CallStates
    <2>5. Begins(new) /\ Aims(new) /\ Carries(new) /\ Writes(new)
      BY <2>3 DEF Begins, Aims, Carries, Writes, Moving, Early, Ok
    <2>6. Grounds(new) /\ ~Ok(new.state)
      BY <2>3 DEF Grounds, Ok
    <2> QED BY <2>3, <2>4, <2>5, <2>6 DEF CallOK
  <1> QED BY <1>1, <1>2

(* The call goes on to a step that needs nothing but an existing target.     *)
LEMMA GoesOn ==
  ASSUME NEW q \in CallStates, CallOK(q), q.pc \in {"target"} \cup Moving, q.body = None,
         q.to \in exists, NEW pc \in {"before", "list", "merge", "bind", "after"},
         pc = "before" => q.pc = "target",
         pc \in {"list", "merge", "bind"} => q.pc = "before",
         pc \in {"list", "merge", "bind", "after"} => ~q.job.dry,
         pc \in {"list", "merge"} => Aim(q) # "agentId", pc = "list" => Aim(q) # "brain",
         pc = "bind" => Aim(q) = "agentId",
         NEW new, new = [q EXCEPT !.pc = pc]
  PROVE  new \in CallStates /\ CallOK(new) /\ new.job = q.job /\ new.pc = pc /\ ~Ok(new.state)
  <1>1. /\ new.pc = pc /\ new.to = q.to /\ new.job = q.job /\ new.list = q.list /\ new.body = q.body
        /\ new.state = q.state /\ new.wrote = q.wrote /\ new.grounded = q.grounded
    BY DEF CallStates
  <1>2. new \in CallStates
    BY DEF CallStates
  <1>3. Aim(new) = Aim(q)
    BY <1>1 DEF Aim
  <1>4. Begins(new) /\ new.state = "none"
    BY <1>1 DEF CallOK, Begins, Moving
  <1>5. Aims(new)
    BY <1>1, <1>3 DEF CallOK, Aims, Moving
  <1>6. Carries(new)
    BY <1>1, <1>3 DEF CallOK, Carries, Moving, Early
  <1>7. Writes(new)
    BY <1>1 DEF CallOK, Writes, Moving, Early
  <1>8. Grounds(new)
    BY <1>1 DEF CallOK, Grounds, Begins, Moving
  <1> QED BY <1>1, <1>2, <1>4, <1>5, <1>6, <1>7, <1>8 DEF CallOK, Ok

----------------------------------------------------------------------------
(* The steps of a call, for the records and the calls. *)

LEMMA BeginIsSound ==
  ASSUME WireSound, NEW c \in Calls, Begin(c)
  PROVE  WireSound'
  <1> USE DEF WireSound
  <1>1. PICK job \in Jobs :
          /\ At(c, "idle")
          /\ Goto(c, IF job.tool = "ground" /\ Kind[job.to] = "dataset"
                     THEN [call[c] EXCEPT !.pc = "mint", !.job = job]
                     ELSE Routed([call[c] EXCEPT !.job = job], job.to))
          /\ first' = [first EXCEPT ![c] = Marks(rec[job.from])]
          /\ met' = [met EXCEPT ![c] = Marks(rec[job.from])]
          /\ UNCHANGED <<exists, rec, flying>>
    BY DEF Begin
  <1>2. job.from \in Sources /\ job.to \in Things
    BY JobsAssumption
  <1>3. Marks(rec[job.from]) \subseteq Tags
    BY <1>2, MarksAreTags DEF World
  <1>4. World'
    BY <1>1, <1>3, ThingsKeep DEF World
  <1>5. call[c] = Idle
    BY <1>1, CallIs DEF CallOK, Begins, At
  <1>6. PICK asked : asked = [call[c] EXCEPT !.job = job]
    OBVIOUS
  <1>7. /\ asked \in CallStates /\ asked.job = job /\ asked.list = {} /\ asked.body = None
        /\ asked.state = "none" /\ asked.wrote = "no" /\ asked.grounded = "no"
    BY <1>5, <1>6, NothingYet DEF CallStates
  <1>8. PICK new : new = IF job.tool = "ground" /\ Kind[job.to] = "dataset"
                         THEN [call[c] EXCEPT !.pc = "mint", !.job = job]
                         ELSE Routed([call[c] EXCEPT !.job = job], job.to)
    OBVIOUS
  <1>9. new \in CallStates /\ CallOK(new) /\ new.job = job /\ new.pc # "idle" /\ ~Ok(new.state)
    <2>1. CASE job.tool = "ground" /\ Kind[job.to] = "dataset"
      <3>1. new = [Idle EXCEPT !.pc = "mint", !.job = job]
        BY <2>1, <1>5, <1>8
      <3>2. /\ new \in CallStates /\ new.pc = "mint" /\ new.job = job /\ new.list = {} /\ new.body = None
            /\ new.state = "none" /\ new.wrote = "no" /\ new.grounded = "no"
        BY <3>1, NothingYet DEF CallStates
      <3> QED BY <2>1, <3>2 DEF CallOK, Begins, Aims, Carries, Writes, Grounds, Moving, Early, Ok
    <2>2. CASE ~(job.tool = "ground" /\ Kind[job.to] = "dataset")
      <3>1. new = Routed(asked, job.to)
        BY <2>2, <1>6, <1>8
      <3> QED BY <2>2, <3>1, <1>2, <1>7, RoutedIsOK
    <2> QED BY <2>1, <2>2
  <1>10. call' = [call EXCEPT ![c] = new]
    BY <1>1, <1>8 DEF Goto
  <1>11. CallOK(new)'
    BY <1>1, <1>9, CallKeeps
  <1>12. call' \in [Calls -> CallStates]
    BY <1>9, <1>10 DEF CallsOK
  <1>13. ASSUME NEW d \in Calls
         PROVE  (CallOK(call[d]) /\ Told(call[d], met[d]) /\ (Begun(d) => Marks(rec[From(d)]) \subseteq met[d]))'
    <2>1. CASE d = c
      <3>1. call'[d] = new /\ met'[d] = Marks(rec[job.from]) /\ rec' = rec
        BY <2>1, <1>1, <1>10 DEF CallsOK, World
      <3>2. ~Ok(call[d].state)'
        BY <3>1, <1>9
      <3> QED BY <3>1, <3>2, <1>9, <1>11 DEF Told, From
    <2>2. CASE d # c
      <3>1. call'[d] = call[d] /\ met'[d] = met[d] /\ rec' = rec
        BY <2>2, <1>1, <1>10 DEF CallsOK, World
      <3>2. PICK old : old = call[d]
        OBVIOUS
      <3>3. CallOK(old) /\ Told(old, met[d]) /\ (old.pc # "idle" => Marks(rec[old.job.from]) \subseteq met[d])
        BY <3>2, CallIs DEF From, Begun
      <3>4. CallOK(old)'
        BY <3>3, <1>1, CallKeeps
      <3>5. call'[d] = old
        BY <3>1, <3>2
      <3> QED BY <3>1, <3>3, <3>4, <3>5 DEF Begun, From
    <2> QED BY <2>1, <2>2
  <1>14. CallsOK'
    BY <1>12, <1>13 DEF CallsOK
  <1> QED BY <1>4, <1>14

LEMMA MintIsSound ==
  ASSUME WireSound, NEW c \in Calls, Mint(c)
  PROVE  WireSound'
  <1> USE DEF WireSound
  <1>1. PICK made \in BOOLEAN, o \in Outcomes, id \in BOOLEAN,
             m \in {t \in Things \ exists : Kind[t] = "module" /\ DatasetOf[t] = call[c].job.to} \cup {None} :
          /\ At(c, "mint")
          /\ o = "answered" => made
          /\ made <=> m # None
          /\ exists' = IF made THEN exists \cup {m} ELSE exists
          /\ Goto(c, IF o = "answered" /\ id THEN Routed(call[c], m)
                     ELSE [call[c] EXCEPT !.pc = "done", !.state = "module-create-failed"])
          /\ UNCHANGED <<rec, flying, first, met>>
    BY DEF Mint, Unchanged
  <1>2. PICK q : q = call[c]
    OBVIOUS
  <1>3. q \in CallStates /\ CallOK(q) /\ q.pc = "mint" /\ Begun(c) /\ q.job \in Jobs
    BY <1>1, <1>2, CallIs DEF At, Begun
  <1>4. q.list = {} /\ q.body = None /\ q.state = "none" /\ q.wrote = "no" /\ q.grounded = "no"
    BY <1>3 DEF CallOK, Begins, Carries, Writes, Early
  <1>5. exists \subseteq exists' /\ exists' \subseteq Things
    BY <1>1 DEF World
  <1>6. World' /\ Meets
    BY <1>1, <1>5, StandingStill
  <1>7. PICK new : new = IF o = "answered" /\ id THEN Routed(q, m)
                         ELSE [q EXCEPT !.pc = "done", !.state = "module-create-failed"]
    OBVIOUS
  <1>8. Goto(c, new)
    BY <1>1, <1>2, <1>7
  <1>9. new \in CallStates /\ CallOK(new) /\ new.job = q.job /\ new.pc # "idle" /\ ~Ok(new.state)
    <2>1. CASE o = "answered" /\ id
      <3>1. new = Routed(q, m) /\ m \in Things /\ DatasetOf[m] = q.job.to
        BY <2>1, <1>1, <1>2, <1>7
      <3> QED BY <3>1, <1>3, <1>4, RoutedIsOK
    <2>2. CASE ~(o = "answered" /\ id)
      <3>1. new = [q EXCEPT !.pc = "done", !.state = "module-create-failed"]
        BY <2>2, <1>7
      <3>2. /\ new \in CallStates /\ new.pc = "done" /\ new.job = q.job /\ new.list = {} /\ new.body = None
            /\ new.state = "module-create-failed" /\ new.wrote = "no" /\ new.grounded = "no"
        BY <3>1, <1>3, <1>4 DEF CallStates
      <3> QED BY <3>2, <1>3 DEF CallOK, Begins, Aims, Carries, Writes, Grounds, Moving, Early, Ok
    <2> QED BY <2>1, <2>2
  <1>10. Told(new, met'[c])
    BY <1>9 DEF Told
  <1>11. CallsOK'
    BY <1>2, <1>3, <1>5, <1>6, <1>8, <1>9, <1>10, OneGoes
  <1> QED BY <1>6, <1>11

(* A step that only reads.                                                   *)
LEMMA ReadsAlone ==
  ASSUME WireSound, NEW c \in Calls, Begun(c), NEW new \in CallStates, Goto(c, new), CallOK(new),
         new.job = call[c].job, new.pc # "idle", Told(new, met[c]),
         UNCHANGED <<exists, rec, flying, first, met>>
  PROVE  WireSound'
  <1>1. exists' = exists /\ exists' \subseteq Things /\ met' = met
    BY DEF WireSound, World
  <1>2. World' /\ Meets
    BY <1>1, StandingStill DEF WireSound
  <1>3. CallsOK'
    BY <1>1, <1>2, OneGoes DEF WireSound
  <1> QED BY <1>2, <1>3 DEF WireSound

(* What stands in the record now, the call has met.                          *)
LEMMA HeldIsMet ==
  ASSUME WireSound, NEW c \in Calls, Begun(c), Holds(rec[From(c)], c), call[c].to \in Things,
         FieldOf(c) \in Fields
  PROVE  <<Aim(call[c]), call[c].to>> \in met[c]
  <1>1. <<FieldOf(c), call[c].to>> \in Marks(rec[From(c)])
    BY MarkOf DEF Holds
  <1>2. Aim(call[c]) = FieldOf(c)
    BY DEF Aim, FieldOf, From
  <1>3. Marks(rec[From(c)]) \subseteq met[c]
    BY CallIs DEF WireSound
  <1> QED BY <1>1, <1>2, <1>3

LEMMA ReadTargetIsSound ==
  ASSUME WireSound, NEW c \in Calls, ReadTarget(c)
  PROVE  WireSound'
  <1>1. PICK read \in ({call[c].to} \cap exists) \cup {None} :
          /\ At(c, "target")
          /\ IF read = None THEN Ends(c, "target-missing") ELSE Goto(c, [call[c] EXCEPT !.pc = "before"])
          /\ UNCHANGED <<exists, rec, flying, first, met>>
    BY DEF ReadTarget, Unchanged
  <1>2. PICK q : q = call[c]
    OBVIOUS
  <1>3. q \in CallStates /\ CallOK(q) /\ q.pc = "target" /\ Begun(c)
    BY <1>1, <1>2, CallIs DEF At, Begun, WireSound
  <1>4. q.body = None /\ q.wrote = "no"
    BY <1>3 DEF CallOK, Carries, Writes, Early
  <1>5. CASE read = None
    <2>1. PICK new : new = Ended(q, "target-missing")
      OBVIOUS
    <2>2. Goto(c, new)
      BY <1>1, <1>2, <1>5, <2>1 DEF Ends
    <2>3. new \in CallStates /\ CallOK(new) /\ new.job = q.job /\ new.pc \in {"tier", "done"}
          /\ new.state = "target-missing"
      BY <1>3, <1>4, <2>1, EndedIsOK DEF States
    <2>4. Told(new, met[c])
      BY <2>3 DEF Told, Ok
    <2> QED BY <1>1, <1>2, <1>3, <2>2, <2>3, <2>4, ReadsAlone
  <1>6. CASE read # None
    <2>1. PICK new : new = [q EXCEPT !.pc = "before"]
      OBVIOUS
    <2>2. Goto(c, new)
      BY <1>1, <1>2, <1>6, <2>1
    <2>3. q.to \in exists
      BY <1>1, <1>2, <1>6
    <2>4. new \in CallStates /\ CallOK(new) /\ new.job = q.job /\ new.pc = "before" /\ ~Ok(new.state)
      BY <1>3, <1>4, <2>1, <2>3, GoesOn
    <2>5. Told(new, met[c])
      BY <2>4 DEF Told
    <2> QED BY <1>1, <1>2, <1>3, <2>2, <2>4, <2>5, ReadsAlone
  <1> QED BY <1>5, <1>6

LEMMA ReadBeforeIsSound ==
  ASSUME WireSound, NEW c \in Calls, ReadBefore(c)
  PROVE  WireSound'
  <1>1. PICK read \in BOOLEAN :
          /\ At(c, "before")
          /\ CASE read /\ Holds(rec[From(c)], c) -> Ends(c, "already-connected")
               [] ~(read /\ Holds(rec[From(c)], c)) /\ call[c].job.dry -> Ends(c, "connected")
               [] ~(read /\ Holds(rec[From(c)], c)) /\ ~call[c].job.dry ->
                    IF FieldOf(c) = "brain" /\ Kind[call[c].to] \notin BrainKinds
                    THEN Ends(c, "failed") ELSE Goto(c, [call[c] EXCEPT !.pc = Writer(c)])
          /\ UNCHANGED <<exists, rec, flying, first, met>>
    BY DEF ReadBefore, Unchanged
  <1>2. PICK q : q = call[c]
    OBVIOUS
  <1>3. q \in CallStates /\ CallOK(q) /\ q.pc = "before" /\ Begun(c) /\ q.job \in Jobs
    BY <1>1, <1>2, CallIs DEF At, Begun, WireSound
  <1>4. q.body = None /\ q.wrote = "no"
    BY <1>3 DEF CallOK, Carries, Writes, Early
  <1>5. q.to \in exists /\ q.to \in Things /\ Aim(q) \in Fields /\ Aim(q) = FieldOf(c)
    BY <1>2, <1>3 DEF CallOK, Aims, Moving, Aim, FieldOf, From
  <1>6. ASSUME NEW state \in {"already-connected", "connected", "failed"}, Ends(c, state),
               \/ state = "already-connected" /\ Holds(rec[From(c)], c)
               \/ state = "connected" /\ q.job.dry
               \/ state = "failed"
        PROVE  WireSound'
    <2>1. PICK new : new = Ended(q, state)
      OBVIOUS
    <2>2. Goto(c, new)
      BY <1>2, <1>6, <2>1 DEF Ends
    <2>3. new \in CallStates /\ CallOK(new) /\ new.job = q.job /\ new.pc \in {"tier", "done"}
          /\ new.state = state /\ Aim(new) = Aim(q) /\ new.to = q.to
      BY <1>3, <1>4, <1>6, <2>1, EndedIsOK DEF States, Moving
    <2>4. Told(new, met[c])
      <3>1. CASE state = "already-connected"
        <4>1. <<Aim(q), q.to>> \in met[c]
          BY <1>2, <1>3, <1>5, <1>6, <3>1, HeldIsMet
        <4> QED BY <2>3, <4>1 DEF Told
      <3>2. CASE state = "connected"
        BY <1>6, <2>3, <3>2 DEF Told
      <3>3. CASE state = "failed"
        BY <2>3, <3>3 DEF Told, Ok
      <3> QED BY <3>1, <3>2, <3>3
    <2> QED BY <1>1, <1>2, <1>3, <2>2, <2>3, <2>4, ReadsAlone
  <1>7. ASSUME Goto(c, [call[c] EXCEPT !.pc = Writer(c)]), ~q.job.dry
        PROVE  WireSound'
    <2>1. PICK pc : pc = Writer(c)
      OBVIOUS
    <2>2. PICK new : new = [q EXCEPT !.pc = pc]
      OBVIOUS
    <2>3. Goto(c, new)
      BY <1>2, <1>7, <2>1, <2>2
    <2>4. \/ pc = "merge" /\ Aim(q) = "brain"
          \/ pc = "bind" /\ Aim(q) = "agentId"
          \/ pc = "list" /\ Aim(q) \notin {"brain", "agentId"}
      BY <1>5, <2>1 DEF Writer
    <2>5. new \in CallStates /\ CallOK(new) /\ new.job = q.job /\ new.pc = pc /\ ~Ok(new.state)
      <3>1. q.pc \in {"target"} \cup Moving /\ pc # "before"
        BY <1>3, <2>4 DEF Moving
      <3>2. CASE pc = "merge" /\ Aim(q) = "brain"
        BY <1>3, <1>4, <1>5, <1>7, <2>2, <3>1, <3>2, GoesOn
      <3>3. CASE pc = "bind" /\ Aim(q) = "agentId"
        BY <1>3, <1>4, <1>5, <1>7, <2>2, <3>1, <3>3, GoesOn
      <3>4. CASE pc = "list" /\ Aim(q) \notin {"brain", "agentId"}
        BY <1>3, <1>4, <1>5, <1>7, <2>2, <3>1, <3>4, GoesOn
      <3> QED BY <2>4, <3>2, <3>3, <3>4
    <2>6. Told(new, met[c])
      BY <2>5 DEF Told
    <2> QED BY <1>1, <1>2, <1>3, <2>3, <2>4, <2>5, <2>6, ReadsAlone
  <1>8. CASE read /\ Holds(rec[From(c)], c)
    <2>1. Ends(c, "already-connected")
      BY <1>1, <1>8
    <2> QED BY <1>6, <1>8, <2>1
  <1>9. CASE ~(read /\ Holds(rec[From(c)], c)) /\ q.job.dry
    <2>1. Ends(c, "connected")
      BY <1>1, <1>2, <1>9
    <2> QED BY <1>6, <1>9, <2>1
  <1>10. CASE ~(read /\ Holds(rec[From(c)], c)) /\ ~q.job.dry
    <2>1. Ends(c, "failed") \/ Goto(c, [call[c] EXCEPT !.pc = Writer(c)])
      BY <1>1, <1>2, <1>10
    <2> QED BY <1>6, <1>7, <1>10, <2>1
  <1> QED BY <1>8, <1>9, <1>10

LEMMA ReadListIsSound ==
  ASSUME WireSound, NEW c \in Calls, ReadList(c)
  PROVE  WireSound'
  <1>1. PICK read \in BOOLEAN :
          /\ At(c, "list")
          /\ CASE ~read -> Ends(c, "failed")
               [] read /\ Holds(rec[From(c)], c) -> Goto(c, [call[c] EXCEPT !.pc = "after"])
               [] OTHER -> Goto(c, [call[c] EXCEPT !.pc = "merge", !.list = rec[From(c)].refs[FieldOf(c)]])
          /\ UNCHANGED <<exists, rec, flying, first, met>>
    BY DEF ReadList, Unchanged
  <1>2. PICK q : q = call[c]
    OBVIOUS
  <1>3. q \in CallStates /\ CallOK(q) /\ q.pc = "list" /\ Begun(c) /\ From(c) \in Sources
    BY <1>1, <1>2, CallIs DEF At, Begun, WireSound
  <1>4. q.body = None /\ q.wrote = "no" /\ q.state = "none" /\ ~q.job.dry
    BY <1>3 DEF CallOK, Begins, Carries, Writes, Early
  <1>5. q.to \in exists /\ q.to \in Things /\ Aim(q) \in Fields /\ Aim(q) = FieldOf(c)
        /\ Aim(q) # "agentId"
    BY <1>2, <1>3 DEF CallOK, Aims, Carries, Moving, Aim, FieldOf, From
  <1>6. CASE ~read
    <2>1. PICK new : new = Ended(q, "failed")
      OBVIOUS
    <2>2. Goto(c, new)
      BY <1>1, <1>2, <1>6, <2>1 DEF Ends
    <2>3. new \in CallStates /\ CallOK(new) /\ new.job = q.job /\ new.pc \in {"tier", "done"}
          /\ new.state = "failed"
      BY <1>3, <1>4, <2>1, EndedIsOK DEF States, Moving
    <2>4. Told(new, met[c])
      BY <2>3 DEF Told, Ok
    <2> QED BY <1>1, <1>2, <1>3, <2>2, <2>3, <2>4, ReadsAlone
  <1>7. CASE read /\ Holds(rec[From(c)], c)
    <2>1. PICK new : new = [q EXCEPT !.pc = "after"]
      OBVIOUS
    <2>2. Goto(c, new)
      BY <1>1, <1>2, <1>7, <2>1
    <2>3. new \in CallStates /\ CallOK(new) /\ new.job = q.job /\ new.pc = "after" /\ ~Ok(new.state)
      BY <1>3, <1>4, <1>5, <2>1, GoesOn DEF Moving
    <2>4. Told(new, met[c])
      BY <2>3 DEF Told
    <2> QED BY <1>1, <1>2, <1>3, <2>2, <2>3, <2>4, ReadsAlone
  <1>8. CASE read /\ ~Holds(rec[From(c)], c)
    <2>1. PICK list : list = rec[From(c)].refs[FieldOf(c)]
      OBVIOUS
    <2>2. list \in SUBSET Things /\ \A t \in list : Fits(Aim(q), t)
      BY <1>3, <1>5, <2>1 DEF WireSound, World, Records, Whole
    <2>3. PICK new : new = [q EXCEPT !.pc = "merge", !.list = list]
      OBVIOUS
    <2>4. Goto(c, new)
      BY <1>1, <1>2, <1>8, <2>1, <2>3
    <2>5. /\ new \in CallStates /\ new.pc = "merge" /\ new.to = q.to /\ new.job = q.job /\ new.list = list
          /\ new.body = q.body /\ new.state = q.state /\ new.wrote = q.wrote /\ new.grounded = q.grounded
      BY <1>3, <2>2, <2>3 DEF CallStates
    <2>6. Aim(new) = Aim(q)
      BY <2>5 DEF Aim
    <2>7. Begins(new) /\ Aims(new) /\ Carries(new) /\ Writes(new)
      BY <1>3, <1>4, <1>5, <2>2, <2>5, <2>6 DEF CallOK, Begins, Aims, Carries, Writes, Moving, Early, Ok
    <2>8. Grounds(new)
      BY <1>3, <2>5 DEF CallOK, Grounds, Begins
    <2>9. Told(new, met[c])
      BY <1>4, <2>5 DEF Told, Ok
    <2> QED BY <1>1, <1>2, <1>3, <2>4, <2>5, <2>7, <2>8, <2>9, ReadsAlone DEF CallOK
  <1> QED BY <1>6, <1>7, <1>8

LEMMA MergeGetIsSound ==
  ASSUME WireSound, NEW c \in Calls, MergeGet(c)
  PROVE  WireSound'
  <1>1. PICK read \in BOOLEAN :
          /\ At(c, "merge")
          /\ IF read
             THEN Goto(c, [call[c] EXCEPT !.pc = "put", !.body = Overlaid(c), !.list = {}, !.retries = 1])
             ELSE Ends(c, "failed")
          /\ UNCHANGED <<exists, rec, flying, first, met>>
    BY DEF MergeGet, Unchanged
  <1>2. PICK q : q = call[c]
    OBVIOUS
  <1>3. q \in CallStates /\ CallOK(q) /\ q.pc = "merge" /\ Begun(c) /\ From(c) \in Sources
    BY <1>1, <1>2, CallIs DEF At, Begun, WireSound
  <1>4. q.body = None /\ q.wrote = "no" /\ q.state = "none" /\ ~q.job.dry /\ \A t \in q.list : Fits(Aim(q), t)
    BY <1>3 DEF CallOK, Begins, Carries, Writes, Early
  <1>5. q.to \in exists /\ q.to \in Things /\ Aim(q) \in Fields /\ Aim(q) = FieldOf(c) /\ Fits(Aim(q), q.to)
    BY <1>2, <1>3 DEF CallOK, Aims, Moving, Aim, FieldOf, From, Fits
  <1>6. CASE ~read
    <2>1. PICK new : new = Ended(q, "failed")
      OBVIOUS
    <2>2. Goto(c, new)
      BY <1>1, <1>2, <1>6, <2>1 DEF Ends
    <2>3. new \in CallStates /\ CallOK(new) /\ new.job = q.job /\ new.pc \in {"tier", "done"}
          /\ new.state = "failed"
      BY <1>3, <1>4, <2>1, EndedIsOK DEF States, Moving
    <2>4. Told(new, met[c])
      BY <2>3 DEF Told, Ok
    <2> QED BY <1>1, <1>2, <1>3, <2>2, <2>3, <2>4, ReadsAlone
  <1>7. CASE read
    <2>1. PICK refs : refs = NewRefs(c)
      OBVIOUS
    <2>2. refs \in SUBSET Things /\ \A t \in refs : Fits(Aim(q), t)
      BY <1>2, <1>3, <1>4, <1>5, <2>1 DEF NewRefs, CallStates
    <2>3. PICK r : r = rec[From(c)]
      OBVIOUS
    <2>4. r \in Records /\ Whole(r)
      BY <1>3, <2>3 DEF WireSound, World
    <2>5. PICK body : body = [r EXCEPT !.refs[Aim(q)] = refs]
      OBVIOUS
    <2>6. /\ body \in Records /\ body.refs[Aim(q)] = refs
          /\ \A g \in Fields : g # Aim(q) => body.refs[g] = r.refs[g]
      BY <1>5, <2>2, <2>4, <2>5 DEF Records
    <2>7. Whole(body)
      BY <2>2, <2>4, <2>6 DEF Whole
    <2>8. body = Overlaid(c)
      BY <1>5, <2>1, <2>3, <2>5 DEF Overlaid
    <2>9. PICK new : new = [q EXCEPT !.pc = "put", !.body = body, !.list = {}, !.retries = 1]
      OBVIOUS
    <2>10. Goto(c, new)
      BY <1>1, <1>2, <1>7, <2>8, <2>9
    <2>11. /\ new \in CallStates /\ new.pc = "put" /\ new.to = q.to /\ new.job = q.job /\ new.list = {}
           /\ new.body = body /\ new.state = q.state /\ new.wrote = q.wrote /\ new.grounded = q.grounded
      BY <1>3, <2>6, <2>9 DEF CallStates
    <2>12. Aim(new) = Aim(q)
      BY <2>11 DEF Aim
    <2>13. body # None
      BY <2>6, NoneAssumption
    <2>14. Begins(new) /\ Aims(new) /\ Carries(new) /\ Writes(new)
      BY <1>3, <1>4, <1>5, <2>7, <2>11, <2>12, <2>13
         DEF CallOK, Begins, Aims, Carries, Writes, Moving, Early, Ok
    <2>15. Grounds(new)
      BY <1>3, <2>11 DEF CallOK, Grounds, Begins
    <2>16. Told(new, met[c])
      BY <1>4, <2>11 DEF Told, Ok
    <2> QED BY <1>1, <1>2, <1>3, <2>10, <2>11, <2>14, <2>15, <2>16, ReadsAlone DEF CallOK
  <1> QED BY <1>6, <1>7

(* The write of a call, as it is sent.                                       *)
LEMMA WriteIsSound ==
  ASSUME WireSound, NEW c \in Calls, call[c].pc \in {"put", "bind"}
  PROVE  /\ Write(c) \in [src : Sources, body : Records \cup {None}, to : Things]
         /\ FlightOK(Write(c))
  <1>1. PICK q : q = call[c]
    OBVIOUS
  <1>2. q \in CallStates /\ CallOK(q) /\ Begun(c) /\ From(c) \in Sources /\ q.pc \in {"put", "bind"}
    BY <1>1, CallIs DEF Begun, WireSound
  <1>3. q.to \in exists /\ q.to \in Things /\ q.body \in Records \cup {None}
    BY <1>2 DEF CallOK, Aims, Moving, CallStates
  <1>4. PICK w : w = [src |-> From(c), body |-> q.body, to |-> q.to]
    OBVIOUS
  <1>5. w = Write(c)
    BY <1>1, <1>4 DEF Write
  <1>6. w.body # None => Whole(w.body)
    BY <1>2, <1>4 DEF CallOK, Carries
  <1>7. Fits("agentId", w.to)
    BY <1>3, <1>4 DEF Fits
  <1>8. w \in [src : Sources, body : Records \cup {None}, to : Things]
    BY <1>2, <1>3, <1>4
  <1> QED BY <1>5, <1>6, <1>7, <1>8 DEF FlightOK

(* What becomes of a call whose write was sent: it goes on, repeats or ends. *)
LEMMA SentIsOK ==
  ASSUME NEW q \in CallStates, CallOK(q), q.pc \in {"put", "bind"}, NEW new,
         \/ new = [q EXCEPT !.pc = "after", !.wrote = "yes", !.body = None]
         \/ q.pc = "put" /\ q.retries > 0 /\ new = [q EXCEPT !.retries = @ - 1, !.wrote = "yes"]
         \/ new = Ended([q EXCEPT !.body = None, !.wrote = "yes"], "failed")
  PROVE  /\ new \in CallStates /\ CallOK(new)
         /\ new.job = q.job /\ new.pc # "idle" /\ ~Ok(new.state)
  <1>1. q.state = "none" /\ q.grounded = "no" /\ ~q.job.dry
    BY DEF CallOK, Begins, Writes
  <1>2. CASE new = [q EXCEPT !.pc = "after", !.wrote = "yes", !.body = None]
    <2>1. /\ new \in CallStates /\ new.pc = "after" /\ new.to = q.to /\ new.job = q.job /\ new.list = q.list
          /\ new.body = None /\ new.state = q.state /\ new.wrote = "yes" /\ new.grounded = q.grounded
      BY <1>2 DEF CallStates
    <2>2. Aim(new) = Aim(q)
      BY <2>1 DEF Aim
    <2>3. Begins(new) /\ Aims(new) /\ Carries(new) /\ Writes(new)
      BY <1>1, <2>1, <2>2 DEF CallOK, Begins, Aims, Carries, Writes, Moving, Early, Ok
    <2>4. Grounds(new)
      BY <2>1 DEF CallOK, Grounds
    <2> QED BY <1>1, <2>1, <2>3, <2>4 DEF CallOK, Ok
  <1>3. CASE q.pc = "put" /\ q.retries > 0 /\ new = [q EXCEPT !.retries = @ - 1, !.wrote = "yes"]
    <2>1. q.retries = 1
      BY <1>3 DEF CallStates
    <2>2. new = [q EXCEPT !.retries = 0, !.wrote = "yes"]
      BY <1>3, <2>1
    <2>3. /\ new \in CallStates /\ new.pc = "put" /\ new.to = q.to /\ new.job = q.job /\ new.list = q.list
          /\ new.body = q.body /\ new.state = q.state /\ new.wrote = "yes" /\ new.grounded = q.grounded
      BY <1>3, <2>2 DEF CallStates
    <2>4. Aim(new) = Aim(q)
      BY <2>3 DEF Aim
    <2>5. Begins(new) /\ Aims(new) /\ Carries(new) /\ Writes(new)
      BY <1>1, <1>3, <2>3, <2>4 DEF CallOK, Begins, Aims, Carries, Writes, Moving, Early, Ok
    <2>6. Grounds(new)
      BY <1>3, <2>3 DEF CallOK, Grounds
    <2> QED BY <1>1, <2>3, <2>5, <2>6 DEF CallOK, Ok
  <1>4. CASE new = Ended([q EXCEPT !.body = None, !.wrote = "yes"], "failed")
    <2>1. PICK sent : sent = [q EXCEPT !.body = None, !.wrote = "yes"]
      OBVIOUS
    <2>2. /\ sent \in CallStates /\ sent.pc = q.pc /\ sent.to = q.to /\ sent.job = q.job /\ sent.list = q.list
          /\ sent.body = None /\ sent.state = q.state /\ sent.wrote = "yes" /\ sent.grounded = q.grounded
      BY <2>1 DEF CallStates
    <2>3. new = Ended(sent, "failed")
      BY <1>4, <2>1
    <2>4. /\ new.pc = (IF q.job.tool = "ground" THEN "tier" ELSE "done")
          /\ new.to = q.to /\ new.job = q.job /\ new.list = q.list /\ new.body = None /\ new.state = "failed"
          /\ new.wrote = "yes" /\ new.grounded = q.grounded
      BY <2>2, <2>3, EndedIs DEF States
    <2>5. new \in CallStates
      BY <2>2, <2>3, EndedIs DEF States
    <2>6. Begins(new) /\ Aims(new) /\ Carries(new) /\ Writes(new)
      BY <1>1, <2>4 DEF CallOK, Begins, Aims, Carries, Writes, Moving, Early, Ok
    <2>7. Grounds(new)
      BY <1>1, <2>4 DEF CallOK, Grounds
    <2> QED BY <1>1, <2>4, <2>5, <2>6, <2>7 DEF CallOK, Ok
  <1> QED BY <1>2, <1>3, <1>4

LEMMA SendsIsSound ==
  ASSUME WireSound, NEW c \in Calls, call[c].pc \in {"put", "bind"}, NEW o \in Outcomes, NEW fate \in Fates(o),
         Fate(Write(c), fate), UNCHANGED exists, NEW new, Goto(c, new),
         \/ new = [call[c] EXCEPT !.pc = "after", !.wrote = "yes", !.body = None]
         \/ /\ call[c].pc = "put" /\ call[c].retries > 0
            /\ new = [call[c] EXCEPT !.retries = @ - 1, !.wrote = "yes"]
         \/ new = Ended([call[c] EXCEPT !.body = None, !.wrote = "yes"], "failed")
  PROVE  WireSound'
  <1>1. PICK q : q = call[c]
    OBVIOUS
  <1>2. q \in CallStates /\ CallOK(q) /\ Begun(c) /\ q.pc \in {"put", "bind"}
    BY <1>1, CallIs DEF Begun, WireSound
  <1>3. PICK w : w = Write(c)
    OBVIOUS
  <1>4. World' /\ Meets
    <2>1. w \in [src : Sources, body : Records \cup {None}, to : Things] /\ FlightOK(w)
      BY <1>3, WriteIsSound
    <2> QED BY <1>3, <2>1, FateIsSound DEF WireSound
  <1>5. new \in CallStates /\ CallOK(new) /\ new.job = q.job /\ new.pc # "idle" /\ ~Ok(new.state)
    BY <1>1, <1>2, SentIsOK
  <1>6. Told(new, met'[c])
    BY <1>5 DEF Told
  <1>7. CallsOK'
    BY <1>1, <1>2, <1>4, <1>5, <1>6, OneGoes DEF WireSound
  <1> QED BY <1>4, <1>7 DEF WireSound

(* What a call becomes when its write was sent. *)
Sent(c, new) ==
  \/ new = [call[c] EXCEPT !.pc = "after", !.wrote = "yes", !.body = None]
  \/ /\ call[c].pc = "put" /\ call[c].retries > 0
     /\ new = [call[c] EXCEPT !.retries = @ - 1, !.wrote = "yes"]
  \/ new = Ended([call[c] EXCEPT !.body = None, !.wrote = "yes"], "failed")

Sends(c) ==
  \E o \in Outcomes : \E fate \in Fates(o) : Fate(Write(c), fate) /\ \E new : Goto(c, new) /\ Sent(c, new)

LEMMA PutSends ==
  ASSUME NEW c \in Calls, Put(c)
  PROVE  call[c].pc = "put" /\ UNCHANGED exists /\ Sends(c)
  <1>1. PICK o \in Outcomes : \E fate \in Fates(o) :
          /\ At(c, "put")
          /\ Fate(Write(c), fate)
          /\ CASE o = "answered" -> Goto(c, [call[c] EXCEPT !.pc = "after", !.wrote = "yes", !.body = None])
               [] Again(o, call[c].retries) -> Goto(c, [call[c] EXCEPT !.retries = @ - 1, !.wrote = "yes"])
               [] OTHER -> Goto(c, Ended([call[c] EXCEPT !.body = None, !.wrote = "yes"], "failed"))
          /\ UNCHANGED exists
    BY DEF Put
  <1>2. PICK fate \in Fates(o) : Fate(Write(c), fate)
    BY <1>1
  <1>3. call[c].pc = "put" /\ UNCHANGED exists
    BY <1>1 DEF At
  <1>4. \E new : Goto(c, new) /\ Sent(c, new)
    <2>1. CASE o = "answered"
      <3>1. Goto(c, [call[c] EXCEPT !.pc = "after", !.wrote = "yes", !.body = None])
        BY <1>1, <2>1 DEF Again
      <3> QED BY <3>1 DEF Sent
    <2>2. CASE o # "answered" /\ Again(o, call[c].retries)
      <3>1. call[c].retries > 0
        BY <2>2 DEF Again
      <3>2. Goto(c, [call[c] EXCEPT !.retries = @ - 1, !.wrote = "yes"])
        BY <1>1, <2>2
      <3> QED BY <1>3, <3>1, <3>2 DEF Sent
    <2>3. CASE o # "answered" /\ ~Again(o, call[c].retries)
      <3>1. Goto(c, Ended([call[c] EXCEPT !.body = None, !.wrote = "yes"], "failed"))
        BY <1>1, <2>3
      <3> QED BY <3>1 DEF Sent
    <2> QED BY <2>1, <2>2, <2>3
  <1> QED BY <1>2, <1>3, <1>4 DEF Sends

LEMMA BindSends ==
  ASSUME WireSound, NEW c \in Calls, Bind(c)
  PROVE  call[c].pc = "bind" /\ UNCHANGED exists /\ Sends(c)
  <1>1. PICK o \in Outcomes : \E fate \in Fates(o) :
          /\ At(c, "bind")
          /\ Fate(Write(c), fate)
          /\ Goto(c, IF o = "answered" THEN [call[c] EXCEPT !.pc = "after", !.wrote = "yes"]
                     ELSE Ended([call[c] EXCEPT !.wrote = "yes"], "failed"))
          /\ UNCHANGED exists
    BY DEF Bind
  <1>2. PICK fate \in Fates(o) : Fate(Write(c), fate)
    BY <1>1
  <1>3. call[c].pc = "bind" /\ UNCHANGED exists
    BY <1>1 DEF At
  <1>4. PICK q : q = call[c]
    OBVIOUS
  <1>5. q \in CallStates /\ q.body = None
    BY <1>3, <1>4, CallIs DEF WireSound, CallOK, Carries
  <1>6. /\ [q EXCEPT !.pc = "after", !.wrote = "yes"] = [q EXCEPT !.pc = "after", !.wrote = "yes", !.body = None]
        /\ [q EXCEPT !.wrote = "yes"] = [q EXCEPT !.body = None, !.wrote = "yes"]
    BY <1>5 DEF CallStates
  <1>7. PICK new : new = IF o = "answered" THEN [q EXCEPT !.pc = "after", !.wrote = "yes"]
                         ELSE Ended([q EXCEPT !.wrote = "yes"], "failed")
    OBVIOUS
  <1>8. Goto(c, new)
    BY <1>1, <1>4, <1>7
  <1>9. \/ new = [q EXCEPT !.pc = "after", !.wrote = "yes", !.body = None]
        \/ new = Ended([q EXCEPT !.body = None, !.wrote = "yes"], "failed")
    BY <1>6, <1>7
  <1>10. Sent(c, new)
    BY <1>4, <1>9 DEF Sent
  <1> QED BY <1>2, <1>3, <1>8, <1>10 DEF Sends

LEMMA WritesSend ==
  ASSUME WireSound, NEW c \in Calls, Put(c) \/ Bind(c)
  PROVE  call[c].pc \in {"put", "bind"} /\ UNCHANGED exists /\ Sends(c)
  BY PutSends, BindSends

LEMMA PutIsSound ==
  ASSUME WireSound, NEW c \in Calls, Put(c) \/ Bind(c)
  PROVE  WireSound'
  <1>1. call[c].pc \in {"put", "bind"} /\ UNCHANGED exists /\ Sends(c)
    BY WritesSend
  <1>2. PICK o \in Outcomes : \E fate \in Fates(o) : Fate(Write(c), fate) /\ \E new : Goto(c, new) /\ Sent(c, new)
    BY <1>1 DEF Sends
  <1>3. PICK fate \in Fates(o) : Fate(Write(c), fate) /\ \E new : Goto(c, new) /\ Sent(c, new)
    BY <1>2
  <1>4. PICK new : Goto(c, new) /\ Sent(c, new)
    BY <1>3
  <1> QED BY <1>1, <1>3, <1>4, SendsIsSound DEF Sent

LEMMA ReadAfterIsSound ==
  ASSUME WireSound, NEW c \in Calls, ReadAfter(c)
  PROVE  WireSound'
  <1>1. PICK read \in BOOLEAN :
          /\ At(c, "after")
          /\ Ends(c, IF read /\ Holds(rec[From(c)], c) THEN "connected" ELSE "write-not-reflected")
          /\ UNCHANGED <<exists, rec, flying, first, met>>
    BY DEF ReadAfter, Unchanged
  <1>2. PICK q : q = call[c]
    OBVIOUS
  <1>3. q \in CallStates /\ CallOK(q) /\ q.pc = "after" /\ Begun(c)
    BY <1>1, <1>2, CallIs DEF At, Begun, WireSound
  <1>4. q.body = None /\ q.to \in Things /\ Aim(q) \in Fields /\ Aim(q) = FieldOf(c)
    BY <1>2, <1>3 DEF CallOK, Aims, Carries, Moving, Aim, FieldOf, From
  <1>5. PICK state : state = IF read /\ Holds(rec[From(c)], c) THEN "connected" ELSE "write-not-reflected"
    OBVIOUS
  <1>6. PICK new : new = Ended(q, state)
    OBVIOUS
  <1>7. Goto(c, new)
    BY <1>1, <1>2, <1>5, <1>6 DEF Ends
  <1>8. new \in CallStates /\ CallOK(new) /\ new.job = q.job /\ new.pc \in {"tier", "done"}
        /\ new.state = state /\ Aim(new) = Aim(q) /\ new.to = q.to
    <2>1. state \in States \ {"none", "module-create-failed"}
          /\ state \notin {"target-missing", "needs-backend", "already-connected"}
      BY <1>5 DEF States
    <2>2. q.pc \in {"target"} \cup Moving
      BY <1>3 DEF Moving
    <2> QED BY <1>3, <1>4, <1>6, <2>1, <2>2, EndedIsOK
  <1>9. Told(new, met[c])
    <2>1. CASE read /\ Holds(rec[From(c)], c)
      <3>1. <<Aim(q), q.to>> \in met[c]
        BY <1>2, <1>3, <1>4, <2>1, HeldIsMet
      <3> QED BY <1>8, <3>1 DEF Told
    <2>2. CASE ~(read /\ Holds(rec[From(c)], c))
      BY <1>5, <1>8, <2>2 DEF Told, Ok
    <2> QED BY <2>1, <2>2
  <1> QED BY <1>1, <1>2, <1>3, <1>7, <1>8, <1>9, ReadsAlone

LEMMA ReadTierIsSound ==
  ASSUME WireSound, NEW c \in Calls, ReadTier(c)
  PROVE  WireSound'
  <1>1. PICK read \in BOOLEAN :
          /\ At(c, "tier")
          /\ Goto(c, [call[c] EXCEPT
                       !.pc = "done",
                       !.grounded = CASE ~read -> "threw"
                                      [] read /\ Ok(call[c].state) /\ TierOk(Tier[rec[From(c)].edition]) -> "yes"
                                      [] OTHER -> "no"])
          /\ UNCHANGED <<exists, rec, flying, first, met>>
    BY DEF ReadTier, Unchanged
  <1>2. PICK q : q = call[c]
    OBVIOUS
  <1>3. q \in CallStates /\ CallOK(q) /\ q.pc = "tier" /\ Begun(c) /\ Told(q, met[c])
    BY <1>1, <1>2, CallIs DEF At, Begun, WireSound
  <1>4. PICK grounded : grounded = CASE ~read -> "threw"
                                     [] read /\ Ok(q.state) /\ TierOk(Tier[rec[From(c)].edition]) -> "yes"
                                     [] OTHER -> "no"
    OBVIOUS
  <1>5. grounded \in {"no", "yes", "threw"} /\ (grounded = "yes" => Ok(q.state))
    <2>1. CASE ~read
      BY <1>4, <2>1
    <2>2. CASE read /\ Ok(q.state) /\ TierOk(Tier[rec[From(c)].edition])
      BY <1>4, <2>2
    <2>3. CASE read /\ ~(Ok(q.state) /\ TierOk(Tier[rec[From(c)].edition]))
      BY <1>4, <2>3
    <2> QED BY <2>1, <2>2, <2>3
  <1>6. PICK new : new = [q EXCEPT !.pc = "done", !.grounded = grounded]
    OBVIOUS
  <1>7. Goto(c, new)
    BY <1>1, <1>2, <1>4, <1>6
  <1>8. /\ new \in CallStates /\ new.pc = "done" /\ new.to = q.to /\ new.job = q.job /\ new.list = q.list
        /\ new.body = q.body /\ new.state = q.state /\ new.wrote = q.wrote /\ new.grounded = grounded
    BY <1>3, <1>5, <1>6 DEF CallStates
  <1>9. Aim(new) = Aim(q)
    BY <1>8 DEF Aim
  <1>10. Begins(new) /\ Aims(new) /\ Carries(new) /\ Writes(new)
    BY <1>3, <1>8, <1>9 DEF CallOK, Begins, Aims, Carries, Writes, Moving, Early
  <1>11. Grounds(new)
    BY <1>3, <1>5, <1>8 DEF CallOK, Grounds, Begins
  <1>12. Told(new, met[c])
    BY <1>3, <1>8, <1>9 DEF Told
  <1> QED BY <1>1, <1>2, <1>3, <1>7, <1>8, <1>10, <1>11, <1>12, ReadsAlone DEF CallOK

(* What the calls hold is not disturbed by what happens to the records.      *)
LEMMA CallsStandStill ==
  ASSUME CallsOK, Meets, exists \subseteq exists', call' = call
  PROVE  CallsOK'
  <1>1. ASSUME NEW d \in Calls
        PROVE  (CallOK(call[d]) /\ Told(call[d], met[d]) /\ (Begun(d) => Marks(rec[From(d)]) \subseteq met[d]))'
    <2>1. PICK old : old = call[d]
      OBVIOUS
    <2>2. CallOK(old) /\ Told(old, met[d]) /\ call'[d] = old
      BY <2>1, CallIs
    <2>3. CallOK(old)'
      BY <2>2, CallKeeps
    <2>4. met[d] \subseteq met'[d] /\ (old.pc # "idle" => Marks(rec'[old.job.from]) \subseteq met'[d])
      BY <2>1 DEF Meets, From, Begun
    <2>5. Told(old, met'[d])
      BY <2>2, <2>4 DEF Told
    <2> QED BY <2>2, <2>3, <2>4, <2>5 DEF Begun, From
  <1> QED BY <1>1 DEF CallsOK

LEMMA LandIsSound ==
  ASSUME WireSound, Land
  PROVE  WireSound'
  <1>1. PICK w \in flying : /\ Store(w.src, Served(w)) /\ flying' = flying \ {w}
                            /\ UNCHANGED <<exists, call>>
    BY DEF Land
  <1>2. w \in [src : Sources, body : Records \cup {None}, to : Things] /\ FlightOK(w) /\ w.src \in Sources
    BY DEF WireSound, World
  <1>3. Served(w) \in Records /\ Whole(Served(w))
    BY <1>2, ServedIsWhole DEF WireSound
  <1>4. /\ rec' \in [Sources -> Records] /\ \A x \in Sources : Whole(rec'[x])
        /\ first' \in [Calls -> SUBSET Tags] /\ met' \in [Calls -> SUBSET Tags]
        /\ Meets
    BY <1>1, <1>2, <1>3, Stored DEF WireSound
  <1>5. World'
    BY <1>1, <1>4, ThingsKeep DEF WireSound, World
  <1>6. CallsOK'
    BY <1>1, <1>4, CallsStandStill DEF WireSound
  <1> QED BY <1>5, <1>6 DEF WireSound

LEMMA EditIsSound ==
  ASSUME WireSound, Edit
  PROVE  WireSound'
  <1>1. PICK s \in Sources : /\ rec[s].edition < MaxEdits
                             /\ Store(s, [rec[s] EXCEPT !.edition = @ + 1])
                             /\ UNCHANGED <<exists, flying, call>>
    BY DEF Edit
  <1>2. PICK r : r = [rec[s] EXCEPT !.edition = @ + 1]
    OBVIOUS
  <1>3. rec[s] \in Records /\ Whole(rec[s])
    BY DEF WireSound, World
  <1>4. r \in Records /\ r.refs = rec[s].refs
    BY <1>1, <1>2, <1>3, BoundsAssumption DEF Records
  <1>5. Whole(r)
    BY <1>3, <1>4 DEF Whole
  <1>6. /\ rec' \in [Sources -> Records] /\ \A x \in Sources : Whole(rec'[x])
        /\ first' \in [Calls -> SUBSET Tags] /\ met' \in [Calls -> SUBSET Tags]
        /\ Meets
    BY <1>1, <1>2, <1>4, <1>5, Stored DEF WireSound
  <1>7. World'
    BY <1>1, <1>6, ThingsKeep DEF WireSound, World
  <1>8. CallsOK'
    BY <1>1, <1>6, CallsStandStill DEF WireSound
  <1> QED BY <1>7, <1>8 DEF WireSound

LEMMA WireStepIsSound ==
  ASSUME WireSound, WireNext
  PROVE  WireSound'
  BY BeginIsSound, MintIsSound, ReadTargetIsSound, ReadBeforeIsSound, ReadListIsSound, MergeGetIsSound,
     PutIsSound, ReadAfterIsSound, ReadTierIsSound, LandIsSound, EditIsSound
     DEF WireNext, Step

----------------------------------------------------------------------------
(* Nothing slips out of a record. *)

Steady ==
  /\ \A c \in Calls : /\ Begun(c) => call'[c].pc # "idle" /\ call'[c].job = call[c].job /\ first'[c] = first[c]
                      /\ met[c] \subseteq met'[c]

LEMMA LapsGrow ==
  ASSUME Steady, NEW s
  PROVE  Under(s) \subseteq Under(s)' /\ Lapped(s) \subseteq Lapped(s)'
  <1>1. ASSUME NEW c \in Under(s)
        PROVE  c \in Under(s)' /\ met[c] \ first[c] \subseteq met'[c] \ first'[c]
    <2>1. c \in Calls /\ Begun(c) /\ From(c) = s
      BY DEF Under
    <2>2. call'[c].pc # "idle" /\ call'[c].job = call[c].job /\ first'[c] = first[c] /\ met[c] \subseteq met'[c]
      BY <2>1 DEF Steady
    <2> QED BY <2>1, <2>2 DEF Under, Begun, From
  <1>2. Under(s) \subseteq Under(s)'
    BY <1>1
  <1>3. ASSUME NEW k \in Lapped(s)
        PROVE  k \in Lapped(s)'
    <2>1. PICK c \in Under(s) : k \in met[c] \ first[c]
      BY DEF Lapped
    <2>2. c \in Under(s)' /\ k \in met'[c] \ first'[c]
      BY <1>1, <2>1
    <2> QED BY <2>2 DEF Lapped
  <1> QED BY <1>2, <1>3

(* A mark that a record gains while a call is under way is one that the call *)
(* has met since, or one that the record had lost to an overlap.             *)
LEMMA Comes ==
  ASSUME WireSound, Found, Steady, NEW s \in Sources, NEW r, Store(s, r),
         NEW x \in Sources, Under(x) # {}
  PROVE  Lasting(Marks(rec'[x])) \subseteq Marks(rec[x]) \cup Lapped(x)'
  <1>1. rec' = [rec EXCEPT ![s] = r] /\ first' = first
    BY DEF Store
  <1>2. met' = [c \in Calls |-> IF Begun(c) /\ From(c) = s THEN met[c] \cup Marks(r) ELSE met[c]]
    BY DEF Store
  <1>3. ASSUME NEW k \in Lasting(Marks(rec'[x])), k \notin Marks(rec[x])
        PROVE  k \in Lapped(x)'
    <2>1. x = s /\ rec'[x] = r
      BY <1>1, <1>3 DEF WireSound, World, Lasting
    <2>2. PICK c \in Calls : Begun(c) /\ From(c) = x
      BY DEF Under
    <2>3. k \in met'[c] /\ k \in Marks(r) /\ k[1] # "brain"
      BY <1>2, <1>3, <2>1, <2>2 DEF Lasting
    <2>4. c \in Under(x)'
      BY <2>2, LapsGrow DEF Under
    <2>5. CASE k \notin first[c]
      <3>1. k \in met'[c] \ first'[c]
        BY <1>1, <2>3, <2>5
      <3> QED BY <2>4, <3>1 DEF Lapped
    <2>6. CASE k \in first[c]
      <3>1. k \in Marks(rec[x]) \cup Lapped(x)
        BY <2>2, <2>3, <2>6 DEF Found, Lasting
      <3> QED BY <1>3, <3>1, LapsGrow
    <2> QED BY <2>5, <2>6
  <1> QED BY <1>3

LEMMA SlipsAfter ==
  ASSUME WireSound, WireSound', Found, Steady, CarryOn(call', flying'),
         \A c \in Calls : call'[c].pc # "idle" => Begun(c),
         \A x \in Sources : Under(x) # {} => Lasting(Marks(rec'[x])) \subseteq Marks(rec[x]) \cup Lapped(x)',
         \A x \in Sources : Lasting(Marks(rec[x])) \subseteq Marks(rec'[x]) \cup Lapped(x)
  PROVE  NothingSlips'
  <1>1. ASSUME NEW c \in Calls, call'[c].pc # "idle"
        PROVE  /\ Begun(c) /\ From(c) \in Sources /\ c \in Under(From(c))
               /\ call'[c].job.from = From(c) /\ first'[c] = first[c]
    <2>1. Begun(c)
      BY <1>1
    <2> QED BY <2>1, CallIs DEF WireSound, Steady, Under, From
  <1>2. ASSUME NEW x \in Sources, NEW r, Under(x) # {}, Replaces(x, r)
        PROVE  Lasting(Marks(rec'[x])) \subseteq Marks(r) \cup Lapped(x)'
    <2>1. ASSUME NEW k \in Lasting(Marks(rec'[x]))
          PROVE  k \in Marks(r) \cup Lapped(x)'
      <3>1. k \in Marks(rec[x]) \/ k \in Lapped(x)'
        BY <1>2
      <3>2. ASSUME k \in Marks(rec[x])
            PROVE  k \in Marks(r) \cup Lapped(x)'
        <4>1. k \in Lasting(Marks(rec[x]))
          BY <3>2 DEF Lasting
        <4>2. k \in Marks(r) \cup Lapped(x)
          BY <1>2, <4>1 DEF Replaces
        <4> QED BY <4>2, LapsGrow
      <3> QED BY <3>1, <3>2
    <2> QED BY <2>1
  <1>3. Found'
    <2> SUFFICES ASSUME NEW c \in Calls, Begun(c)'
                 PROVE  (Lasting(first[c]) \subseteq Marks(rec[From(c)]) \cup Lapped(From(c)))'
      BY DEF Found
    <2>1. PICK x : x = From(c)
      OBVIOUS
    <2>2. Begun(c) /\ x \in Sources /\ call'[c].job.from = x /\ first'[c] = first[c]
      BY <1>1, <2>1 DEF Begun
    <2>3. ASSUME NEW k \in Lasting(first[c])
          PROVE  k \in Marks(rec'[x]) \cup Lapped(x)'
      <3>1. k \in Marks(rec[x]) \/ k \in Lapped(x)
        BY <2>1, <2>2 DEF Found
      <3>2. ASSUME k \in Marks(rec[x])
            PROVE  k \in Marks(rec'[x]) \/ k \in Lapped(x)
        <4>1. k \in Lasting(Marks(rec[x]))
          BY <3>2 DEF Lasting
        <4> QED BY <2>2, <4>1
      <3> QED BY <3>1, <3>2, LapsGrow
    <2>4. From(c)' = x
      BY <2>2 DEF From
    <2> QED BY <2>2, <2>3, <2>4
  <1>4. CarryOn(call, flying)'
    <2>1. ASSUME NEW c \in Calls, call'[c].pc = "put"
          PROVE  Replaces(call[c].job.from, call[c].body)'
      <3>1. PICK x : x = From(c)
        OBVIOUS
      <3>2. x \in Sources /\ call'[c].job.from = x /\ Under(x) # {}
        BY <1>1, <2>1, <3>1
      <3>3. Replaces(x, call'[c].body)
        BY <2>1, <3>2 DEF CarryOn
      <3>4. Lasting(Marks(rec'[x])) \subseteq Marks(call'[c].body) \cup Lapped(x)'
        BY <1>2, <3>2, <3>3
      <3> QED BY <3>2, <3>4 DEF Replaces
    <2>2. ASSUME NEW c \in Calls, call'[c].pc = "merge", Aim(call'[c]) # "brain",
                 NEW t \in rec'[call'[c].job.from].refs[Aim(call'[c])]
          PROVE  (t \in call[c].list \/ <<Aim(call[c]), t>> \in Lapped(call[c].job.from))'
      <3>1. PICK x : x = From(c)
        OBVIOUS
      <3>2. x \in Sources /\ call'[c].job.from = x /\ Under(x) # {}
        BY <1>1, <2>2, <3>1
      <3>3. PICK f : f = Aim(call'[c])
        OBVIOUS
      <3>4. f \in Fields /\ f # "brain"
        <4>1. CallOK(call[c])'
          BY DEF WireSound, CallsOK
        <4> QED BY <2>2, <3>3, <4>1 DEF CallOK, Aims, Moving
      <3>5. rec'[x] \in Records /\ rec[x] \in Records /\ t \in rec'[x].refs[f]
        BY <2>2, <3>2, <3>3 DEF WireSound, World
      <3>6. t \in Things
        BY <3>4, <3>5 DEF Records
      <3>7. <<f, t>> \in Lasting(Marks(rec'[x]))
        BY <3>4, <3>5, <3>6, MarkOf DEF Lasting
      <3>8. <<f, t>> \in Marks(rec[x]) \/ <<f, t>> \in Lapped(x)'
        BY <3>2, <3>7
      <3>9. CASE <<f, t>> \in Marks(rec[x])
        <4>1. t \in rec[x].refs[f]
          BY <3>4, <3>6, <3>9, MarkOf
        <4>2. t \in call'[c].list \/ <<f, t>> \in Lapped(x)
          BY <2>2, <3>2, <3>3, <4>1 DEF CarryOn
        <4> QED BY <3>2, <3>3, <4>2, LapsGrow
      <3>10. CASE <<f, t>> \in Lapped(x)'
        BY <3>2, <3>3, <3>10
      <3> QED BY <3>8, <3>9, <3>10
    <2>3. ASSUME NEW w \in flying'
          PROVE  Under(w.src)' # {} /\ (w.body # None => Replaces(w.src, w.body)')
      <3>0. w.src \in Sources
        BY DEF WireSound, World
      <3>1. w.src \in Sources /\ Under(w.src) # {} /\ (w.body # None => Replaces(w.src, w.body))
        BY <3>0 DEF CarryOn
      <3>2. Under(w.src) \subseteq Under(w.src)'
        BY LapsGrow
      <3>3. ASSUME w.body # None
            PROVE  Replaces(w.src, w.body)'
        BY <1>2, <3>1, <3>3 DEF Replaces
      <3> QED BY <3>1, <3>2, <3>3
    <2> QED BY <2>1, <2>2, <2>3 DEF CarryOn
  <1> QED BY <1>3, <1>4 DEF NothingSlips

(* What a call holds after a step carries on.                                *)
Carry(c, new) ==
  /\ Goto(c, new) /\ new.job = call[c].job /\ new.pc # "idle"
  /\ new.pc = "put" => Replaces(From(c), new.body)
  /\ new.pc = "merge" /\ Aim(new) # "brain" =>
       \A t \in rec[From(c)].refs[Aim(new)] : t \in new.list \/ <<Aim(new), t>> \in Lapped(From(c))

LEMMA CarryOne ==
  ASSUME WireSound, CarryOn(call, flying), NEW c \in Calls, Begun(c), NEW new, Carry(c, new),
         first' = first, Meets,
         \A w \in flying' : w \in flying \/ (Under(w.src) # {} /\ (w.body # None => Replaces(w.src, w.body)))
  PROVE  Steady /\ CarryOn(call', flying') /\ \A d \in Calls : call'[d].pc # "idle" => Begun(d)
  <1>1. call' = [call EXCEPT ![c] = new] /\ call \in [Calls -> CallStates]
    BY DEF Carry, Goto, WireSound, CallsOK
  <1>2. call'[c] = new /\ \A d \in Calls : d # c => call'[d] = call[d]
    BY <1>1
  <1>3. \A d \in Calls : call'[d].job = call[d].job
    BY <1>2 DEF Carry
  <1>4. ASSUME NEW d \in Calls
        PROVE  /\ Begun(d) => call'[d].pc # "idle" /\ call'[d].job = call[d].job /\ first'[d] = first[d]
               /\ met[d] \subseteq met'[d]
               /\ call'[d].pc # "idle" => Begun(d)
    BY <1>2, <1>3 DEF Carry, Begun, Meets
  <1>5. ASSUME NEW d \in Calls
        PROVE  /\ call'[d].pc = "put" => Replaces(call'[d].job.from, call'[d].body)
               /\ call'[d].pc = "merge" /\ Aim(call'[d]) # "brain" =>
                    \A t \in rec[call'[d].job.from].refs[Aim(call'[d])] :
                      t \in call'[d].list \/ <<Aim(call'[d]), t>> \in Lapped(call'[d].job.from)
    <2>1. CASE d = c
      <3>1. call'[d] = new /\ new.job.from = From(c)
        BY <1>2, <2>1 DEF Carry, From
      <3> QED BY <3>1 DEF Carry
    <2>2. CASE d # c
      <3>1. call'[d] = call[d]
        BY <1>2, <2>2
      <3> QED BY <3>1 DEF CarryOn
    <2> QED BY <2>1, <2>2
  <1>6. \A w \in flying' : Under(w.src) # {} /\ (w.body # None => Replaces(w.src, w.body))
    BY DEF CarryOn
  <1>7. CarryOn(call', flying')
    BY <1>5, <1>6 DEF CarryOn
  <1> QED BY <1>4, <1>7 DEF Steady

LEMMA ReadsCarry ==
  ASSUME WireSound, WireSound', NothingSlips, NEW c \in Calls, Begun(c), NEW new, Carry(c, new),
         UNCHANGED <<rec, flying, first, met>>, exists \subseteq exists', exists' \subseteq Things
  PROVE  NothingSlips'
  <1>1. rec' = rec /\ flying' = flying /\ first' = first
    OBVIOUS
  <1>2. Meets
    BY StandingStill DEF WireSound
  <1>3. Steady /\ CarryOn(call', flying') /\ \A d \in Calls : call'[d].pc # "idle" => Begun(d)
    BY <1>1, <1>2, CarryOne DEF NothingSlips
  <1>4. /\ \A x \in Sources : Lasting(Marks(rec'[x])) \subseteq Marks(rec[x])
        /\ \A x \in Sources : Lasting(Marks(rec[x])) \subseteq Marks(rec'[x])
    BY <1>1 DEF Lasting
  <1> QED BY <1>3, <1>4, SlipsAfter DEF NothingSlips

(* The steps that read.                                                      *)
LEMMA EndsCarry ==
  ASSUME NEW c \in Calls, NEW state \in States, Ends(c, state), call[c] \in CallStates
  PROVE  \E new : Carry(c, new)
  <1>1. PICK new : new = Ended(call[c], state)
    OBVIOUS
  <1>2. Goto(c, new)
    BY <1>1 DEF Ends
  <1>3. new.pc \in {"tier", "done"} /\ new.job = call[c].job
    BY <1>1 DEF Ended, CallStates
  <1> QED BY <1>2, <1>3 DEF Carry

LEMMA RoutedCarry ==
  ASSUME NEW q \in CallStates, NEW to
  PROVE  Routed(q, to).job = q.job /\ Routed(q, to).pc \in {"target", "tier", "done"}
  BY DEF Routed, Ended, CallStates

LEMMA MintSlips ==
  ASSUME WireSound, WireSound', NothingSlips, NEW c \in Calls, Mint(c)
  PROVE  NothingSlips'
  <1>1. PICK made \in BOOLEAN, o \in Outcomes, id \in BOOLEAN,
             m \in {t \in Things \ exists : Kind[t] = "module" /\ DatasetOf[t] = call[c].job.to} \cup {None} :
          /\ At(c, "mint")
          /\ exists' = IF made THEN exists \cup {m} ELSE exists
          /\ Goto(c, IF o = "answered" /\ id THEN Routed(call[c], m)
                     ELSE [call[c] EXCEPT !.pc = "done", !.state = "module-create-failed"])
          /\ UNCHANGED <<rec, flying, first, met>>
    BY DEF Mint, Unchanged
  <1>2. call[c] \in CallStates /\ Begun(c)
    BY <1>1, CallIs DEF WireSound, At, Begun
  <1>3. PICK new : new = IF o = "answered" /\ id THEN Routed(call[c], m)
                         ELSE [call[c] EXCEPT !.pc = "done", !.state = "module-create-failed"]
    OBVIOUS
  <1>4. new.job = call[c].job /\ new.pc \in {"target", "tier", "done"}
    <2>1. [call[c] EXCEPT !.pc = "done", !.state = "module-create-failed"].job = call[c].job
          /\ [call[c] EXCEPT !.pc = "done", !.state = "module-create-failed"].pc = "done"
      BY <1>2 DEF CallStates
    <2> QED BY <1>2, <1>3, <2>1, RoutedCarry
  <1>5. Carry(c, new)
    BY <1>1, <1>3, <1>4 DEF Carry
  <1>6. exists \subseteq exists' /\ exists' \subseteq Things
    BY <1>1 DEF WireSound, World
  <1> QED BY <1>1, <1>2, <1>5, <1>6, ReadsCarry

LEMMA StepCarries ==
  ASSUME NEW c \in Calls, call[c] \in CallStates, NEW pc \in {"before", "list", "merge", "bind", "after"},
         pc = "merge" => Aim(call[c]) = "brain", Goto(c, [call[c] EXCEPT !.pc = pc])
  PROVE  \E new : Carry(c, new)
  <1>1. PICK new : new = [call[c] EXCEPT !.pc = pc]
    OBVIOUS
  <1>2. new.pc = pc /\ new.job = call[c].job /\ new.to = call[c].to
    BY <1>1 DEF CallStates
  <1>3. Aim(new) = Aim(call[c])
    BY <1>2 DEF Aim
  <1>4. Goto(c, new)
    BY <1>1
  <1> QED BY <1>2, <1>3, <1>4 DEF Carry

(* A list that was just read is the list.                                    *)
LEMMA ListCarries ==
  ASSUME NEW c \in Calls, call[c] \in CallStates, NEW list, list = rec[From(c)].refs[FieldOf(c)],
         list \in SUBSET Things, Goto(c, [call[c] EXCEPT !.pc = "merge", !.list = list])
  PROVE  \E new : Carry(c, new)
  <1>1. PICK new : new = [call[c] EXCEPT !.pc = "merge", !.list = list]
    OBVIOUS
  <1>2. new.pc = "merge" /\ new.job = call[c].job /\ new.to = call[c].to /\ new.list = list
    BY <1>1 DEF CallStates
  <1>3. Aim(new) = FieldOf(c)
    BY <1>2 DEF Aim, FieldOf, From
  <1>4. Goto(c, new)
    BY <1>1
  <1> QED BY <1>2, <1>3, <1>4 DEF Carry

(* The body of mergePut has what the record has, but for what came to the    *)
(* one list since it was read.                                               *)
LEMMA BodyCarries ==
  ASSUME WireSound, NothingSlips, NEW c \in Calls, At(c, "merge"),
         Goto(c, [call[c] EXCEPT !.pc = "put", !.body = Overlaid(c), !.list = {}, !.retries = 1])
  PROVE  \E new : Carry(c, new)
  <1>1. PICK q : q = call[c]
    OBVIOUS
  <1>2. PICK r : r = rec[From(c)]
    OBVIOUS
  <1>3. q \in CallStates /\ CallOK(q) /\ Begun(c) /\ From(c) \in Sources /\ q.pc = "merge"
    BY <1>1, CallIs DEF WireSound, At, Begun
  <1>4. r \in Records
    BY <1>2, <1>3 DEF WireSound, World
  <1>5. PICK f : f = Aim(q)
    OBVIOUS
  <1>6. f \in Fields /\ f = FieldOf(c)
    BY <1>1, <1>3, <1>5 DEF CallOK, Aims, Moving, Aim, FieldOf, From
  <1>7. PICK refs : refs = NewRefs(c)
    OBVIOUS
  <1>8. PICK body : body = [r EXCEPT !.refs[f] = refs]
    OBVIOUS
  <1>9. body = Overlaid(c)
    BY <1>2, <1>6, <1>7, <1>8 DEF Overlaid
  <1>10. /\ body.refs[f] = refs /\ body.edition = r.edition
         /\ \A g \in Fields : g # f => body.refs[g] = r.refs[g]
    BY <1>4, <1>6, <1>8 DEF Records
  <1>11. ASSUME NEW k \in Lasting(Marks(r))
         PROVE  k \in Marks(body) \cup Lapped(From(c))
    <2>1. k \in Marks(r) /\ k[1] # "brain"
      BY DEF Lasting
    <2>2. CASE \E g \in Fields, t \in Things : k = <<g, t>> /\ t \in r.refs[g]
      <3>1. PICK g \in Fields, t \in Things : k = <<g, t>> /\ t \in r.refs[g]
        BY <2>2
      <3>2. CASE g # f
        <4>1. t \in body.refs[g]
          BY <1>10, <3>1, <3>2
        <4> QED BY <3>1, <4>1, MarkOf
      <3>3. CASE g = f
        <4>1. f # "brain"
          BY <2>1, <3>1, <3>3
        <4>2. t \in q.list \/ <<f, t>> \in Lapped(From(c))
          BY <1>1, <1>2, <1>3, <1>5, <3>1, <3>3, <4>1 DEF NothingSlips, CarryOn, From
        <4>3. refs = q.list \cup {q.to}
          BY <1>1, <1>6, <1>7, <4>1 DEF NewRefs
        <4>4. CASE t \in q.list
          <5>1. t \in body.refs[f]
            BY <1>10, <4>3, <4>4
          <5> QED BY <1>6, <3>1, <3>3, <5>1, MarkOf
        <4> QED BY <3>1, <3>3, <4>2, <4>4
      <3> QED BY <3>2, <3>3
    <2>3. CASE \E n \in 1..r.edition : k = <<"edition", n>>
      BY <1>10, <2>3 DEF Marks
    <2> QED BY <2>1, <2>2, <2>3, MarkIs
  <1>12. Replaces(From(c), body)
    BY <1>2, <1>11 DEF Replaces
  <1>13. PICK new : new = [q EXCEPT !.pc = "put", !.body = body, !.list = {}, !.retries = 1]
    OBVIOUS
  <1>14. Goto(c, new)
    BY <1>1, <1>9, <1>13
  <1>15. new.pc = "put" /\ new.job = q.job /\ new.body = body
    BY <1>3, <1>13 DEF CallStates
  <1> QED BY <1>1, <1>12, <1>14, <1>15 DEF Carry

LEMMA ReadSlips ==
  ASSUME WireSound, WireSound', NothingSlips, NEW c \in Calls,
         ReadTarget(c) \/ ReadBefore(c) \/ ReadList(c) \/ MergeGet(c) \/ ReadAfter(c) \/ ReadTier(c)
  PROVE  NothingSlips'
  <1>1. UNCHANGED <<exists, rec, flying, first, met>>
    BY DEF ReadTarget, ReadBefore, ReadList, MergeGet, ReadAfter, ReadTier, Unchanged
  <1>2. Begun(c) /\ call[c] \in CallStates /\ CallOK(call[c]) /\ From(c) \in Sources
    BY CallIs DEF WireSound, Begun, At, ReadTarget, ReadBefore, ReadList, MergeGet, ReadAfter, ReadTier
  <1>3. \E new : Carry(c, new)
    <2>1. CASE ReadTarget(c)
      <3>1. Ends(c, "target-missing") \/ Goto(c, [call[c] EXCEPT !.pc = "before"])
        BY <2>1 DEF ReadTarget
      <3> QED BY <1>2, <3>1, EndsCarry, StepCarries DEF States
    <2>2. CASE ReadBefore(c)
      <3>1. \/ Ends(c, "already-connected") \/ Ends(c, "connected") \/ Ends(c, "failed")
            \/ Goto(c, [call[c] EXCEPT !.pc = Writer(c)])
        BY <2>2 DEF ReadBefore
      <3>2. ASSUME Goto(c, [call[c] EXCEPT !.pc = Writer(c)])
            PROVE  \E new : Carry(c, new)
        <4>1. PICK pc : pc = Writer(c)
          OBVIOUS
        <4>2. pc \in {"list", "merge", "bind"} /\ (pc = "merge" => Aim(call[c]) = "brain")
          BY <4>1 DEF Writer, FieldOf, Aim, From
        <4>3. Goto(c, [call[c] EXCEPT !.pc = pc])
          BY <3>2, <4>1
        <4> QED BY <1>2, <4>2, <4>3, StepCarries
      <3> QED BY <1>2, <3>1, <3>2, EndsCarry DEF States
    <2>3. CASE ReadList(c)
      <3>1. PICK list : list = rec[From(c)].refs[FieldOf(c)]
        OBVIOUS
      <3>2. \/ Ends(c, "failed") \/ Goto(c, [call[c] EXCEPT !.pc = "after"])
            \/ Goto(c, [call[c] EXCEPT !.pc = "merge", !.list = list])
        BY <2>3, <3>1 DEF ReadList
      <3>3. list \in SUBSET Things
        <4>1. call[c].pc = "list"
          BY <2>3 DEF ReadList, At
        <4>2. FieldOf(c) \in Fields
          BY <1>2, <4>1 DEF CallOK, Aims, Moving, Aim, FieldOf, From
        <4> QED BY <1>2, <3>1, <4>2 DEF WireSound, World, Records
      <3> QED BY <1>2, <3>1, <3>2, <3>3, EndsCarry, StepCarries, ListCarries DEF States
    <2>4. CASE MergeGet(c)
      <3>1. At(c, "merge")
        BY <2>4 DEF MergeGet
      <3>2. \/ Ends(c, "failed")
            \/ Goto(c, [call[c] EXCEPT !.pc = "put", !.body = Overlaid(c), !.list = {}, !.retries = 1])
        BY <2>4 DEF MergeGet
      <3> QED BY <1>2, <3>1, <3>2, EndsCarry, BodyCarries DEF States
    <2>5. CASE ReadAfter(c)
      <3>1. Ends(c, "connected") \/ Ends(c, "write-not-reflected")
        BY <2>5 DEF ReadAfter
      <3> QED BY <1>2, <3>1, EndsCarry DEF States
    <2>6. CASE ReadTier(c)
      <3>1. PICK new : /\ Goto(c, new)
                       /\ \E grounded : new = [call[c] EXCEPT !.pc = "done", !.grounded = grounded]
        BY <2>6 DEF ReadTier
      <3>2. new.pc = "done" /\ new.job = call[c].job
        BY <1>2, <3>1 DEF CallStates
      <3> QED BY <3>1, <3>2 DEF Carry
    <2> QED BY <2>1, <2>2, <2>3, <2>4, <2>5, <2>6
  <1>4. exists \subseteq exists' /\ exists' \subseteq Things
    BY <1>1 DEF WireSound, World
  <1> QED BY <1>1, <1>2, <1>3, <1>4, ReadsCarry

(* The steps that write.                                                     *)
LEMMA ServedReplaces ==
  ASSUME World, NEW w \in [src : Sources, body : Records \cup {None}, to : Things],
         w.body # None => Replaces(w.src, w.body)
  PROVE  Replaces(w.src, Served(w))
  <1> DEFINE r == rec[w.src]
             bound == [r EXCEPT !.refs["agentId"] = {w.to}]
  <1>1. r \in Records
    BY DEF World
  <1> HIDE DEF r
  <1>2. CASE w.body # None
    BY <1>2 DEF Served
  <1>3. CASE w.body = None /\ r.refs["agentId"] \subseteq {w.to}
    <2>1. Served(w) = bound
      BY <1>3 DEF Served, r
    <2>2. /\ bound.refs["agentId"] = {w.to} /\ bound.edition = r.edition
          /\ \A g \in Fields : g # "agentId" => bound.refs[g] = r.refs[g]
      BY <1>1 DEF Records, Fields
    <2>3. \A g \in Fields : r.refs[g] \subseteq bound.refs[g]
      BY <1>3, <2>2
    <2>4. Marks(r) \subseteq Marks(bound)
      <3> HIDE DEF bound
      <3> QED BY <2>2, <2>3 DEF Marks
    <2> QED BY <2>1, <2>4 DEF Replaces, Lasting, r
  <1>4. CASE w.body = None /\ ~(r.refs["agentId"] \subseteq {w.to})
    <2>1. Served(w) = r
      BY <1>4 DEF Served, r
    <2> QED BY <2>1 DEF Replaces, Lasting, r
  <1> QED BY <1>2, <1>3, <1>4

LEMMA StoreSlips ==
  ASSUME WireSound, WireSound', NothingSlips, NEW s \in Sources, NEW r, Store(s, r), Replaces(s, r),
         Steady, CarryOn(call', flying'), \A d \in Calls : call'[d].pc # "idle" => Begun(d)
  PROVE  NothingSlips'
  <1>1. rec' = [rec EXCEPT ![s] = r]
    BY DEF Store
  <1>2. ASSUME NEW x \in Sources
        PROVE  Lasting(Marks(rec[x])) \subseteq Marks(rec'[x]) \cup Lapped(x)
    <2>1. CASE x = s
      BY <1>1, <2>1 DEF Replaces, WireSound, World
    <2>2. CASE x # s
      BY <1>1, <2>2 DEF WireSound, World, Lasting
    <2> QED BY <2>1, <2>2
  <1>3. ASSUME NEW x \in Sources, Under(x) # {}
        PROVE  Lasting(Marks(rec'[x])) \subseteq Marks(rec[x]) \cup Lapped(x)'
    BY <1>3, Comes DEF NothingSlips
  <1> QED BY <1>2, <1>3, SlipsAfter DEF NothingSlips

LEMMA StillSlips ==
  ASSUME WireSound, WireSound', NothingSlips, rec' = rec,
         Steady, CarryOn(call', flying'), \A d \in Calls : call'[d].pc # "idle" => Begun(d)
  PROVE  NothingSlips'
  <1>1. /\ \A x \in Sources : Lasting(Marks(rec'[x])) \subseteq Marks(rec[x])
        /\ \A x \in Sources : Lasting(Marks(rec[x])) \subseteq Marks(rec'[x])
    BY DEF Lasting
  <1> QED BY <1>1, SlipsAfter DEF NothingSlips

LEMMA SendsSlip ==
  ASSUME WireSound, WireSound', NothingSlips, NEW c \in Calls, call[c].pc \in {"put", "bind"},
         NEW o \in Outcomes, NEW fate \in Fates(o), Fate(Write(c), fate), UNCHANGED exists, NEW new, Goto(c, new),
         \/ new = [call[c] EXCEPT !.pc = "after", !.wrote = "yes", !.body = None]
         \/ /\ call[c].pc = "put" /\ call[c].retries > 0
            /\ new = [call[c] EXCEPT !.retries = @ - 1, !.wrote = "yes"]
         \/ new = Ended([call[c] EXCEPT !.body = None, !.wrote = "yes"], "failed")
  PROVE  NothingSlips'
  <1>1. PICK q : q = call[c]
    OBVIOUS
  <1>2. q \in CallStates /\ CallOK(q) /\ Begun(c) /\ From(c) \in Sources /\ c \in Under(From(c))
    BY <1>1, CallIs DEF WireSound, Begun, Under
  <1>3. PICK w : w = Write(c)
    OBVIOUS
  <1>4. w \in [src : Sources, body : Records \cup {None}, to : Things] /\ FlightOK(w)
    BY <1>3, WriteIsSound
  <1>5. Meets
    BY <1>3, <1>4, FateIsSound DEF WireSound
  <1>6. q.pc = "put" => Replaces(From(c), q.body)
    BY <1>1 DEF NothingSlips, CarryOn, From
  <1>7. w.body = q.body /\ w.src = From(c)
    BY <1>1, <1>3 DEF Write
  <1>8. w.body # None => Replaces(w.src, w.body)
    BY <1>2, <1>6, <1>7 DEF CallOK, Carries
  <1>9. Carry(c, new)
    <2>1. CASE new = [q EXCEPT !.pc = "after", !.wrote = "yes", !.body = None]
      <3>1. new.pc = "after" /\ new.job = q.job
        BY <1>2, <2>1 DEF CallStates
      <3> QED BY <1>1, <3>1 DEF Carry
    <2>2. CASE q.pc = "put" /\ new = [q EXCEPT !.retries = @ - 1, !.wrote = "yes"]
      <3>1. new.pc = "put" /\ new.job = q.job /\ new.body = q.body
        BY <1>2, <2>2 DEF CallStates
      <3> QED BY <1>1, <1>6, <2>2, <3>1 DEF Carry
    <2>3. CASE new = Ended([q EXCEPT !.body = None, !.wrote = "yes"], "failed")
      <3>1. new.pc \in {"tier", "done"} /\ new.job = q.job
        BY <1>2, <2>3 DEF CallStates, Ended
      <3> QED BY <1>1, <3>1 DEF Carry
    <2> QED BY <1>1, <2>1, <2>2, <2>3
  <1>10. first' = first /\ \A v \in flying' : v \in flying \/ v = w
    <2>1. fate \in {"served", "flying", "dropped"}
      BY DEF Fates, Outcomes
    <2>2. CASE fate = "served"
      BY <1>3, <2>2 DEF Fate, Store
    <2>3. CASE fate = "flying"
      BY <1>3, <2>3 DEF Fate, Unchanged
    <2>4. CASE fate = "dropped"
      BY <1>3, <2>4 DEF Fate, Unchanged
    <2> QED BY <2>1, <2>2, <2>3, <2>4
  <1>11. \A v \in flying' : v \in flying \/ (Under(v.src) # {} /\ (v.body # None => Replaces(v.src, v.body)))
    BY <1>2, <1>7, <1>8, <1>10
  <1>12. Steady /\ CarryOn(call', flying') /\ \A d \in Calls : call'[d].pc # "idle" => Begun(d)
    BY <1>2, <1>5, <1>9, <1>10, <1>11, CarryOne DEF NothingSlips
  <1>13. CASE fate = "served"
    <2>1. Store(w.src, Served(w))
      BY <1>3, <1>13 DEF Fate
    <2>2. Replaces(w.src, Served(w)) /\ w.src \in Sources
      BY <1>4, <1>8, ServedReplaces DEF WireSound
    <2> QED BY <1>12, <2>1, <2>2, StoreSlips
  <1>14. CASE fate # "served"
    <2>1. rec' = rec
      <3>1. fate \in {"flying", "dropped"}
        BY <1>14 DEF Fates, Outcomes
      <3> QED BY <3>1 DEF Fate, Unchanged
    <2> QED BY <1>12, <2>1, StillSlips
  <1> QED BY <1>13, <1>14

LEMMA PutSlips ==
  ASSUME WireSound, WireSound', NothingSlips, NEW c \in Calls, Put(c) \/ Bind(c)
  PROVE  NothingSlips'
  <1>1. call[c].pc \in {"put", "bind"} /\ UNCHANGED exists /\ Sends(c)
    BY WritesSend
  <1>2. PICK o \in Outcomes : \E fate \in Fates(o) : Fate(Write(c), fate) /\ \E new : Goto(c, new) /\ Sent(c, new)
    BY <1>1 DEF Sends
  <1>3. PICK fate \in Fates(o) : Fate(Write(c), fate) /\ \E new : Goto(c, new) /\ Sent(c, new)
    BY <1>2
  <1>4. PICK new : Goto(c, new) /\ Sent(c, new)
    BY <1>3
  <1> QED BY <1>1, <1>3, <1>4, SendsSlip DEF Sent

LEMMA LandSlips ==
  ASSUME WireSound, WireSound', NothingSlips, Land
  PROVE  NothingSlips'
  <1>1. PICK w \in flying : /\ Store(w.src, Served(w)) /\ flying' = flying \ {w}
                            /\ UNCHANGED <<exists, call>>
    BY DEF Land
  <1>2. w \in [src : Sources, body : Records \cup {None}, to : Things] /\ FlightOK(w) /\ w.src \in Sources
    BY DEF WireSound, World
  <1>3. Replaces(w.src, Served(w))
    <2>1. w.body # None => Replaces(w.src, w.body)
      BY DEF NothingSlips, CarryOn
    <2> QED BY <1>2, <2>1, ServedReplaces DEF WireSound
  <1>4. Served(w) \in Records /\ Whole(Served(w))
    BY <1>2, ServedIsWhole DEF WireSound
  <1>5. Meets
    BY <1>1, <1>2, <1>4, Stored DEF WireSound
  <1>6. call' = call /\ first' = first /\ flying' \subseteq flying
    BY <1>1 DEF Store
  <1>7. Steady /\ \A d \in Calls : call'[d].pc # "idle" => Begun(d)
    BY <1>5, <1>6 DEF Steady, Meets, Begun
  <1>8. CarryOn(call', flying')
    BY <1>6 DEF NothingSlips, CarryOn
  <1> QED BY <1>1, <1>2, <1>3, <1>7, <1>8, StoreSlips

LEMMA EditSlips ==
  ASSUME WireSound, WireSound', NothingSlips, Edit
  PROVE  NothingSlips'
  <1>1. PICK s \in Sources : /\ rec[s].edition < MaxEdits
                             /\ Store(s, [rec[s] EXCEPT !.edition = @ + 1])
                             /\ UNCHANGED <<exists, flying, call>>
    BY DEF Edit
  <1>2. PICK r : r = [rec[s] EXCEPT !.edition = @ + 1]
    OBVIOUS
  <1>3. rec[s] \in Records /\ Whole(rec[s]) /\ rec[s].edition \in Nat
    BY BoundsAssumption DEF WireSound, World, Records
  <1>4. r \in Records /\ r.refs = rec[s].refs /\ r.edition = rec[s].edition + 1
    BY <1>1, <1>2, <1>3, BoundsAssumption DEF Records
  <1>5. Replaces(s, r)
    <2>1. 1..rec[s].edition \subseteq 1..r.edition
      BY <1>3, <1>4
    <2>2. Marks(rec[s]) \subseteq Marks(r)
      BY <1>4, <2>1 DEF Marks
    <2> QED BY <2>2 DEF Replaces, Lasting
  <1>6. Whole(r)
    BY <1>3, <1>4 DEF Whole
  <1>7. Meets
    BY <1>1, <1>2, <1>4, <1>6, Stored DEF WireSound
  <1>8. call' = call /\ first' = first /\ flying' = flying
    BY <1>1 DEF Store
  <1>9. Steady /\ \A d \in Calls : call'[d].pc # "idle" => Begun(d)
    BY <1>7, <1>8 DEF Steady, Meets, Begun
  <1>10. CarryOn(call', flying')
    BY <1>8 DEF NothingSlips
  <1> QED BY <1>1, <1>2, <1>5, <1>9, <1>10, StoreSlips

(* A call that begins has met what it found, and no more.                    *)
LEMMA BeginSlips ==
  ASSUME WireSound, WireSound', NothingSlips, NEW c \in Calls, Begin(c)
  PROVE  NothingSlips'
  <1>1. PICK job \in Jobs :
          /\ At(c, "idle")
          /\ Goto(c, IF job.tool = "ground" /\ Kind[job.to] = "dataset"
                     THEN [call[c] EXCEPT !.pc = "mint", !.job = job]
                     ELSE Routed([call[c] EXCEPT !.job = job], job.to))
          /\ first' = [first EXCEPT ![c] = Marks(rec[job.from])]
          /\ met' = [met EXCEPT ![c] = Marks(rec[job.from])]
          /\ UNCHANGED <<exists, rec, flying>>
    BY DEF Begin
  <1>2. call[c] = Idle
    BY <1>1, CallIs DEF WireSound, CallOK, Begins, At
  <1>3. PICK new : new = IF job.tool = "ground" /\ Kind[job.to] = "dataset"
                         THEN [call[c] EXCEPT !.pc = "mint", !.job = job]
                         ELSE Routed([call[c] EXCEPT !.job = job], job.to)
    OBVIOUS
  <1>4. new.job = job /\ new.pc \in {"mint", "target", "tier", "done"}
    <2>1. [call[c] EXCEPT !.pc = "mint", !.job = job].job = job
          /\ [call[c] EXCEPT !.pc = "mint", !.job = job].pc = "mint"
      BY <1>2, NothingYet DEF CallStates
    <2>2. [call[c] EXCEPT !.job = job] \in CallStates /\ [call[c] EXCEPT !.job = job].job = job
      BY <1>2, NothingYet DEF CallStates
    <2> QED BY <1>3, <2>1, <2>2, RoutedCarry
  <1>5. call' = [call EXCEPT ![c] = new] /\ call \in [Calls -> CallStates]
    BY <1>1, <1>3 DEF Goto, WireSound, CallsOK
  <1>6. /\ call'[c] = new /\ met'[c] = Marks(rec[job.from]) /\ first'[c] = Marks(rec[job.from])
        /\ \A d \in Calls : d # c => call'[d] = call[d] /\ met'[d] = met[d] /\ first'[d] = first[d]
    BY <1>1, <1>5 DEF WireSound, World
  <1>7. rec' = rec /\ flying' = flying
    BY <1>1
  <1>8. ~Begun(c)
    BY <1>1 DEF At, Begun
  <1>9. \A s : Under(s) \subseteq Under(s)' /\ Lapped(s) \subseteq Lapped(s)'
    <2> SUFFICES ASSUME NEW s
                 PROVE  Under(s) \subseteq Under(s)' /\ Lapped(s) \subseteq Lapped(s)'
      OBVIOUS
    <2>1. ASSUME NEW d \in Under(s)
          PROVE  d \in Under(s)' /\ met'[d] = met[d] /\ first'[d] = first[d]
      <3>1. d \in Calls /\ d # c /\ Begun(d) /\ From(d) = s
        BY <1>8 DEF Under
      <3>2. call'[d] = call[d] /\ met'[d] = met[d] /\ first'[d] = first[d]
        BY <1>6, <3>1
      <3> QED BY <3>1, <3>2 DEF Under, Begun, From
    <2>2. ASSUME NEW k \in Lapped(s)
          PROVE  k \in Lapped(s)'
      <3>1. PICK d \in Under(s) : k \in met[d] \ first[d]
        BY DEF Lapped
      <3>2. d \in Under(s)' /\ k \in met'[d] \ first'[d]
        BY <2>1, <3>1
      <3> QED BY <3>2 DEF Lapped
    <2> QED BY <2>1, <2>2
  <1>10. Found'
    <2> SUFFICES ASSUME NEW d \in Calls, Begun(d)'
                 PROVE  (Lasting(first[d]) \subseteq Marks(rec[From(d)]) \cup Lapped(From(d)))'
      BY DEF Found
    <2>1. CASE d = c
      <3>1. From(d)' = job.from /\ first'[d] = Marks(rec'[job.from])
        BY <1>4, <1>6, <1>7, <2>1 DEF From
      <3> QED BY <3>1 DEF Lasting
    <2>2. CASE d # c
      <3>1. call'[d] = call[d] /\ first'[d] = first[d]
        BY <1>6, <2>2
      <3>2. Begun(d)
        BY <3>1 DEF Begun
      <3>3. PICK s : s = From(d)
        OBVIOUS
      <3>4. Lasting(first[d]) \subseteq Marks(rec[s]) \cup Lapped(s)
        BY <3>2, <3>3 DEF NothingSlips, Found
      <3>5. From(d)' = s
        BY <3>1, <3>3 DEF From
      <3>6. Lasting(first[d])' = Lasting(first[d])
        BY <3>1 DEF Lasting
      <3> QED BY <1>7, <1>9, <3>4, <3>5, <3>6
    <2> QED BY <2>1, <2>2
  <1>11. CarryOn(call, flying)'
    <2>1. ASSUME NEW s, NEW r, Replaces(s, r)
          PROVE  Replaces(s, r)'
      BY <1>7, <1>9, <2>1 DEF Replaces, Lasting
    <2>2. ASSUME NEW d \in Calls, call'[d].pc = "put"
          PROVE  Replaces(call[d].job.from, call[d].body)'
      <3>1. call'[d] = call[d]
        BY <1>4, <1>6, <2>2
      <3>2. PICK q : q = call[d]
        OBVIOUS
      <3>3. Replaces(q.job.from, q.body)
        BY <2>2, <3>1, <3>2 DEF NothingSlips, CarryOn
      <3>4. Replaces(q.job.from, q.body)'
        BY <2>1, <3>3
      <3> QED BY <3>1, <3>2, <3>4
    <2>3. ASSUME NEW d \in Calls, call'[d].pc = "merge", Aim(call'[d]) # "brain",
                 NEW t \in rec'[call'[d].job.from].refs[Aim(call'[d])]
          PROVE  (t \in call[d].list \/ <<Aim(call[d]), t>> \in Lapped(call[d].job.from))'
      <3>1. call'[d] = call[d]
        BY <1>4, <1>6, <2>3
      <3>2. PICK q : q = call[d]
        OBVIOUS
      <3>3. t \in q.list \/ <<Aim(q), t>> \in Lapped(q.job.from)
        BY <1>7, <2>3, <3>1, <3>2 DEF NothingSlips, CarryOn
      <3>4. t \in q.list \/ <<Aim(q), t>> \in Lapped(q.job.from)'
        BY <1>9, <3>3
      <3> QED BY <3>1, <3>2, <3>4
    <2>4. ASSUME NEW w \in flying'
          PROVE  Under(w.src)' # {} /\ (w.body # None => Replaces(w.src, w.body)')
      <3>1. Under(w.src) # {} /\ (w.body # None => Replaces(w.src, w.body))
        BY <1>7 DEF NothingSlips, CarryOn
      <3> QED BY <1>9, <2>1, <3>1
    <2> QED BY <2>2, <2>3, <2>4 DEF CarryOn
  <1> QED BY <1>10, <1>11 DEF NothingSlips

LEMMA WireStepSlipsNothing ==
  ASSUME WireSound, WireSound', NothingSlips, WireNext
  PROVE  NothingSlips'
  BY BeginSlips, MintSlips, ReadSlips, PutSlips, LandSlips, EditSlips DEF WireNext, Step

----------------------------------------------------------------------------
(* The build. *)

LEMMA DocsAre ==
  ASSUME BuildTyped
  PROVE  /\ Len(kb.docs) \in Nat /\ DOMAIN kb.docs = 1..Len(kb.docs)
         /\ kb.doc \in Nat /\ kb.doc >= 1 /\ kb.doc <= Len(kb.docs) + 1
         /\ DOMAIN files = 1..Len(kb.docs) /\ DOMAIN index = 1..Len(kb.docs)
         /\ kb.docs \in DocLists => Len(kb.docs) >= 1
  <1>1. kb.docs \in DocLists \/ kb.docs = <<>>
    BY DEF BuildTyped, Shapes
  <1>2. CASE kb.docs \in DocLists
    <2>1. kb.docs \in Seq(DocKinds) /\ kb.docs # <<>>
      BY <1>2, DocListsAssumption
    <2>2. Len(kb.docs) \in Nat /\ DOMAIN kb.docs = 1..Len(kb.docs) /\ Len(kb.docs) >= 1
      BY <2>1
    <2> QED BY <2>2 DEF BuildTyped
  <1>3. CASE kb.docs = <<>> /\ kb.docs \notin DocLists
    <2>1. Len(kb.docs) \in Nat /\ DOMAIN kb.docs = 1..Len(kb.docs)
      BY <1>3
    <2> QED BY <1>3, <2>1 DEF BuildTyped
  <1> QED BY <1>1, <1>2, <1>3

LEMMA AskIsSound ==
  ASSUME BuildSound, Ask
  PROVE  BuildSound'
  <1>1. PICK docs \in DocLists, local \in {"yes", "no"} :
          /\ kb.pc = "idle"
          /\ kb' = [kb EXCEPT
                      !.pc = IF \E i \in DOMAIN docs : Refused(docs[i], local) THEN "refused" ELSE "create",
                      !.docs = docs, !.local = local]
          /\ files' = [i \in DOMAIN docs |-> "none"]
          /\ index' = [i \in DOMAIN docs |-> NotAttached]
          /\ exists' = exists
    BY DEF Ask
  <1>2. docs \in Seq(DocKinds) /\ Len(docs) \in Nat /\ Len(docs) >= 1 /\ DOMAIN docs = 1..Len(docs)
    <2>1. docs \in Seq(DocKinds) /\ docs # <<>>
      BY DocListsAssumption
    <2> QED BY <2>1
  <1>3. PICK pc : pc = IF \E i \in DOMAIN docs : Refused(docs[i], local) THEN "refused" ELSE "create"
    OBVIOUS
  <1>4. pc \in {"refused", "create"} /\ (pc = "create" => \A i \in 1..Len(docs) : ~Refused(docs[i], local))
    BY <1>2, <1>3
  <1>5. kb \in Shapes /\ kb' = [kb EXCEPT !.pc = pc, !.docs = docs, !.local = local]
    BY <1>1, <1>3 DEF BuildSound, BuildTyped
  <1>6. /\ kb'.pc = pc /\ kb'.docs = docs /\ kb'.local = local /\ kb'.doc = kb.doc /\ kb'.confirmed = kb.confirmed
        /\ kb'.rows = kb.rows /\ kb'.segmented = kb.segmented /\ kb'.probed = kb.probed
    BY <1>5 DEF Shapes
  <1>7. kb' \in Shapes
    BY <1>4, <1>5 DEF Shapes
  <1>8. kb.doc = 1 /\ kb.rows = {} /\ kb.probed = "no" /\ kb.segmented = "no" /\ Dataset \notin exists
    BY <1>1, <1>5 DEF BuildSound, Reached, Judges, Judged, Segmented, Shapes
  <1>9. BuildTyped'
    BY <1>1, <1>2, <1>6, <1>7, <1>8 DEF BuildTyped
  <1>10. Reached'
    BY <1>1, <1>2, <1>4, <1>6, <1>8 DEF Reached, Judged
  <1>11. Indexed'
    <2>1. \A i \in 1..Len(docs) : index'[i] = NotAttached
      BY <1>1, <1>2
    <2>2. pc # "attach" /\ \A i \in 1..Len(docs) : ~(i < 1)
      BY <1>2, <1>4
    <2> QED BY <1>6, <1>8, <2>1, <2>2 DEF Indexed, NotAttached
  <1>12. Judges'
    BY <1>4, <1>6, <1>8 DEF Judges, Judged
  <1> QED BY <1>9, <1>10, <1>11, <1>12 DEF BuildSound

(* A step that changes nothing but where the build is.                       *)
LEMMA Moves ==
  ASSUME BuildSound, UNCHANGED <<files, index>>, NEW pc, kb' = [kb EXCEPT !.pc = pc],
         kb.pc \in {"create", "upload", "confirm", "attach", "poll"},
         pc = "threw" \/ (pc = "upload" /\ kb.pc = "create") \/ (pc = "confirm" /\ kb.pc = "upload"),
         exists' \subseteq exists \cup {Dataset}
  PROVE  BuildSound'
  <1>1. kb \in Shapes
    BY DEF BuildSound, BuildTyped
  <1>2. /\ kb'.pc = pc /\ kb'.docs = kb.docs /\ kb'.local = kb.local /\ kb'.doc = kb.doc
        /\ kb'.confirmed = kb.confirmed /\ kb'.rows = kb.rows /\ kb'.segmented = kb.segmented
        /\ kb'.probed = kb.probed
    BY <1>1 DEF Shapes
  <1>3. kb' \in Shapes
    BY <1>1 DEF Shapes
  <1>4. files' = files /\ index' = index
    OBVIOUS
  <1>5. BuildTyped'
    BY <1>2, <1>3, <1>4 DEF BuildSound, BuildTyped
  <1>6. Reached'
    BY <1>2 DEF BuildSound, Reached, Judged
  <1>7. Indexed'
    BY <1>2, <1>4 DEF BuildSound, Indexed
  <1>8. Judges'
    BY <1>2, <1>4 DEF BuildSound, Judges, Judged, Vectors
  <1> QED BY <1>5, <1>6, <1>7, <1>8 DEF BuildSound

LEMMA CreateDatasetIsSound ==
  ASSUME BuildSound, CreateDataset
  PROVE  BuildSound'
  <1>1. PICK pc : /\ pc \in {"upload", "threw"} /\ kb.pc = "create" /\ kb' = [kb EXCEPT !.pc = pc]
                  /\ exists' \subseteq exists \cup {Dataset} /\ UNCHANGED <<files, index>>
    BY DEF CreateDataset
  <1> QED BY <1>1, Moves

LEMMA UploadIsSound ==
  ASSUME BuildSound, Upload
  PROVE  BuildSound'
  <1>1. PICK o \in Outcomes, kept \in {"kept", "lost"} :
          /\ kb.pc = "upload"
          /\ IF Doc = "empty file"
             THEN kb' = [kb EXCEPT !.pc = "threw"] /\ UNCHANGED files
             ELSE /\ kb' = [kb EXCEPT !.pc = IF o = "answered" THEN "confirm" ELSE "threw"]
                  /\ files' = IF o = "refused" THEN files ELSE [files EXCEPT ![kb.doc] = kept]
          /\ UNCHANGED <<exists, index>>
    BY DEF Upload
  <1>2. PICK pc : /\ pc \in {"confirm", "threw"} /\ kb' = [kb EXCEPT !.pc = pc]
                  /\ files' = files \/ files' = [files EXCEPT ![kb.doc] = kept]
    BY <1>1
  <1>3. CASE files' = files
    BY <1>1, <1>2, <1>3, Moves
  <1>4. CASE files' = [files EXCEPT ![kb.doc] = kept]
    <2>1. kb \in Shapes
      BY DEF BuildSound, BuildTyped
    <2>2. /\ kb'.pc = pc /\ kb'.docs = kb.docs /\ kb'.local = kb.local /\ kb'.doc = kb.doc
          /\ kb'.confirmed = kb.confirmed /\ kb'.rows = kb.rows /\ kb'.segmented = kb.segmented
          /\ kb'.probed = kb.probed
      BY <1>2, <2>1 DEF Shapes
    <2>3. kb' \in Shapes
      BY <1>2, <2>1 DEF Shapes
    <2>4. files' \in [1..Len(kb.docs) -> {"none", "kept", "lost"}]
      BY <1>4 DEF BuildSound, BuildTyped
    <2>5. \A i \in 1..Len(kb.docs) : i < kb.doc => files'[i] = files[i]
      BY <1>4 DEF BuildSound, BuildTyped
    <2>6. index' = index /\ exists' = exists
      BY <1>1
    <2>7. BuildTyped'
      BY <2>2, <2>3, <2>4, <2>6 DEF BuildSound, BuildTyped
    <2>8. Reached'
      BY <1>1, <1>2, <2>2, <2>6 DEF BuildSound, Reached, Judged
    <2>9. Indexed'
      <3>1. kb'.confirmed = "yes" =>
              \A i \in 1..Len(kb.docs) : i < kb.doc \/ (i = kb.doc /\ kb'.pc = "attach") => files'[i] = "kept"
        BY <1>2, <2>2, <2>5 DEF BuildSound, Indexed
      <3>2. \A i \in 1..Len(kb.docs) :
              /\ index[i].status \notin Terminal => index[i].segments = 0 /\ index[i].vectors = 0
              /\ i >= kb.doc => index[i] = NotAttached
        BY <1>1 DEF BuildSound, Indexed
      <3> QED BY <2>2, <2>6, <3>1, <3>2 DEF Indexed
    <2>10. Judges'
      BY <1>1, <1>2, <2>2, <2>6 DEF BuildSound, Judges, Judged, Vectors
    <2> QED BY <2>7, <2>8, <2>9, <2>10 DEF BuildSound
  <1> QED BY <1>2, <1>3, <1>4

LEMMA ConfirmIsSound ==
  ASSUME BuildSound, Confirm
  PROVE  BuildSound'
  <1>1. PICK read \in BOOLEAN :
          /\ kb.pc = "confirm"
          /\ read => files[kb.doc] = "kept"
          /\ kb' = [kb EXCEPT !.pc = "attach", !.confirmed = IF read THEN @ ELSE "no"]
          /\ UNCHANGED <<exists, files, index>>
    BY DEF Confirm
  <1>2. kb \in Shapes
    BY DEF BuildSound, BuildTyped
  <1>3. PICK confirmed : confirmed = IF read THEN kb.confirmed ELSE "no"
    OBVIOUS
  <1>4. confirmed \in {"yes", "no"} /\ (confirmed = "yes" => kb.confirmed = "yes" /\ files[kb.doc] = "kept")
    BY <1>1, <1>2, <1>3 DEF Shapes
  <1>5. kb' = [kb EXCEPT !.pc = "attach", !.confirmed = confirmed]
    BY <1>1, <1>3
  <1>6. /\ kb'.pc = "attach" /\ kb'.docs = kb.docs /\ kb'.local = kb.local /\ kb'.doc = kb.doc
        /\ kb'.confirmed = confirmed /\ kb'.rows = kb.rows /\ kb'.segmented = kb.segmented
        /\ kb'.probed = kb.probed
    BY <1>2, <1>5 DEF Shapes
  <1>7. kb' \in Shapes
    BY <1>2, <1>4, <1>5 DEF Shapes
  <1>8. files' = files /\ index' = index /\ exists' = exists
    BY <1>1
  <1>9. BuildTyped'
    BY <1>6, <1>7, <1>8 DEF BuildSound, BuildTyped
  <1>10. Reached'
    BY <1>1, <1>6, <1>8 DEF BuildSound, Reached, Judged
  <1>11. Indexed'
    BY <1>1, <1>4, <1>6, <1>8 DEF BuildSound, Indexed
  <1>12. Judges'
    BY <1>1, <1>6, <1>8 DEF BuildSound, Judges, Judged, Vectors
  <1> QED BY <1>9, <1>10, <1>11, <1>12 DEF BuildSound

LEMMA AttachIsSound ==
  ASSUME BuildSound, Attach
  PROVE  BuildSound'
  <1>1. PICK o \in Outcomes : \E fate \in Fates(o) \ {"flying"} :
          /\ kb.pc = "attach"
          /\ index' = IF fate = "served" THEN [index EXCEPT ![kb.doc].status = "INDEXING"] ELSE index
          /\ kb' = IF o # "answered" THEN [kb EXCEPT !.pc = "threw"]
                   ELSE [kb EXCEPT !.pc = IF kb.doc < Len(kb.docs) THEN "upload" ELSE "poll", !.doc = @ + 1]
          /\ UNCHANGED <<exists, files>>
    BY DEF Attach
  <1>2. /\ kb.pc = "attach" /\ files' = files /\ exists' = exists
        /\ index' = index \/ index' = [index EXCEPT ![kb.doc].status = "INDEXING"]
        /\ \/ kb' = [kb EXCEPT !.pc = "threw"]
           \/ kb' = [kb EXCEPT !.pc = IF kb.doc < Len(kb.docs) THEN "upload" ELSE "poll", !.doc = @ + 1]
    BY <1>1
  <1>3. kb \in Shapes /\ kb.doc \in 1..Len(kb.docs) /\ kb.rows = {} /\ kb.probed = "no"
    BY <1>2, DocsAre DEF BuildSound, BuildTyped, Reached, Judges, Judged
  <1>4. index[kb.doc] = NotAttached
    BY <1>2, <1>3 DEF BuildSound, Indexed
  <1>5. PICK row : row = [NotAttached EXCEPT !.status = "INDEXING"]
    OBVIOUS
  <1>6. row \in Row /\ row.status = "INDEXING" /\ row.segments = 0 /\ row.vectors = 0
    BY <1>5 DEF NotAttached, Row, Statuses
  <1>7. index' = index \/ index' = [index EXCEPT ![kb.doc] = row]
    BY <1>2, <1>4, <1>5
  <1>8. /\ index' \in [1..Len(kb.docs) -> Row \cup {NotAttached}]
        /\ \A i \in 1..Len(kb.docs) : i # kb.doc => index'[i] = index[i]
        /\ index'[kb.doc] = index[kb.doc] \/ index'[kb.doc] = row
    BY <1>3, <1>6, <1>7 DEF BuildSound, BuildTyped
  <1>9. \A i \in 1..Len(kb.docs) : index'[i].status \notin Terminal => index'[i].segments = 0 /\ index'[i].vectors = 0
    BY <1>6, <1>8 DEF BuildSound, Indexed
  <1>10. PICK pc, doc : /\ kb' = [kb EXCEPT !.pc = pc, !.doc = doc]
                        /\ \/ pc = "threw" /\ doc = kb.doc
                           \/ pc = "upload" /\ doc = kb.doc + 1 /\ doc <= Len(kb.docs)
                           \/ pc = "poll" /\ doc = kb.doc + 1 /\ doc = Len(kb.docs) + 1
    <2>1. Len(kb.docs) \in Nat
      BY DocsAre DEF BuildSound
    <2>2. CASE kb' = [kb EXCEPT !.pc = "threw"]
      <3>1. kb' = [kb EXCEPT !.pc = "threw", !.doc = kb.doc]
        BY <1>3, <2>2 DEF Shapes
      <3> QED BY <3>1
    <2>3. CASE kb' = [kb EXCEPT !.pc = IF kb.doc < Len(kb.docs) THEN "upload" ELSE "poll", !.doc = @ + 1]
      <3>1. kb' = [kb EXCEPT !.pc = IF kb.doc < Len(kb.docs) THEN "upload" ELSE "poll", !.doc = kb.doc + 1]
        BY <2>3
      <3>2. CASE kb.doc < Len(kb.docs)
        <4>1. kb.doc + 1 <= Len(kb.docs)
          BY <1>3, <2>1, <3>2
        <4> QED BY <3>1, <3>2, <4>1
      <3>3. CASE ~(kb.doc < Len(kb.docs))
        <4>1. kb.doc = Len(kb.docs)
          BY <1>3, <2>1, <3>3
        <4> QED BY <3>1, <3>3, <4>1
      <3> QED BY <3>2, <3>3
    <2> QED BY <1>2, <2>2, <2>3
  <1>11. pc \in {"threw", "upload", "poll"} /\ doc \in Nat /\ doc \in 1..Len(kb.docs) + 1 /\ doc >= kb.doc
    <2>1. Len(kb.docs) \in Nat
      BY DocsAre DEF BuildSound
    <2> QED BY <1>3, <1>10, <2>1
  <1>12. /\ kb'.pc = pc /\ kb'.docs = kb.docs /\ kb'.local = kb.local /\ kb'.doc = doc
         /\ kb'.confirmed = kb.confirmed /\ kb'.rows = kb.rows /\ kb'.segmented = kb.segmented
         /\ kb'.probed = kb.probed
    BY <1>3, <1>10 DEF Shapes
  <1>13. kb' \in Shapes
    BY <1>3, <1>10, <1>11 DEF Shapes
  <1>14. BuildTyped'
    BY <1>2, <1>8, <1>11, <1>12, <1>13 DEF BuildSound, BuildTyped
  <1>15. Reached'
    BY <1>2, <1>10, <1>12 DEF BuildSound, Reached, Judged
  <1>16. Indexed'
    <2>1. ASSUME kb.confirmed = "yes", NEW i \in 1..Len(kb.docs), i < doc
          PROVE  files[i] = "kept"
      <3>1. i < kb.doc \/ i = kb.doc
        BY <1>3, <1>10, <2>1
      <3> QED BY <1>2, <2>1, <3>1 DEF BuildSound, Indexed
    <2>2. ASSUME NEW i \in 1..Len(kb.docs), i >= doc, pc # "threw"
          PROVE  index'[i] = NotAttached
      <3>1. i # kb.doc /\ i >= kb.doc
        BY <1>3, <1>10, <2>2
      <3> QED BY <1>2, <1>8, <3>1 DEF BuildSound, Indexed
    <2> QED BY <1>2, <1>9, <1>11, <1>12, <2>1, <2>2 DEF Indexed
  <1>17. Judges'
    BY <1>2, <1>3, <1>11, <1>12 DEF BuildSound, Judges, Judged
  <1> QED BY <1>14, <1>15, <1>16, <1>17 DEF BuildSound

LEMMA RowsListed ==
  ASSUME BuildSound, NEW seen \in SUBSET Attached
  PROVE  /\ Listed(seen) \in SUBSET [doc : Nat, row : Row \cup {NotAttached}]
         /\ \A r \in Listed(seen) : r.doc \in 1..Len(kb.docs) /\ r.row = index[r.doc]
         /\ \A r1, r2 \in Listed(seen) : r1.doc = r2.doc => r1 = r2
  <1>1. \A i \in seen : i \in 1..Len(kb.docs) /\ i \in Nat /\ index[i] \in Row \cup {NotAttached}
    BY DocsAre DEF BuildSound, BuildTyped, Attached
  <1>2. ASSUME NEW r \in Listed(seen)
        PROVE  \E i \in seen : r = [doc |-> i, row |-> index[i]]
    BY DEF Listed
  <1> QED BY <1>1, <1>2

LEMMA PollIsSound ==
  ASSUME BuildSound, Poll
  PROVE  BuildSound'
  <1>1. PICK seen \in SUBSET Attached :
          /\ kb.pc = "poll"
          /\ kb' = [kb EXCEPT !.pc = "probe", !.rows = Listed(seen),
                              !.segmented = IF Segmented(Listed(seen)) THEN "yes" ELSE "no"]
          /\ UNCHANGED <<exists, files, index>>
    BY DEF Poll
  <1>2. PICK rows : rows = Listed(seen)
    OBVIOUS
  <1>3. PICK segmented : segmented = IF Segmented(Listed(seen)) THEN "yes" ELSE "no"
    OBVIOUS
  <1>4. segmented \in {"yes", "no"} /\ (segmented = "yes" => Segmented(rows))
    BY <1>2, <1>3
  <1>5. /\ rows \in SUBSET [doc : Nat, row : Row \cup {NotAttached}]
        /\ \A r \in rows : r.doc \in 1..Len(kb.docs) /\ r.row = index[r.doc]
        /\ \A r1, r2 \in rows : r1.doc = r2.doc => r1 = r2
    BY <1>2, RowsListed
  <1>6. kb \in Shapes /\ kb' = [kb EXCEPT !.pc = "probe", !.rows = rows, !.segmented = segmented]
    BY <1>1, <1>2, <1>3 DEF BuildSound, BuildTyped
  <1>7. /\ kb'.pc = "probe" /\ kb'.docs = kb.docs /\ kb'.local = kb.local /\ kb'.doc = kb.doc
        /\ kb'.confirmed = kb.confirmed /\ kb'.rows = rows /\ kb'.segmented = segmented
        /\ kb'.probed = kb.probed
    BY <1>6 DEF Shapes
  <1>8. kb' \in Shapes
    BY <1>4, <1>5, <1>6 DEF Shapes
  <1>9. files' = files /\ index' = index /\ exists' = exists
    BY <1>1
  <1>10. BuildTyped'
    BY <1>7, <1>8, <1>9 DEF BuildSound, BuildTyped
  <1>11. Reached'
    BY <1>1, <1>7, <1>9 DEF BuildSound, Reached, Judged
  <1>12. Indexed'
    BY <1>1, <1>7, <1>9 DEF BuildSound, Indexed
  <1>13. Judges'
    <2>1. kb.probed = "no"
      BY <1>1 DEF BuildSound, Judges
    <2> QED BY <1>4, <1>5, <1>7, <1>9, <2>1 DEF Judges, Judged, Segmented
  <1> QED BY <1>10, <1>11, <1>12, <1>13 DEF BuildSound

LEMMA ProbeIsSound ==
  ASSUME BuildSound, Probe
  PROVE  BuildSound'
  <1>1. PICK probed \in {"retrieves", "nothing", "did not run"} :
          /\ kb.pc = "probe"
          /\ probed = "retrieves" => Vectors # {}
          /\ kb' = [kb EXCEPT !.pc = IF Usable(kb.segmented, probed) THEN "ready" ELSE "unusable", !.probed = probed]
          /\ UNCHANGED <<exists, files, index>>
    BY DEF Probe
  <1>2. PICK pc : pc = IF Usable(kb.segmented, probed) THEN "ready" ELSE "unusable"
    OBVIOUS
  <1>3. /\ pc \in {"ready", "unusable"}
        /\ pc = "ready" => kb.confirmed = "yes" /\ kb.segmented = "yes" /\ probed # "nothing"
    BY <1>2 DEF Usable
  <1>4. kb \in Shapes /\ kb' = [kb EXCEPT !.pc = pc, !.probed = probed]
    BY <1>1, <1>2 DEF BuildSound, BuildTyped
  <1>5. /\ kb'.pc = pc /\ kb'.docs = kb.docs /\ kb'.local = kb.local /\ kb'.doc = kb.doc
        /\ kb'.confirmed = kb.confirmed /\ kb'.rows = kb.rows /\ kb'.segmented = kb.segmented
        /\ kb'.probed = probed
    BY <1>4 DEF Shapes
  <1>6. kb' \in Shapes
    BY <1>3, <1>4 DEF Shapes
  <1>7. files' = files /\ index' = index /\ exists' = exists
    BY <1>1
  <1>8. BuildTyped'
    BY <1>5, <1>6, <1>7 DEF BuildSound, BuildTyped
  <1>9. Reached'
    BY <1>1, <1>3, <1>5, <1>7 DEF BuildSound, Reached, Judged
  <1>10. Indexed'
    BY <1>1, <1>3, <1>5, <1>7 DEF BuildSound, Indexed
  <1>11. Judges'
    BY <1>1, <1>3, <1>5, <1>7 DEF BuildSound, Judges, Judged, Vectors
  <1> QED BY <1>8, <1>9, <1>10, <1>11 DEF BuildSound

(* The index works on documents that are not judged yet.                     *)
LEMMA IndexIsSound ==
  ASSUME BuildSound, Index
  PROVE  BuildSound'
  <1>1. PICK i \in Attached, row \in Row :
          /\ index[i].status = "INDEXING"
          /\ row.status \in Terminal
          /\ index' = [index EXCEPT ![i] = row]
          /\ UNCHANGED <<exists, kb, files>>
    BY DEF Index
  <1>2. i \in 1..Len(kb.docs) /\ index \in [1..Len(kb.docs) -> Row \cup {NotAttached}]
    BY DocsAre DEF BuildSound, BuildTyped, Attached
  <1>3. kb' = kb /\ files' = files /\ exists' = exists
    BY <1>1
  <1>4. /\ index' \in [1..Len(kb.docs) -> Row \cup {NotAttached}]
        /\ index'[i] = row
        /\ \A j \in 1..Len(kb.docs) : j # i => index'[j] = index[j]
    BY <1>1, <1>2
  <1>5. BuildTyped'
    BY <1>3, <1>4 DEF BuildSound, BuildTyped
  <1>6. Reached'
    BY <1>3 DEF BuildSound, Reached
  <1>7. index[i] # NotAttached /\ index[i].status \notin Terminal
    BY <1>1 DEF NotAttached, Terminal
  <1>8. Indexed'
    BY <1>1, <1>2, <1>3, <1>4, <1>7 DEF BuildSound, Indexed
  <1>9. Vectors \subseteq Vectors'
    <2>1. ASSUME NEW j \in Vectors
          PROVE  j \in Vectors'
      <3>1. j \in 1..Len(kb.docs) /\ index[j].vectors > 0
        BY <1>2 DEF Vectors
      <3>2. j # i
        <4>1. index[i].vectors = 0
          BY <1>2, <1>7 DEF BuildSound, Indexed
        <4> QED BY <3>1, <4>1
      <3> QED BY <1>4, <3>1, <3>2 DEF Vectors
    <2> QED BY <2>1
  <1>10. \A r \in kb.rows : r.row.status \in Terminal => index'[r.doc] = r.row
    <2>1. ASSUME NEW r \in kb.rows, r.row.status \in Terminal
          PROVE  index'[r.doc] = r.row
      <3>1. r.doc \in 1..Len(kb.docs) /\ index[r.doc] = r.row
        BY <2>1 DEF BuildSound, Judges
      <3> QED BY <1>4, <1>7, <2>1, <3>1
    <2> QED BY <2>1
  <1>11. Judges'
    BY <1>3, <1>9, <1>10 DEF BuildSound, Judges
  <1> QED BY <1>5, <1>6, <1>8, <1>11 DEF BuildSound

LEMMA BuildStepIsSound ==
  ASSUME BuildSound, Ask \/ BuildStep \/ Index
  PROVE  BuildSound'
  <1>1. CASE PollFails
    <2>1. /\ kb.pc = "poll" /\ kb' = [kb EXCEPT !.pc = "threw"] /\ UNCHANGED <<files, index>>
          /\ exists' \subseteq exists \cup {Dataset}
      BY <1>1 DEF PollFails
    <2> QED BY <2>1, Moves
  <1> QED BY <1>1, AskIsSound, CreateDatasetIsSound, UploadIsSound, ConfirmIsSound, AttachIsSound, PollIsSound,
             ProbeIsSound, IndexIsSound DEF BuildStep

----------------------------------------------------------------------------
(* The two together. *)

Inv == WireSound /\ NothingSlips /\ BuildSound

(* A wiring tool makes modules, and never the dataset of the build.          *)
LEMMA NoDatasetIsMade ==
  ASSUME WireNext, Dataset \in exists'
  PROVE  Dataset \in exists
  <1>1. CASE \E c \in Calls : Mint(c)
    <2>1. PICK c \in Calls : Mint(c)
      BY <1>1
    <2>2. PICK m \in {t \in Things \ exists : Kind[t] = "module" /\ DatasetOf[t] = call[c].job.to} \cup {None} :
            exists' = exists \/ (m # None /\ exists' = exists \cup {m})
      BY <2>1 DEF Mint
    <2> QED BY <2>2, Exists0Assumption
  <1>2. CASE ~\E c \in Calls : Mint(c)
    <2>1. UNCHANGED exists
      BY <1>2 DEF WireNext, Step, Begin, ReadTarget, ReadBefore, ReadList, MergeGet, Put, Bind, ReadAfter, ReadTier,
                  Land, Edit
    <2> QED BY <2>1
  <1> QED BY <1>1, <1>2

LEMMA ConnectKeepsBuild ==
  ASSUME BuildSound, WireNext, UNCHANGED knowledgeVars
  PROVE  BuildSound'
  <1>1. kb' = kb /\ files' = files /\ index' = index
    BY DEF knowledgeVars
  <1>2. BuildTyped'
    BY <1>1 DEF BuildSound, BuildTyped
  <1>3. Reached'
    BY <1>1, NoDatasetIsMade DEF BuildSound, Reached
  <1>4. Indexed'
    BY <1>1 DEF BuildSound, Indexed
  <1>5. Judges'
    BY <1>1 DEF BuildSound, Judges, Vectors
  <1> QED BY <1>2, <1>3, <1>4, <1>5 DEF BuildSound

LEMMA BuildAdds ==
  ASSUME Ask \/ BuildStep \/ Index
  PROVE  exists \subseteq exists' /\ exists' \subseteq exists \cup {Dataset}
  BY DEF BuildStep, Ask, CreateDataset, Upload, Confirm, Attach, Poll, PollFails, Probe, Index

LEMMA BuildKeepsWire ==
  ASSUME WireSound, NothingSlips, exists \subseteq exists', exists' \subseteq exists \cup {Dataset},
         UNCHANGED wireVars
  PROVE  WireSound' /\ NothingSlips'
  <1>1. rec' = rec /\ flying' = flying /\ call' = call /\ first' = first /\ met' = met
    BY DEF wireVars
  <1>2. World'
    BY <1>1, StandingStill, Exists0Assumption DEF WireSound, World
  <1>3. CallsOK'
    <2>1. ASSUME NEW c \in Calls
          PROVE  (/\ CallOK(call[c]) /\ Told(call[c], met[c])
                  /\ Begun(c) => Marks(rec[From(c)]) \subseteq met[c])'
      <3>1. PICK q : q = call[c]
        OBVIOUS
      <3>2. CallOK(q)'
        BY <3>1, CallIs, CallKeeps DEF WireSound
      <3>3. Told(call[c], met[c]) /\ (Begun(c) => Marks(rec[From(c)]) \subseteq met[c])
        BY CallIs DEF WireSound
      <3>4. (Told(call[c], met[c]) /\ (Begun(c) => Marks(rec[From(c)]) \subseteq met[c]))'
        BY <1>1, <3>3 DEF Told, Begun, From
      <3>5. CallOK(call[c])'
        BY <1>1, <3>1, <3>2
      <3> QED BY <3>4, <3>5
    <2> QED BY <1>1, <2>1 DEF WireSound, CallsOK
  <1>4. NothingSlips'
    <2>1. Steady /\ CarryOn(call', flying') /\ \A d \in Calls : call'[d].pc # "idle" => Begun(d)
      BY <1>1 DEF NothingSlips, Steady, Begun
    <2> QED BY <1>1, <1>2, <1>3, <2>1, StillSlips DEF WireSound
  <1> QED BY <1>2, <1>3, <1>4 DEF WireSound

LEMMA InvInit == Init => Inv
  <1> SUFFICES ASSUME Init
               PROVE  Inv
    OBVIOUS
  <1>1. /\ exists = Exists0 /\ rec = [s \in Sources |-> [refs |-> Refs0[s], edition |-> 0]] /\ flying = {}
        /\ call = [c \in Calls |-> Idle] /\ first = [c \in Calls |-> {}] /\ met = [c \in Calls |-> {}]
        /\ kb = NoBuild /\ files = <<>> /\ index = <<>>
    BY DEF Init, WireInit, KnowledgeInit
  <1>2. \A c \in Calls : call[c] = Idle
    BY <1>1
  <1>3. World
    <2>1. ASSUME NEW s \in Sources
          PROVE  rec[s] \in Records /\ Whole(rec[s])
      <3>1. Refs0[s] \in [Fields -> SUBSET Things] /\ \A t \in Refs0[s]["knowledgeModuleIds"] : Kind[t] = "module"
        BY Refs0Assumption
      <3>2. rec[s] = [refs |-> Refs0[s], edition |-> 0]
        BY <1>1
      <3>3. rec[s] \in Records
        BY <3>1, <3>2, BoundsAssumption DEF Records
      <3>4. \A f \in Fields : Refs0[s][f] \subseteq exists
        BY <1>1, Exists0Assumption
      <3> QED BY <3>1, <3>2, <3>3, <3>4 DEF Whole, Fits
    <2>2. rec \in [Sources -> Records]
      BY <1>1, <2>1
    <2> QED BY <1>1, <2>1, <2>2, Exists0Assumption DEF World
  <1>4. CallsOK
    <2>1. CallOK(Idle)
      BY NothingYet DEF CallOK, Begins, Aims, Carries, Writes, Grounds, Moving, Early, Ok
    <2>2. ASSUME NEW c \in Calls
          PROVE  Told(call[c], met[c]) /\ ~Begun(c)
      BY <1>2, NothingYet DEF Told, Begun
    <2> QED BY <1>1, <1>2, <2>1, <2>2, NothingYet DEF CallsOK
  <1>5. NothingSlips
    BY <1>1, <1>2, NothingYet DEF NothingSlips, Found, CarryOn, Begun
  <1>6. BuildSound
    <2>1. /\ kb.pc = "idle" /\ kb.docs = <<>> /\ kb.local = "yes" /\ kb.doc = 1 /\ kb.confirmed = "yes"
          /\ kb.rows = {} /\ kb.segmented = "no" /\ kb.probed = "no" /\ kb \in Shapes
      BY <1>1 DEF NoBuild, Shapes
    <2>2. Len(kb.docs) = 0 /\ 1..Len(kb.docs) = {} /\ kb.doc \in 1..Len(kb.docs) + 1
      BY <2>1
    <2>3. BuildTyped
      BY <1>1, <2>1, <2>2 DEF BuildTyped
    <2>4. Reached
      BY <1>1, <2>1, <2>2, Exists0Assumption DEF Reached, Judged
    <2>5. Indexed
      BY <2>2 DEF Indexed
    <2>6. Judges
      BY <2>1 DEF Judges, Judged
    <2> QED BY <2>3, <2>4, <2>5, <2>6 DEF BuildSound
  <1> QED BY <1>3, <1>4, <1>5, <1>6 DEF Inv, WireSound

LEMMA InvNext == Inv /\ [Next]_vars => Inv'
  <1> SUFFICES ASSUME Inv, [Next]_vars
               PROVE  Inv'
    OBVIOUS
  <1>1. CASE Build
    <2>1. (Ask \/ BuildStep \/ Index) /\ UNCHANGED wireVars
      BY <1>1 DEF Build
    <2> QED BY <2>1, BuildStepIsSound, BuildAdds, BuildKeepsWire DEF Inv
  <1>2. CASE Connect
    <2>1. WireNext /\ UNCHANGED knowledgeVars
      BY <1>2 DEF Connect
    <2>2. WireSound'
      BY <2>1, WireStepIsSound DEF Inv
    <2> QED BY <2>1, <2>2, WireStepSlipsNothing, ConnectKeepsBuild DEF Inv
  <1>3. CASE UNCHANGED vars
    <2>1. exists' = exists /\ UNCHANGED wireVars /\ kb' = kb /\ files' = files /\ index' = index
      BY <1>3 DEF vars, knowledgeVars
    <2>2. BuildSound'
      BY <2>1 DEF Inv, BuildSound, BuildTyped, Reached, Indexed, Judges, Vectors
    <2> QED BY <2>1, <2>2, BuildKeepsWire DEF Inv
  <1> QED BY <1>1, <1>2, <1>3 DEF Next

----------------------------------------------------------------------------
(* What follows. *)

LEMMA WireInvHolds ==
  ASSUME WireSound
  PROVE  WireInv
  <1>1. WireTypeOK
    BY DEF WireSound, World, CallsOK, WireTypeOK
  <1>2. ConnectedWasThere
    <2> SUFFICES ASSUME NEW c \in Calls
                 PROVE  /\ Reported(c) /\ Ok(call[c].state) /\ ~call[c].job.dry =>
                             <<FieldOf(c), call[c].to>> \in met[c]
                        /\ call[c].grounded = "yes" /\ Kind[call[c].job.to] = "dataset" =>
                             DatasetOf[call[c].to] = call[c].job.to
      BY DEF ConnectedWasThere
    <2>1. CallOK(call[c]) /\ Told(call[c], met[c])
      BY CallIs DEF WireSound
    <2>2. Aim(call[c]) = FieldOf(c)
      BY DEF Aim, FieldOf, From
    <2>3. call[c].grounded = "yes" => /\ call[c].job.tool = "ground" /\ Ok(call[c].state)
                                      /\ call[c].pc \in {"tier", "done"}
      BY <2>1 DEF CallOK, Begins, Grounds
    <2>4. Ok(call[c].state) => call[c].state # "module-create-failed"
      BY DEF Ok
    <2> QED BY <2>1, <2>2, <2>3, <2>4 DEF Told, Reported, At, CallOK, Grounds
  <1>3. NothingDangles
    <2> SUFFICES ASSUME NEW s \in Sources
                 PROVE  /\ UNION {rec[s].refs[f] : f \in Fields} \subseteq exists
                        /\ \A t \in rec[s].refs["knowledgeModuleIds"] : Kind[t] = "module"
      BY DEF NothingDangles
    <2>1. \A f \in Fields : \A t \in rec[s].refs[f] : Fits(f, t)
      BY DEF WireSound, World, Whole
    <2>2. "knowledgeModuleIds" \in Fields
      BY DEF Fields, ListFields
    <2> QED BY <2>1, <2>2 DEF Fits
  <1>4. NothingWasWritten
    <2>1. ASSUME NEW c \in Calls
          PROVE  Writes(call[c])
      BY CallIs DEF WireSound, CallOK
    <2> QED BY <2>1 DEF NothingWasWritten, Writes, Begun
  <1> QED BY <1>1, <1>2, <1>3, <1>4 DEF WireInv

(* A record that is replaced loses to an overlap alone.                      *)
LEMMA StoreLoses ==
  ASSUME WireSound, NEW s \in Sources, NEW r, Store(s, r), Replaces(s, r), NEW x \in Sources
  PROVE  {k \in Marks(rec[x]) \ Marks(rec'[x]) : k[1] # "brain"} \subseteq Lapped(x)
  <1>1. rec' = [rec EXCEPT ![s] = r] /\ rec \in [Sources -> Records]
    BY DEF Store, WireSound, World
  <1>2. CASE x = s
    BY <1>1, <1>2 DEF Replaces, Lasting
  <1>3. CASE x # s
    BY <1>1, <1>3
  <1> QED BY <1>2, <1>3

LEMMA SendsLose ==
  ASSUME WireSound, NothingSlips, NEW c \in Calls, Put(c) \/ Bind(c), rec' # rec, NEW x \in Sources
  PROVE  {k \in Marks(rec[x]) \ Marks(rec'[x]) : k[1] # "brain"} \subseteq Lapped(x)
  <1>1. call[c].pc \in {"put", "bind"} /\ Sends(c)
    BY WritesSend
  <1>2. PICK o \in Outcomes : \E fate \in Fates(o) : Fate(Write(c), fate)
    BY <1>1 DEF Sends
  <1>3. PICK fate \in Fates(o) : Fate(Write(c), fate)
    BY <1>2
  <1>4. PICK w : w = Write(c)
    OBVIOUS
  <1>5. w \in [src : Sources, body : Records \cup {None}, to : Things]
    BY <1>1, <1>4, WriteIsSound
  <1>6. w.src = call[c].job.from /\ w.body = call[c].body
    BY <1>4 DEF Write, From
  <1>7. w.body # None => Replaces(w.src, w.body)
    <2>1. call[c].pc # "put" => call[c].body = None
      BY CallIs DEF WireSound, CallOK, Carries
    <2> QED BY <1>1, <1>6, <2>1 DEF NothingSlips, CarryOn
  <1>8. Store(w.src, Served(w))
    <2>1. fate \in {"served", "flying", "dropped"}
      BY DEF Fates, Outcomes
    <2> QED BY <1>3, <1>4, <2>1 DEF Fate, Unchanged
  <1>9. Replaces(w.src, Served(w)) /\ w.src \in Sources
    BY <1>5, <1>7, ServedReplaces DEF WireSound
  <1> QED BY <1>8, <1>9, StoreLoses

LEMMA StepLoses ==
  ASSUME WireSound, NothingSlips, WireNext, rec' # rec, NEW x \in Sources
  PROVE  {k \in Marks(rec[x]) \ Marks(rec'[x]) : k[1] # "brain"} \subseteq Lapped(x)
  <1>1. CASE Land
    <2>1. PICK w \in flying : Store(w.src, Served(w))
      BY <1>1 DEF Land
    <2>2. w \in [src : Sources, body : Records \cup {None}, to : Things] /\ w.src \in Sources
      BY DEF WireSound, World
    <2>3. w.body # None => Replaces(w.src, w.body)
      BY DEF NothingSlips, CarryOn
    <2>4. Replaces(w.src, Served(w))
      BY <2>2, <2>3, ServedReplaces DEF WireSound
    <2> QED BY <2>1, <2>2, <2>4, StoreLoses
  <1>2. CASE Edit
    <2>1. PICK s \in Sources : Store(s, [rec[s] EXCEPT !.edition = @ + 1])
      BY <1>2 DEF Edit
    <2>2. PICK r : r = [rec[s] EXCEPT !.edition = @ + 1]
      OBVIOUS
    <2>3. rec[s] \in Records /\ rec[s].edition \in Nat
      BY BoundsAssumption DEF WireSound, World, Records
    <2>4. r.refs = rec[s].refs /\ 1..rec[s].edition \subseteq 1..r.edition
      BY <2>2, <2>3 DEF Records
    <2>5. Marks(rec[s]) \subseteq Marks(r)
      BY <2>4 DEF Marks
    <2>6. Replaces(s, r)
      BY <2>5 DEF Replaces, Lasting
    <2> QED BY <2>1, <2>2, <2>6, StoreLoses
  <1>3. ASSUME NEW c \in Calls, Begin(c) \/ Step(c)
        PROVE  Put(c) \/ Bind(c)
    BY <1>3 DEF Step, Begin, Mint, ReadTarget, ReadBefore, ReadList, MergeGet, ReadAfter, ReadTier, Unchanged
  <1> QED BY <1>1, <1>2, <1>3, SendsLose DEF WireNext

LEMMA UsableRetrieves ==
  ASSUME BuildSound, kb.pc = "ready"
  PROVE  /\ kb.confirmed = "yes" /\ \A i \in DOMAIN files : files[i] = "kept"
         /\ \E i \in Attached : index[i].segments > 0
         /\ kb.probed # "did not run" => Vectors # {}
         /\ Cardinality(kb.rows) = Len(kb.docs) => \A i \in DOMAIN index : index[i].segments > 0
  <1>1. /\ Len(kb.docs) \in Nat /\ DOMAIN files = 1..Len(kb.docs) /\ DOMAIN index = 1..Len(kb.docs)
        /\ kb.doc = Len(kb.docs) + 1
    BY DocsAre DEF BuildSound, Reached, Judged
  <1>2. kb.confirmed = "yes" /\ Segmented(kb.rows) /\ (kb.probed # "did not run" => Vectors # {})
    BY DEF BuildSound, Judges
  <1>3. \A i \in DOMAIN files : files[i] = "kept"
    <2>1. \A i \in 1..Len(kb.docs) : i < kb.doc => files[i] = "kept"
      BY <1>2 DEF BuildSound, Indexed
    <2>2. \A i \in 1..Len(kb.docs) : i < kb.doc
      BY <1>1
    <2> QED BY <1>1, <2>1, <2>2
  <1>4. ASSUME NEW r \in kb.rows
        PROVE  r.doc \in DOMAIN index /\ index[r.doc].segments > 0 /\ index[r.doc].status = "COMPLETED"
    <2>1. r.row.status = "COMPLETED" /\ r.row.segments > 0
      BY <1>2 DEF Segmented
    <2>2. r.doc \in 1..Len(kb.docs) /\ index[r.doc] = r.row
      BY <2>1 DEF BuildSound, Judges, Terminal
    <2> QED BY <1>1, <2>1, <2>2
  <1>5. \E i \in Attached : index[i].segments > 0
    <2>1. PICK r \in kb.rows : TRUE
      BY <1>2 DEF Segmented
    <2> QED BY <1>4 DEF Attached
  <1>6. ASSUME Cardinality(kb.rows) = Len(kb.docs), NEW i \in DOMAIN index
        PROVE  index[i].segments > 0
    <2> DEFINE T == 1..Len(kb.docs)
               doc == [r \in kb.rows |-> r.doc]
    <2>1. IsFiniteSet(T) /\ Cardinality(T) = Len(kb.docs)
      BY <1>1, FS_Interval
    <2>2. doc \in Injection(kb.rows, T)
      BY <1>1, <1>4 DEF Injection, IsInjective, BuildSound, Judges
    <2>3. doc \in Surjection(kb.rows, T)
      <3> HIDE DEF doc, T
      <3> QED BY <1>6, <2>1, <2>2, FS_Injection
    <2>4. PICK r \in kb.rows : doc[r] = i
      BY <1>1, <2>3 DEF Surjection
    <2> QED BY <1>4, <2>4
  <1> QED BY <1>2, <1>3, <1>5, <1>6

LEMMA KnowledgeInvHolds ==
  ASSUME BuildSound
  PROVE  KnowledgeInv
  <1>1. KnowledgeTypeOK
    BY DocsAre DEF KnowledgeTypeOK, BuildSound, BuildTyped, Shapes
  <1>2. UsableIsRetrievable
    BY UsableRetrieves DEF UsableIsRetrievable
  <1>3. ASSUME Dataset \in exists, NEW i \in DOMAIN kb.docs
        PROVE  kb.docs[i] \in {"text", "file", "empty file"} /\ (kb.local = "no" => kb.docs[i] = "text")
    <2>1. kb.pc \notin {"idle", "create", "refused"}
      BY <1>3 DEF BuildSound, Reached
    <2>2. kb.docs \in Seq(DocKinds) /\ DOMAIN kb.docs = 1..Len(kb.docs)
      BY <2>1, DocsAre, DocListsAssumption DEF BuildSound, Reached
    <2>3. kb.docs[i] \in DocKinds /\ ~Refused(kb.docs[i], kb.local)
      BY <2>1, <2>2 DEF BuildSound, Reached
    <2> QED BY <2>3 DEF DocKinds, Refused
  <1> QED BY <1>1, <1>2, <1>3 DEF KnowledgeInv, RefusedLeavesNothing

----------------------------------------------------------------------------
(* The theorems. *)

(* wiring.ts: "connected" and "already-connected" are said of a reference    *)
(* that was in the runtime's own field during the call; no record refers to  *)
(* what does not exist, or to a bare dataset as knowledge; a result that     *)
(* says nothing was done has written nothing.  For any number of calls by    *)
(* any number of agents on any records, each write served, lost or late.     *)
THEOREM WiringReportsWhatIs == Spec => []WireInv
  <1>1. Inv => WireInv
    BY WireInvHolds DEF Inv
  <1> QED BY InvInit, InvNext, <1>1, PTL DEF Spec

(* client.ts, mergePut: a reference in a list or an edit of the rest of the  *)
(* record goes lost only if it came while some call on that record was under *)
(* way, although every PUT replaces the whole record, is repeated with the   *)
(* body that it had, and may be served after its call was given up.          *)
THEOREM WritersLoseOnlyOverlaps == Spec => LostOnlyToOverlap
  <1> DEFINE Loses == \A s \in Sources :
                        {k \in Marks(rec[s]) \ Marks(rec'[s]) : k[1] # "brain"}
                          \subseteq UNION {met[c] \ first[c] : c \in {d \in Calls : Begun(d) /\ From(d) = s}}
  <1>1. Inv /\ [Next]_vars => [Loses]_rec
    <2> SUFFICES ASSUME Inv, [Next]_vars, rec' # rec
                 PROVE  Loses
      OBVIOUS
    <2>1. WireNext
      BY DEF Next, Build, Connect, vars, wireVars
    <2> QED BY <2>1, StepLoses DEF Inv, Lapped, Under
  <1> QED BY InvInit, InvNext, <1>1, PTL DEF Spec, LostOnlyToOverlap

(* knowledge.ts: a dataset whose checks are all true has every file, a       *)
(* document with something in it and, when the probe ran, something to       *)
(* retrieve; when every document was listed, each one has something in it.   *)
(* Documents that are refused never leave a dataset behind.                  *)
THEOREM UsableKnowledgeIsThere == Spec => []KnowledgeInv
  <1>1. Inv => KnowledgeInv
    BY KnowledgeInvHolds DEF Inv
  <1> QED BY InvInit, InvNext, <1>1, PTL DEF Spec
=============================================================================
