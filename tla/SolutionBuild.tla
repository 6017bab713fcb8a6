---------------------------- MODULE SolutionBuild ----------------------------
(***************************************************************************)
(* One run of orchestrateSolution (src/src/orchestrator.ts): components    *)
(* are built in dependency order, wires are written and re-read, stubs are *)
(* collected, and the solution is verified against live state, all under   *)
(* one deadline for the operation and one for each component.              *)
(*                                                                         *)
(* The run talks to the platform one call at a time, but a call that was   *)
(* given up may still take effect later, generation goes on by itself, and *)
(* other users edit and delete artifacts meanwhile.                        *)
(***************************************************************************)
EXTENDS SolutionPlan

CONSTANTS
  Plans,     \* the plans a run may be given
  Defects,   \* what may be wrong with an artifact, by plan
  MaxEdits   \* bound, by plan: what other users do during the run

ASSUME EditsAssumption == MaxEdits \in [Plans -> Nat]

(* A placeholder the review scans for, one outside of the part of a workflow *)
(* it scans, and an artifact short of what it has to cover or require.       *)
ASSUME DefectsAssumption == Defects \in [Plans -> SUBSET {"stub", "unscanned stub", "thin"}]

(* Components and wiring are lists.                                          *)
ASSUME PlansAssumption ==
  \A p \in Plans : /\ p.components \in Seq(ToSet(p.components))
                   /\ p.wiring \in Seq(ToSet(p.wiring))

VARIABLES
  plan,      \* the plan
  order,     \* orderComponents(plan).order
  pc,        \* the pass the run is in, "done" once it has reported
  step,      \* where it is inside the current component or wire
  pos,       \* index of that component in order, or of that wire in the plan
  late,      \* the deadlines that have passed: "slice" (the component's), "total"
  known,     \* per key: what the run has been told: its session, its id, or that
             \* its generation has ended and no id can be had ("no id")
  outcome,   \* per key: its ComponentOutcome
  ids,       \* the keys whose id may be used as a dependency
  wired,     \* per wire: its WriteResult
  inputs,    \* the keys with requiredInputs
  review,    \* what verifySolution has read
  status,    \* the report's status
  session,   \* platform, per key: its generation
  stored,    \* platform, per key: its artifact
  content,   \* platform, per key: what the artifact holds
  linked,    \* platform: the wires whose source holds the target's id
  sent,      \* requests that have not taken effect (yet, or ever)
  drift,     \* history: artifacts others changed after the review read them
  edits      \* how often they did

server   == <<pc, step, pos, known, outcome, ids, wired, inputs, review, status>>
platform == <<session, stored, content, linked>>
vars     == <<plan, order, server, late, platform, sent, drift, edits>>

Maker(k) == Component(plan, k).maker
Given(k) == Component(plan, k).given = "yes"
Wire(w)  == plan.wiring[w]

AllKeys  == UNION {Keys(p) : p \in Plans}
AllWires == UNION {Wires(p) : p \in Plans}

(* What a run is told of a component.  *)
Told == {"session", "id", "no id"}

(* The mutating requests of a run. *)
Requests ==
  [kind : {"build", "create", "dataset"}, of : AllKeys] \cup [kind : {"wire"}, of : AllWires]

TypeOK ==
  /\ plan \in Plans
  /\ order \in Seq(Keys(plan))
  /\ pc \in {"build", "wire", "inputs", "review", "done"}
  /\ step \in {"next", "build", "poll1", "poll", "create", "dataset", "indexing",
               "preflight", "source", "wire", "confirm"}
  /\ pos \in Nat \ {0}
  /\ late \subseteq {"slice", "total"}
  /\ known \in [AllKeys -> SUBSET Told]
  /\ outcome \in [AllKeys -> [state : {"none", "adopted", "built", "failed", "skipped", "pending"},
                              names : SUBSET {"session", "id"}]]
  /\ ids \subseteq Keys(plan)
  /\ wired \in [AllWires -> {"none", "connected", "external", "needs-backend",
                             "target-missing", "failed", "write-not-reflected"}]
  /\ inputs \subseteq Keys(plan)
  /\ review \in [read : SUBSET Keys(plan), gone : SUBSET Keys(plan), links : SUBSET Wires(plan),
                 stubs : SUBSET Keys(plan), thin : SUBSET Keys(plan)]
  /\ status \in {"none", "READY", "NEEDS_INPUT", "BROKEN", "PARTIAL"}
  /\ session \in [AllKeys -> {"none", "running", "finished", "empty", "failed"}]
  /\ stored \in [AllKeys -> {"none", "stored", "gone"}]
  /\ content \in [AllKeys -> {"good"} \cup Defects[plan]]
  /\ linked \subseteq Wires(plan)
  /\ sent \subseteq Requests
  /\ drift \subseteq Keys(plan)
  /\ edits \in 0..MaxEdits[plan]

-----------------------------------------------------------------------------
NoReview == [read |-> {}, gone |-> {}, links |-> {}, stubs |-> {}, thin |-> {}]

KeyList(p) == [n \in DOMAIN p.components |-> p.components[n].key]

(* A plan with a dependency cycle is refused before anything is built.       *)
Init ==
  /\ plan \in Plans
  /\ order = OrderOf(KeyList(plan), [k \in Keys(plan) |-> Deps(plan, k)])
  /\ IF Unplaced(order, KeyList(plan)) = {}
     THEN pc = "build" /\ status = "none"
     ELSE pc = "done" /\ status = "BROKEN"
  /\ step = "next"
  /\ pos = 1
  /\ late = {}
  /\ known = [k \in AllKeys |-> {}]
  /\ outcome = [k \in AllKeys |-> [state |-> "none", names |-> {}]]
  /\ ids = {}
  /\ wired = [w \in AllWires |-> "none"]
  /\ inputs = {}
  /\ review = NoReview
  /\ session = [k \in AllKeys |-> "none"]
  /\ \E adopted \in [{k \in Keys(plan) : Given(k)} -> {"gone", "good"} \cup Defects[plan]] :
       /\ stored = [k \in AllKeys |-> IF k \notin DOMAIN adopted THEN "none"
                                     ELSE IF adopted[k] = "gone" THEN "gone" ELSE "stored"]
       /\ content = [k \in AllKeys |-> IF stored[k] = "stored" THEN adopted[k] ELSE "good"]
  /\ linked \in SUBSET {w \in Wires(plan) :
                          Wire(w).from \in Keys(plan) /\ stored[Wire(w).from] = "stored"}
  /\ sent = {}
  /\ drift = {}
  /\ edits = 0

(* remainingMs() <= 0 inside buildComponent, and outside of it.              *)
Overdue == late # {}
OperationOverdue == "total" \in late

Key == order[pos]

(* Mutant: components that were not reached are listed as planned. *)
PartialOutcomePlanned(o) ==
  [k \in AllKeys |->
     IF k \in ToSet(order) /\ o[k].state = "none"
     THEN [state |-> "planned", names |-> {}]
     ELSE o[k]]

(* The report of what was achieved when the time budget ends: components     *)
(* that were not reached are listed as adopted or skipped.                   *)
PartialOutcome(o) ==
  [k \in AllKeys |->
     IF k \in ToSet(order) /\ o[k].state = "none"
     THEN [state |-> IF Given(k) THEN "adopted" ELSE "skipped",
           names |-> IF Given(k) THEN {"id"} ELSE {}]
     ELSE o[k]]

Partial(o) ==
  /\ outcome' = PartialOutcome(o)
  /\ status' = "PARTIAL"
  /\ pc' = "done"
  /\ step' = "next"
  /\ UNCHANGED <<pos, wired, inputs, review>>

-----------------------------------------------------------------------------
(* Build.                                                                    *)

AtComponent == pc = "build" /\ pos <= Len(order)

(* Mutant: a dependency that has an outcome counts as met. *)
UnmetUnlessProcessed(k) ==
  {Wire(w).to : w \in {v \in Wires(plan) : /\ Wire(v).from = k /\ Wire(v).blocks = "yes"
                                           /\ Wire(v).to \in Keys(plan)}}
    \ {d \in Keys(plan) : outcome[d].state # "none"}

Unmet(k) ==
  {Wire(w).to : w \in {v \in Wires(plan) : /\ Wire(v).from = k /\ Wire(v).blocks = "yes"
                                           /\ Wire(v).to \in Keys(plan)}} \ ids

(* The outcome of component k.  Pending ends the run; only what was built    *)
(* can be depended on, whatever ids the others left behind.                  *)
Conclude(k, state, names) ==
  LET o == [outcome EXCEPT ![k] = [state |-> state, names |-> names]]
  IN  \/ /\ state = "pending"
         /\ Partial(o)
         /\ UNCHANGED <<ids, late>>
      \/ /\ state # "pending"
         /\ outcome' = o
         /\ ids' = IF state \in {"adopted", "built"} THEN ids \cup {k} ELSE ids \ {k}
         /\ pos' = pos + 1
         /\ step' = "next"
         /\ late' = late \ {"slice"}
         /\ UNCHANGED <<pc, wired, inputs, review, status>>

(* An exception inside buildComponent.                                       *)
Thrown(k, names) == Conclude(k, IF Overdue THEN "pending" ELSE "failed", names)

Enter(s) == step' = s /\ UNCHANGED <<pc, pos, outcome, ids, wired, inputs, review, status, late>>

Send(m) == sent' = sent \cup {m} /\ Enter(m.kind)

Adopt ==
  /\ AtComponent /\ step = "next" /\ ~OperationOverdue
  /\ Given(Key)
  /\ Conclude(Key, "adopted", {"id"})
  /\ UNCHANGED <<known, sent>>

Skip ==
  /\ AtComponent /\ step = "next" /\ ~OperationOverdue
  /\ ~Given(Key) /\ Unmet(Key) # {}
  /\ Conclude(Key, "skipped", {})
  /\ UNCHANGED <<known, sent>>

StartBuild ==
  /\ AtComponent /\ step = "next" /\ ~OperationOverdue
  /\ ~Given(Key) /\ Unmet(Key) = {}
  /\ \/ /\ Maker(Key) = "none"
        /\ Conclude(Key, "failed", {})
        /\ UNCHANGED sent
     \/ /\ Maker(Key) = "dataset"
        /\ Send([kind |-> "dataset", of |-> Key])
     \/ /\ Maker(Key) \in {"persisted", "created"}
        /\ Send([kind |-> "build", of |-> Key])
  /\ UNCHANGED known

(* The platform's answer to the request the run waits for.  The session id   *)
(* starts the polling, an artifact id completes the component, a dataset id  *)
(* is remembered before its documents are indexed.                           *)
Learn(k, what) == known' = [known EXCEPT ![k] = @ \cup {what}]

BuildAnswered ==
  /\ AtComponent /\ step \in {"build", "create", "dataset"}
  /\ [kind |-> step, of |-> Key] \notin sent
  /\ \/ step = "build" /\ Learn(Key, "session") /\ Enter("poll1")
     \/ step = "create" /\ Learn(Key, "id") /\ Conclude(Key, "built", {"session", "id"})
     \/ step = "dataset" /\ Learn(Key, "id") /\ Enter("indexing")
  /\ UNCHANGED sent

(* Mutant: the handler forgets the ids that were already known. *)
BuildCallFailedForgets ==
  /\ AtComponent /\ step \in {"build", "create", "dataset"}
  /\ Thrown(Key, {})
  /\ UNCHANGED <<known, sent>>

(* An error or no answer: the request may have taken effect, or may yet.     *)
BuildCallFailed ==
  /\ AtComponent /\ step \in {"build", "create", "dataset"}
  /\ Thrown(Key, known[Key])
  /\ UNCHANGED <<known, sent>>

(* buildKnowledge after the dataset exists: its report is ok or not, or it   *)
(* throws on the way.                                                        *)
Indexed ==
  /\ AtComponent /\ step = "indexing"
  /\ \/ Conclude(Key, "built", {"id"})
     \/ Conclude(Key, "failed", {"id"})
     \/ Thrown(Key, known[Key])
  /\ UNCHANGED <<known, sent>>

(* pollUntil: the first status call may not fail, later ones may.            *)
PollRunning ==
  /\ AtComponent /\ step = "poll1"
  /\ session[Key] = "running"
  /\ Enter("poll")
  /\ UNCHANGED <<known, sent>>

PollFailed ==
  /\ AtComponent /\ step = "poll1"
  /\ Thrown(Key, known[Key])
  /\ UNCHANGED <<known, sent>>

(* Mutant: polling goes on until the generation ends. *)
PollTimedOutAtEnd ==
  /\ AtComponent /\ step = "poll" /\ Overdue
  /\ session[Key] # "running"
  /\ Conclude(Key, "pending", known[Key])
  /\ UNCHANGED <<known, sent>>

PollTimedOut ==
  /\ AtComponent /\ step = "poll" /\ Overdue
  /\ Conclude(Key, "pending", known[Key])
  /\ UNCHANGED <<known, sent>>

(* Generation has ended: with an error, with nothing to keep, with an        *)
(* artifact that the platform has stored, or with a draft that still has to  *)
(* be created.  An answer that does not give the id of what was stored       *)
(* leaves the component failed, with neither an id nor its session.          *)
PollFinished ==
  /\ AtComponent /\ step \in {"poll1", "poll"}
  /\ \/ /\ session[Key] = "failed"
        /\ Thrown(Key, known[Key])
        /\ UNCHANGED <<known, sent>>
     \/ /\ session[Key] = "empty"
        /\ Conclude(Key, "failed", {})
        /\ UNCHANGED <<known, sent>>
     \/ /\ session[Key] = "finished" /\ Maker(Key) = "persisted"
        /\ \/ Learn(Key, "id") /\ Conclude(Key, "built", {"session", "id"})
           \/ Learn(Key, "no id") /\ Conclude(Key, "failed", {})
        /\ UNCHANGED sent
     \/ /\ session[Key] = "finished" /\ Maker(Key) = "created"
        /\ \/ Overdue /\ Conclude(Key, "pending", known[Key]) /\ UNCHANGED sent
           \/ ~Overdue /\ Send([kind |-> "create", of |-> Key])
        /\ UNCHANGED known

BuildOver ==
  /\ pc = "build" /\ pos > Len(order)
  /\ pc' = "wire" /\ pos' = 1
  /\ UNCHANGED <<step, known, outcome, ids, wired, inputs, review, status, late, sent>>

Build ==
  \/ Adopt \/ Skip \/ StartBuild \/ BuildAnswered \/ BuildCallFailed \/ Indexed
  \/ PollRunning \/ PollFailed \/ PollTimedOut \/ PollFinished \/ BuildOver

-----------------------------------------------------------------------------
(* Wire.  pos is the wire; writeWire reads the target, reads the source,     *)
(* writes, and reads the source again.                                       *)

AtWire == pc = "wire" /\ pos <= Len(plan.wiring)

HasId(k) == k \in ids \/ Given(k)

Known(w) == {Wire(w).from, Wire(w).to} \subseteq Keys(plan)

Settle(state) ==
  /\ wired' = [wired EXCEPT ![pos] = state]
  /\ pos' = pos + 1
  /\ step' = "next"
  /\ UNCHANGED <<pc, outcome, ids, inputs, review, status, late>>

Reads(k) == stored[k] = "stored"

WireStart ==
  /\ AtWire /\ step = "next" /\ ~OperationOverdue
  /\ \/ ~Known(pos) /\ Settle("failed")
     \/ Known(pos) /\ Wire(pos).external = "yes" /\ Settle("external")
     \/ /\ Known(pos) /\ Wire(pos).external = "no"
        /\ \/ ~(HasId(Wire(pos).from) /\ HasId(Wire(pos).to)) /\ Settle("target-missing")
           \/ /\ HasId(Wire(pos).from) /\ HasId(Wire(pos).to)
              /\ \/ Wire(pos).field = "none" /\ Settle("needs-backend")
                 \/ Wire(pos).field # "none" /\ Enter("preflight")
  /\ UNCHANGED <<known, sent>>

Preflight ==
  /\ AtWire /\ step = "preflight"
  /\ \/ Reads(Wire(pos).to) /\ ~OperationOverdue /\ Enter("source")
     \/ Settle("target-missing")
  /\ UNCHANGED <<known, sent>>

(* A source that cannot be read is written all the same.                     *)
SourceRead ==
  /\ AtWire /\ step = "source"
  /\ \/ /\ Reads(Wire(pos).from) /\ pos \in linked /\ ~OperationOverdue
        /\ Settle("connected")
        /\ UNCHANGED sent
     \/ OperationOverdue /\ Settle("failed") /\ UNCHANGED sent
     \/ ~OperationOverdue /\ Send([kind |-> "wire", of |-> pos])
  /\ UNCHANGED known

WriteAnswered ==
  /\ AtWire /\ step = "wire"
  /\ [kind |-> "wire", of |-> pos] \notin sent
  /\ Enter("confirm")
  /\ UNCHANGED <<known, sent>>

WriteFailed ==
  /\ AtWire /\ step = "wire"
  /\ Settle("failed")
  /\ UNCHANGED <<known, sent>>

Confirm ==
  /\ AtWire /\ step = "confirm"
  /\ \/ Reads(Wire(pos).from) /\ pos \in linked /\ ~OperationOverdue /\ Settle("connected")
     \/ Settle("write-not-reflected")
  /\ UNCHANGED <<known, sent>>

WireOver ==
  /\ pc = "wire" /\ pos > Len(plan.wiring)
  /\ pc' = "inputs" /\ pos' = 1
  /\ UNCHANGED <<step, known, outcome, ids, wired, inputs, review, status, late, sent>>

WirePass ==
  \/ WireStart \/ Preflight \/ SourceRead \/ WriteAnswered \/ WriteFailed \/ Confirm
  \/ WireOver

-----------------------------------------------------------------------------
(* Required inputs: every component with an id is read for placeholders; one *)
(* that cannot be read is passed over.                                       *)

AtInput == pc = "inputs" /\ pos <= Len(order)

Named(k) == "id" \in outcome[k].names

InputsRead ==
  /\ AtInput /\ ~OperationOverdue
  /\ inputs' = IF /\ Named(Key) /\ Maker(Key) # "dataset"
                  /\ Reads(Key) /\ content[Key] \in {"stub", "unscanned stub"}
               THEN inputs \cup {Key} ELSE inputs
  /\ pos' = pos + 1
  /\ UNCHANGED <<pc, step, outcome, ids, wired, review, status, late, known, sent>>

InputsUnread ==
  /\ AtInput /\ ~OperationOverdue
  /\ Named(Key) /\ Maker(Key) # "dataset"
  /\ pos' = pos + 1
  /\ UNCHANGED <<pc, step, outcome, ids, wired, inputs, review, status, late, known, sent>>

InputsOver ==
  /\ pc = "inputs" /\ pos > Len(order) /\ ~OperationOverdue
  /\ pc' = "review" /\ pos' = 1
  /\ UNCHANGED <<step, outcome, ids, wired, inputs, review, status, late, known, sent>>

-----------------------------------------------------------------------------
(* Review: verifySolution reads every component that has an id, once, and    *)
(* judges wires, coverage and placeholders on what it read.                  *)

AtReview == pc = "review" /\ pos <= Len(order)

LinksOf(k) == {w \in linked : Wire(w).from = k}

ReviewRead ==
  /\ AtReview
  /\ review' = IF ~Named(Key) THEN review
               ELSE IF Reads(Key) /\ ~OperationOverdue
               THEN [review EXCEPT !.read = @ \cup {Key},
                                   !.links = @ \cup LinksOf(Key),
                                   !.stubs = IF content[Key] = "stub" THEN @ \cup {Key} ELSE @,
                                   !.thin  = IF content[Key] = "thin" THEN @ \cup {Key} ELSE @]
               ELSE [review EXCEPT !.gone = @ \cup {Key}]
  /\ pos' = pos + 1
  /\ UNCHANGED <<pc, step, outcome, ids, wired, inputs, status, late, known, sent>>

ReviewUnread ==
  /\ AtReview /\ Named(Key)
  /\ review' = [review EXCEPT !.gone = @ \cup {Key}]
  /\ pos' = pos + 1
  /\ UNCHANGED <<pc, step, outcome, ids, wired, inputs, status, late, known, sent>>

Verifiable == review.read \cup review.gone

ReviewWires == {w \in Wires(plan) : Wire(w).from \in Keys(plan) /\ HasId(Wire(w).from)}

(* Mutant: a wire passes when both of its ends were read. *)
WirePassesOnEnds(w) == Wire(w).external = "yes" \/ Wire(w).to \in Verifiable

(* A wire passes when it was found, was declared external, or its source     *)
(* could not be read (then the component itself fails).                      *)
WirePasses(w) ==
  \/ Wire(w).external = "yes"
  \/ /\ Wire(w).to \in Verifiable
     /\ Wire(w).from \in review.gone \/ w \in review.links

Orphans ==
  {k \in Verifiable : /\ Component(plan, k).entry = "no"
                      /\ \A w \in ReviewWires : k \notin {Wire(w).from, Wire(w).to}}

VerificationOk ==
  /\ review.gone = {} /\ review.stubs = {} /\ review.thin = {}
  /\ Orphans = {}
  /\ \A w \in ReviewWires : WirePasses(w)

BuildFailed  == \E k \in Keys(plan) : outcome[k].state \in {"failed", "skipped"}
WireFailed   == \E w \in Wires(plan) : wired[w] \notin {"connected", "external"}
VerifyFailed == Verifiable # {} /\ ~VerificationOk

Verdict ==
  /\ pc = "review" /\ pos > Len(order) /\ ~OperationOverdue
  /\ status' = IF BuildFailed \/ WireFailed \/ VerifyFailed THEN "BROKEN"
               ELSE IF inputs # {} THEN "NEEDS_INPUT" ELSE "READY"
  /\ pc' = "done"
  /\ UNCHANGED <<step, pos, outcome, ids, wired, inputs, review, late, known, sent>>

(* assertDeadline between the steps, and the handler of what it throws.      *)
DeadlineChecked ==
  \/ pc \in {"build", "wire"} /\ step = "next" /\ pos <= Len(IF pc = "build" THEN order ELSE plan.wiring)
  \/ pc = "inputs"
  \/ pc = "review" /\ (pos = 1 \/ pos > Len(order))

OutOfTime ==
  /\ DeadlineChecked /\ OperationOverdue
  /\ Partial(outcome)
  /\ UNCHANGED <<ids, late, known, sent>>

Orchestrate ==
  /\ \/ Build \/ WirePass
     \/ InputsRead \/ InputsUnread \/ InputsOver
     \/ ReviewRead \/ ReviewUnread \/ Verdict
     \/ OutOfTime
  /\ UNCHANGED <<plan, order, platform, drift, edits>>

-----------------------------------------------------------------------------
(* The platform.                                                             *)

Contents(k) == IF Maker(k) = "dataset" THEN {"good"} ELSE {"good"} \cup Defects[plan]

Store(k) ==
  /\ stored' = [stored EXCEPT ![k] = "stored"]
  /\ \E c \in Contents(k) : content' = [content EXCEPT ![k] = c]

(* A field that holds one id forgets the one it held.                        *)
Rivals(w) == {v \in linked : Wire(v).from = Wire(w).from /\ Wire(v).field = "one" /\ Wire(w).field = "one"}

(* A request takes effect, long after it was given up perhaps.  A wire write *)
(* may be answered with success and not be reflected.                        *)
TakesEffect(m) ==
  /\ m \in sent
  /\ sent' = sent \ {m}
  /\ \/ /\ m.kind = "build"
        /\ session' = [session EXCEPT ![m.of] = "running"]
        /\ UNCHANGED <<stored, content, linked>>
     \/ /\ m.kind \in {"create", "dataset"}
        /\ Store(m.of)
        /\ UNCHANGED <<session, linked>>
     \/ /\ m.kind = "wire"
        /\ linked' \in {linked} \cup (IF Reads(Wire(m.of).from)
                                      THEN {(linked \ Rivals(m.of)) \cup {m.of}} ELSE {})
        /\ UNCHANGED <<session, stored, content>>
  /\ UNCHANGED <<plan, order, server, late, drift, edits>>

Generates(k) ==
  /\ session[k] = "running"
  /\ \E s \in {"finished", "empty", "failed"} :
        /\ session' = [session EXCEPT ![k] = s]
        /\ IF s = "finished" /\ Maker(k) = "persisted" THEN Store(k) ELSE UNCHANGED <<stored, content>>
  /\ UNCHANGED <<plan, order, server, late, linked, sent, drift, edits>>

(* Other users delete an artifact, change what it holds, or take a reference *)
(* out of it.                                                                *)
SomeoneEdits(k) ==
  /\ edits < MaxEdits[plan] /\ pc # "done"
  /\ stored[k] = "stored"
  /\ \/ /\ stored' = [stored EXCEPT ![k] = "gone"]
        /\ linked' = linked \ LinksOf(k)
        /\ UNCHANGED content
     \/ /\ \E c \in Contents(k) \ {content[k]} : content' = [content EXCEPT ![k] = c]
        /\ UNCHANGED <<stored, linked>>
     \/ /\ \E w \in LinksOf(k) : linked' = linked \ {w}
        /\ UNCHANGED <<stored, content>>
  /\ edits' = edits + 1
  /\ drift' = IF k \in Verifiable THEN drift \cup {k} ELSE drift
  /\ UNCHANGED <<plan, order, server, late, session, sent>>

(* Time passes. *)
ComponentExpires ==
  /\ pc = "build" /\ step # "next"
  /\ late' = late \cup {"slice"}
  /\ UNCHANGED <<plan, order, server, platform, sent, drift, edits>>

OperationExpires ==
  /\ pc # "done"
  /\ late' = late \cup {"total"}
  /\ UNCHANGED <<plan, order, server, platform, sent, drift, edits>>

Next ==
  \/ Orchestrate
  \/ \E m \in Requests : TakesEffect(m)
  \/ \E k \in AllKeys : Generates(k) \/ SomeoneEdits(k)
  \/ ComponentExpires \/ OperationExpires

Spec == Init /\ [][Next]_vars

(* The run itself makes progress (every call of the client has a timeout),   *)
(* and the operation's time budget ends.  The platform owes it nothing.      *)
FairSpec == Spec /\ WF_vars(Orchestrate) /\ WF_vars(OperationExpires)

-----------------------------------------------------------------------------
Begun(k) ==
  \/ [kind |-> "build", of |-> k] \in sent \/ session[k] # "none"
  \/ [kind |-> "dataset", of |-> k] \in sent \/ (~Given(k) /\ stored[k] # "none")

(* Work on a component begins once, and only when everything it depends on   *)
(* was adopted or completely built (orchestrator.ts:415-430, 441-445).       *)
Promise ==
  INSTANCE DependencyBuild WITH
    Key    <- AllKeys,
    needs  <- [k \in Keys(plan) |-> Deps(plan, k)],
    given  <- {k \in Keys(plan) : Given(k)},
    begun  <- {k \in Keys(plan) : Begun(k)},
    usable <- ids

DependenciesFirst == Promise!Spec

(* "A widget built against a chatflow that failed is a widget with no        *)
(* brain": whatever was begun, what it depends on was reported adopted or    *)
(* built, and exists unless somebody deleted it (orchestrator.ts:415-417).   *)
NothingOnAFailure ==
  \A k \in Keys(plan) : Begun(k) =>
    \A d \in Deps(plan, k) : /\ outcome[d].state \in {"adopted", "built"}
                             /\ stored[d] # "none"

(* What the run may have left on the platform can be found from its report:  *)
(* a component that is reported as skipped was never begun, one that is      *)
(* built names its artifact, and an artifact or a running generation is      *)
(* named by an id or a session (orchestrator.ts:306-312).  Excepted are what *)
(* the run was never told of, the answer being lost, and what it stored      *)
(* under an id that the finished build does not give: then it reports not    *)
(* even the session (orchestrator.ts:292-303), although failures are meant   *)
(* to "preserve known session and artifact IDs"                              *)
(* (test/orchestrator-deadline.test.ts:147).                                 *)
LeftBehindIsNamed ==
  pc = "done" => \A k \in Keys(plan) :
    /\ outcome[k].state = "skipped" => ~Begun(k)
    /\ outcome[k].state = "built" => "id" \in outcome[k].names /\ stored[k] # "none"
    /\ known[k] # {} /\ "no id" \notin known[k] /\ (stored[k] # "none" \/ session[k] = "running")
         => known[k] \cap outcome[k].names # {}
    /\ "id" \in known[k] => "id" \in outcome[k].names

(* READY is said of a solution whose components were all adopted or built,   *)
(* whose artifacts are there, cover what they have to and hold no            *)
(* placeholder the review scans for, and whose wires are live, but for what  *)
(* other users changed after the review had read it                          *)
(* (orchestrator.ts:529-584).  It says nothing of a placeholder outside of   *)
(* what the review scans ("unscanned stub"): only the inputs pass would find *)
(* that one, and it drops a component it cannot read as "already reported by *)
(* the review pass" (525), so that READY may be said over it, although       *)
(* placeholders are "never shipped, always surfaced" (130).                  *)
ReadyIsLive ==
  status = "READY" =>
    \A k \in Keys(plan) \ drift :
      /\ outcome[k].state \in {"adopted", "built"}
      /\ stored[k] = "stored" /\ content[k] \notin {"stub", "thin"}
      /\ \A w \in Wires(plan) : Wire(w).from = k /\ Wire(w).external = "no" => w \in linked

(* Every run reports: no answer the platform fails to give keeps it waiting  *)
(* past its time budget (client.ts:134-142, 501-538).                        *)
RunReports == <>(pc = "done")

=============================================================================
