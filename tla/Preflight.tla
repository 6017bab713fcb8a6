----------------------------- MODULE Preflight ------------------------------
(***************************************************************************)
(* The preflight gate (src/src/preflight.ts, src/src/tools/preflight.ts):  *)
(* a manifest is written, or derived by a walk over the platform or from a *)
(* spec (src/src/preflight/derive.mjs); the solution is read, one request  *)
(* at a time (lib/snapshot.mjs); the rules are run over what was read; and *)
(* the workflow is published, or deployed, when the verdict allows it.     *)
(* Meanwhile a person edits the solution and requests fail for good.       *)
(***************************************************************************)
EXTENDS PreflightSolution, SequencesExt

CONSTANTS
  Modes,          \* where the manifest comes from, or no gate at all
  Starts,         \* the mistakes that a solution may have when the call begins
  Edits,          \* the mistakes that a person may make meanwhile
  Ceilings,       \* what the ceiling of the walk may be (120)
  MaxTrouble,     \* bound: mistakes, edits and lost requests of a behaviour
  MaxLost         \* bound: requests that fail for good

ASSUME ModesAssumption ==
  Modes \subseteq {"written", "seed", "registry", "spec", "deploy", "skipped"}

VARIABLES
  live,   \* the solution as it is
  since,  \* the mistakes that have been there since the call began
  spent,  \* trouble so far
  call

vars == <<live, since, spent, call>>

Over == {"published", "refused", "failed", "unanswered"}
Idle == [mode |-> "", ceiling |-> 0, pc |-> "idle", ids |-> {}, queue |-> << >>, seen |-> {}, tables |-> {},
         unread |-> {}, truncated |-> "no", manifest |-> None, snap |-> None, lost |-> {}, findings |-> {}, verdict |-> "", force |-> FALSE]

TypeOK ==
  /\ since \subseteq AllMistakes
  /\ spent \in 0 .. MaxTrouble
  /\ call.mode \in Modes \cup {""}
  /\ call.pc \in Over \cup {"idle", "probe", "walk", "records", "lists", "judge", "post"}
  /\ call.truncated = "yes" => call.queue # << >>
  /\ Cardinality(call.seen) <= call.ceiling
  /\ call.verdict \in {"", "PASS", "BLOCKED", "INCONCLUSIVE"}
  /\ call.findings \subseteq [rule : DOMAIN Mistakes, is : {"block", "warn", "skip", "error"}]

Init ==
  \E wrong \in Starts :
    /\ Cardinality(wrong) <= MaxTrouble
    /\ live = FoldSet(LAMBDA d, s : Break(s, d), Clean, wrong)
    /\ since = {d \in wrong : Present(live, d)}
    /\ spent = Cardinality(wrong)
    /\ call = Idle

(* What a request comes to, after its retries: of those that would have been *)
(* answered some, a few, fail.                                               *)
Lose(requests) ==
  {L \in {{}} \cup {{r} : r \in requests} :
     /\ spent + Cardinality(L) <= MaxTrouble
     /\ Cardinality(call.lost) + Cardinality(L) <= MaxLost}

(* --- the manifest --------------------------------------------------------*)

All == {<<KindOf[id], id>> : id \in DOMAIN KindOf}
Wire(from, relation, to) == [from |-> from, relation |-> relation, to |-> to]

Wires ==
  {Wire("screener", "grounds-on", "module"), Wire("intake", "hands-off-to", "screener"),
   Wire("front", "answers-through", "intake"), Wire("flow", "invokes-agent", "screener"),
   Wire("flow", "reads-knowledge", "rules"), Wire("flow", "calls-chatflow", "intake")}

Covers ==
  {[component |-> "intake", in |-> "fields", of |-> {"ref", "score"}],
   [component |-> "screener", in |-> "prompt", of |-> {"ref", "score"}]}

Manifest(components, tables, prefixed, wires, coverage, sources) ==
  [components |-> components, dataTables |-> tables, prefixed |-> prefixed, wires |-> wires,
   coverage |-> coverage, sourceDirs |-> sources,
   allowedIntegrations |-> {}, allowedOutbound |-> {}, expectLive |-> "yes"]

Written == Manifest(All, {"cf_records"}, "yes", Wires, Covers, "yes")

(* The relations that a rule can resolve; a wire of the spec that has        *)
(* another, or an endpoint that is not declared, is dropped and named.       *)
RELATION_MAP ==
  {"grounds-on", "hands-off-to", "answers-through", "invokes-agent", "reads-knowledge",
   "calls-workflow", "calls-chatflow", "writes-table"}

SpecWires == Wires \cup {Wire("front", "reports-to", "flow"), Wire("flow", "invokes-agent", "ghost")}
Resolvable(w) == w.relation \in RELATION_MAP /\ {w.from, w.to} \subseteq DOMAIN KindOf

deriveFromSpec ==
  Manifest(All, {}, "no", {w \in SpecWires : Resolvable(w)}, Covers, "no")

(* What a record refers to, whatever field the runtime reads.                *)
referencesOf(kind, r) ==
  CASE kind = "workflow" ->
         LET ids == UNION {r.nodes[n].ids : n \in DOMAIN r.nodes}
             to(fields) == {i[2] : i \in {j \in ids : j[1] \in fields}}
         IN ({"agent"} \X to({"agentId"})) \cup ({"workflow"} \X to({"workflowId"}))
              \cup ({"chatflow"} \X to({"chatFlowId", "chatflowId"}))
              \cup ({"dataset"} \X to({"datasetId", "datasetIds"}))
    [] kind = "agent" -> {"module"} \X r.knowledgeModuleIds
    [] kind = "chatflow" -> {"agent"} \X ({r.defaultAgentId, r.agentId} \ {None})
    [] kind = "widget" ->
         {<<k, r.brain.id>> : k \in IF r.brain = None THEN {}
                                    ELSE CASE r.brain.kind = "AGENT" -> {"agent"}
                                           [] r.brain.kind = "CHATFLOW" -> {"chatflow"}
                                           [] OTHER -> {}}
           \cup ({"agent"} \X ({r.agentId} \ {None}))
    [] kind = "module" -> {"dataset"} \X {r.datasetId}
    [] OTHER -> {}

(* Only a record of that kind answers to an id.                              *)
There(c) == c[2] \in DOMAIN live.comp /\ KindOf[c[2]] = c[1]

(* The ids that the build wrote down; one of them is dead.                  *)
Registry == DOMAIN KindOf \cup {"ghost"}

(* One table has no common prefix.                                           *)
commonTablePrefix(names) == IF Cardinality(names) >= 2 THEN "yes" ELSE "no"

Begin(mode, ceiling) ==
  /\ call.pc = "idle"
  /\ mode \in {"written", "spec", "skipped"} => ceiling = Min(Ceilings)
  /\ LET started == [call EXCEPT !.mode = mode, !.ceiling = ceiling]
         with(m) == [started EXCEPT !.manifest = m, !.pc = "records"]
     IN call' = CASE mode = "written" -> with(Written)
                  [] mode = "spec" -> with(deriveFromSpec)
                  [] mode = "registry" -> [started EXCEPT !.ids = Registry, !.pc = "probe"]
                  [] mode = "skipped" -> [started EXCEPT !.pc = "post"]
                  [] OTHER -> [started EXCEPT !.queue = <<<<"workflow", "flow">>>>, !.pc = "walk"]
  /\ UNCHANGED <<live, since, spent>>

(* What kind is this id?  The platform is asked; an id that resolves to      *)
(* nothing, or whose request fails, is named as unresolved.                  *)
probeKind ==
  /\ call.pc = "probe" /\ call.ids # {}
  /\ LET id == CHOOSE i \in call.ids : TRUE
     IN \E L \in Lose({<<"probe", id>>}) :
          /\ call' = IF id \in DOMAIN live.comp /\ L = {}
                     THEN [call EXCEPT !.ids = @ \ {id}, !.queue = Append(@, <<KindOf[id], id>>)]
                     ELSE [call EXCEPT !.ids = @ \ {id}, !.unread = @ \cup {id}, !.lost = @ \cup L]
          /\ spent' = spent + Cardinality(L)
  /\ UNCHANGED <<live, since>>

Probed ==
  /\ call.pc = "probe" /\ call.ids = {}
  /\ call' = [call EXCEPT !.pc = "walk"]
  /\ UNCHANGED <<live, since, spent>>

(* Mutant: the ceiling is forgotten.                                         *)
WalkingOn == call.queue # << >>

Walking == call.queue # << >> /\ Cardinality(call.seen) < call.ceiling

(* Mutant: a component that cannot be read is tried again.                  *)
walkLiveUntilRead ==
  /\ call.pc = "walk" /\ Walking
  /\ LET c == Head(call.queue)
         rest == [call EXCEPT !.queue = Tail(@)]
         found == [rest EXCEPT !.seen = @ \cup {c}]
         r == live.comp[c[2]]
     IN \E L \in Lose({<<"walk", c[2]>>}) :
          /\ call' = CASE c \in call.seen -> rest
                       [] c \notin call.seen /\ There(c) /\ L = {} ->
                            [found EXCEPT !.queue = @ \o SetToSeq(referencesOf(c[1], r)),
                                          !.tables = @ \cup IF c[1] = "workflow" THEN Named(live) ELSE {}]
                       [] OTHER -> [rest EXCEPT !.queue = Append(@, c), !.lost = @ \cup L]
          /\ c \in call.seen => L = {}
          /\ spent' = spent + Cardinality(L)
  /\ UNCHANGED <<live, since>>

(* The walk reads a component and follows what it refers to.  One that could *)
(* not be read stays in the manifest and is named.                           *)
walkLive ==
  /\ call.pc = "walk" /\ Walking
  /\ LET c == Head(call.queue)
         rest == [call EXCEPT !.queue = Tail(@)]
         found == [rest EXCEPT !.seen = @ \cup {c}]
         r == live.comp[c[2]]
     IN \E L \in Lose({<<"walk", c[2]>>}) :
          /\ call' = CASE c \in call.seen -> rest
                       [] c \notin call.seen /\ There(c) /\ L = {} ->
                            [found EXCEPT !.queue = @ \o SetToSeq(referencesOf(c[1], r)),
                                          !.tables = @ \cup IF c[1] = "workflow" THEN Named(live) ELSE {}]
                       [] OTHER -> [found EXCEPT !.unread = @ \cup {c[2]}, !.lost = @ \cup L]
          /\ c \in call.seen => L = {}
          /\ spent' = spent + Cardinality(L)
  /\ UNCHANGED <<live, since>>

(* What is derived is fact; allow-lists, wires and coverage are intent and   *)
(* stay empty.  A deploy does not ask for a live workflow.                   *)
finish ==
  /\ call.pc = "walk" /\ ~Walking
  /\ LET derived ==
           Manifest(call.seen, call.tables, commonTablePrefix(call.tables), {}, {},
                    IF call.mode = "registry" THEN "yes" ELSE "no")
     IN call' = [call EXCEPT
          !.manifest = IF call.mode = "deploy" THEN [derived EXCEPT !.expectLive = "no"] ELSE derived,
          !.truncated = IF call.queue # << >> THEN "yes" ELSE "no",
          !.pc = "records"]
  /\ UNCHANGED <<live, since, spent>>

(* --- the snapshot --------------------------------------------------------*)

(* The record of each component of the manifest, or none.                    *)
ReadRecords ==
  /\ call.pc = "records"
  /\ \E L \in Lose({<<"record", c[2]>> : c \in {d \in call.manifest.components : There(d)}}) :
       LET ids == {c[2] : c \in call.manifest.components}
           read(id) == \E c \in call.manifest.components :
                         c[2] = id /\ There(c) /\ <<"record", id>> \notin L
       IN /\ call' = [call EXCEPT
               !.snap = [comp |-> [id \in ids |-> IF read(id) THEN live.comp[id] ELSE None]],
               !.lost = @ \cup L, !.pc = "lists"]
          /\ spent' = spent + Cardinality(L)
  /\ UNCHANGED <<live, since>>

(* The listings.  Only a workflow that was read is asked for its runs, and a *)
(* listing of runs that fails is no runs at all; a run whose traces fail has *)
(* none.  The tables may come as an envelope around the list.                *)
ReadLists ==
  /\ call.pc = "lists"
  /\ LET runs == IF Read(call.snap, "flow") THEN {"executions", "traces"} ELSE {}
         datasets == {c[2] : c \in {d \in call.manifest.components : d[1] = "dataset"}}
         requests == {<<"list", l>> : l \in runs \cup {"tables", "modules", "datasets"}}
                       \cup {<<"documents", d>> : d \in datasets}
     IN \E L \in Lose(requests), shape \in {"list", "envelope"} :
          LET unless(list, value, otherwise) == IF <<"list", list>> \in L THEN otherwise ELSE value
              untraced(r) == [r EXCEPT !.envelope = "", !.traces = {}]
              headers == IF runs = {} THEN << >> ELSE unless("executions", live.runs, << >>)
          IN /\ call' = [call EXCEPT
                  !.snap = [comp |-> call.snap.comp, manifest |-> call.manifest,
                            runs |-> [i \in DOMAIN headers |->
                                        unless("traces", headers[i], untraced(headers[i]))],
                            tables |-> unless("tables", IF shape = "list" THEN live.tables ELSE Envelope, None),
                            modules |-> unless("modules", live.modules, None),
                            datasets |-> unless("datasets", live.datasets, None),
                            docs |-> [d \in datasets |->
                                        IF <<"documents", d>> \in L \/ d \notin DOMAIN live.docs
                                        THEN None ELSE live.docs[d]],
                            sources |-> IF call.manifest.sourceDirs = "yes" THEN live.sources ELSE None],
                  !.lost = @ \cup L, !.pc = "judge"]
             /\ spent' = spent + Cardinality(L) + IF shape = "list" THEN 0 ELSE 1
             /\ spent' <= MaxTrouble
             /\ shape = "envelope" => <<"list", "tables">> \notin L
  /\ UNCHANGED <<live, since>>

(* Nothing where the listing of runs, modules, datasets or documents belongs *)
(* stops the snapshot.                                                       *)
ReadNothing ==
  /\ call.pc = "lists" /\ spent < MaxTrouble
  /\ call' = [call EXCEPT !.verdict = "INCONCLUSIVE", !.pc = "judge"]
  /\ spent' = spent + 1
  /\ UNCHANGED <<live, since>>

(* --- the gate ------------------------------------------------------------*)

Those(findings, is) == {f \in findings : f.is = is}

(* A check that could not be produced, or has a hole in it, is inconclusive. *)
gate(findings) ==
  CASE Those(findings, "error") # {} -> "INCONCLUSIVE"
    [] Those(findings, "error") = {} /\ Those(findings, "block") # {} -> "BLOCKED"
    [] OTHER -> "PASS"

Judge(force) ==
  /\ call.pc = "judge"
  /\ LET findings == IF call.verdict = "" THEN runRules(call.snap) ELSE {}
         verdict == IF call.verdict = "" THEN gate(findings) ELSE call.verdict
     IN call' = [call EXCEPT !.findings = findings, !.verdict = verdict, !.force = force,
                             !.pc = IF verdict = "PASS" \/ force THEN "post" ELSE "refused"]
  /\ UNCHANGED <<live, since, spent>>

(* The POST is sent once; the platform may refuse it, and its answer may be  *)
(* lost.                                                                     *)
Post ==
  /\ call.pc = "post"
  /\ \E how \in {"published", "failed", "unanswered"} : call' = [call EXCEPT !.pc = how]
  /\ UNCHANGED <<live, since, spent>>

(* A person edits the solution; what they broke is there from now on.        *)
Edit(d) ==
  /\ call.pc \notin Over /\ spent < MaxTrouble
  /\ Break(live, d) # live
  /\ live' = Break(live, d)
  /\ since' = {e \in since : Present(live', e)}
  /\ spent' = spent + 1
  /\ UNCHANGED call

CallStep ==
  \/ probeKind \/ Probed \/ walkLive \/ finish \/ ReadRecords \/ ReadLists \/ ReadNothing
  \/ \E force \in BOOLEAN : Judge(force)
  \/ Post

Next ==
  \/ \E mode \in Modes, ceiling \in Ceilings : Begin(mode, ceiling)
  \/ CallStep
  \/ \E d \in Edits : Edit(d)
  \/ call.pc \in Over /\ UNCHANGED vars

Spec == Init /\ [][Next]_vars
FairSpec == Spec /\ WF_vars(CallStep)

Judged == call.pc \in Over \cup {"post"} /\ call.mode # "skipped"
Report(d, how) == \E f \in call.findings : f.rule = RuleOf(d) /\ f.is \in how
Reported(d) == Report(d, {"block", "warn"})

(* Where one mistake takes away what the other is seen by: no module that an *)
(* agent effectively reads, no field of that name, a run that failed in full.*)
Hides ==
  ({"module unknown", "dataset for a module", "id in knowledgeSources", "module without dataset",
    "tier below AGENTIC", "agent ungrounded"} \X {"indexed to nothing"})
    \cup {<<"agent ungrounded", "module without dataset">>,
          <<"rows from a returned array", "result root left out in a condition">>,
          <<"node failed", "header failed">>, <<"header failed", "node failed">>}

(* A solution in which nothing is wrong, and that is read in full, passes,   *)
(* and every rule of the written manifest runs.                              *)
CleanPasses ==
  Judged /\ call.mode = "written" /\ call.lost = {} /\ call.verdict # "INCONCLUSIVE" /\ live = Clean
    => call.verdict = "PASS" /\ call.findings = {}

(* The components that a mistake is seen in.                                 *)
SeenIn(d) ==
  CASE InFlow(d) -> {"flow"}
    [] d \in {"agent ungrounded", "prompt names none"} -> {"screener"}
    [] d \in {"half the fields"} -> {"intake"}
    [] OTHER ->
         CASE RuleOf(d) \in {"RUN-HEADER-VS-TRACES", "RUN-WROTE-NOTHING", "RUN-VARIABLE-POOL-TRIMMED"} -> {"flow"}
           [] RuleOf(d) = "AGENT-KNOWLEDGE-EFFECTIVE" -> {"screener"}
           [] RuleOf(d) = "AGENT-GROUNDED-ON-EMPTY-KNOWLEDGE" -> {"screener", "rules"}
           [] RuleOf(d) = "WIDGET-BRAIN-EFFECTIVE" -> {"front"}
           [] RuleOf(d) = "CHATFLOW-DOWNSTREAM-EFFECTIVE" -> {"intake"}
           [] RuleOf(d) = "KNOWLEDGE-RETRIEVABLE" -> {"rules"}
           [] OTHER -> {}

Derived == call.mode \in {"seed", "registry", "deploy"}
Declared == {c[2] : c \in call.manifest.components}

(* What the result says of its own limits: a rule that skipped, a request    *)
(* that failed, the branches that provenance names.                          *)
Noted(d) ==
  \/ Report(d, {"skip"})
  \/ \E id \in SeenIn(d) : <<"record", id>> \in call.lost \/ (Derived /\ id \in call.unread)
  \/ call.truncated = "yes" /\ ~(SeenIn(d) \subseteq Declared)
  \/ call.mode \in {"seed", "deploy"} /\ ~(SeenIn(d) \subseteq Declared)
  \/ Derived /\ d \in {"table undeclared", "table name mistyped"} /\ call.manifest.dataTables # {}
  \/ d = "stray table" /\ call.manifest.prefixed = "no"
  \/ call.manifest.wires = {} /\ RuleOf(d) = "CHATFLOW-DOWNSTREAM-EFFECTIVE"

(* An input that could not be fetched, of a rule that neither skips nor says *)
(* so: it passes over runs without traces and datasets without a listing.    *)
InputLost(d) ==
  \/ <<"list", "traces">> \in call.lost /\ RuleOf(d) = "RUN-VARIABLE-POOL-TRIMMED"
  \/ \E id \in Declared : <<"documents", id>> \in call.lost /\ "rules" \in SeenIn(d)

(* A spec declares no tables, which leaves no name undeclared; provenance    *)
(* speaks of DT-TABLE-LIVE alone.                                            *)
BranchIdle(d) == call.mode = "spec" /\ d \in {"table undeclared", "table name mistyped"}

Caught(d) == Reported(d) \/ Noted(d) \/ \E e \in since : <<e, d>> \in Hides

(* A mistake that has been there since the call began is reported by the     *)
(* rule that it belongs to, unless another one hides it or the result says   *)
(* that it may have been missed - whatever the manifest was made from and    *)
(* whatever is edited or lost meanwhile.  In two cases, and in no other, it  *)
(* goes through without a word: where a rule lost its input, and where a     *)
(* spec leaves a branch of DT-TABLE-NAME idle.  The repository says that     *)
(* neither happens (preflight/lib/snapshot.mjs:8-9, derive.mjs:398).         *)
EveryMistakeIsCaught ==
  Judged /\ call.verdict # "INCONCLUSIVE" =>
    \A d \in since : Caught(d) \/ InputLost(d) \/ BranchIdle(d)

(* The verdict: a clean solution is let through; a mistake is reported or    *)
(* noted, but for the two cases of EveryMistakeIsCaught; and the walk keeps  *)
(* within its ceiling.                                                       *)
VerdictInv == TypeOK /\ CleanPasses /\ EveryMistakeIsCaught

(* What preflight.ts says of the gate: a fetch that failed is INCONCLUSIVE   *)
(* and blocks.                                                               *)
FailedFetchBlocks == Judged /\ call.lost # {} => call.verdict # "PASS"

(* Every call ends: the walk has a ceiling and reads no component twice.     *)
EveryCallEnds == <>[](call.pc \in Over \cup {"idle"})

=============================================================================
