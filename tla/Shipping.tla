------------------------------- MODULE Shipping -------------------------------
(***************************************************************************)
(* The tools that take an artifact from a description to production, on    *)
(* one platform: swfte_build .. swfte_create (BuildSession), swfte_run     *)
(* (Execution), swfte_deploy (Deployment) and swfte_verify, which reads    *)
(* the record, asks more, and runs it (src/src/kinds, each verify).        *)
(***************************************************************************)
EXTENDS BuildSession, Execution, Deployment

vars == <<studio, sessionVars, execVars, deployVars>>

TypeOK ==
  /\ task \in Tasks /\ kind \in Kinds /\ flaws \in Defective(kind)
  /\ standing \in {"draft", "published", "disabled"}
  /\ trouble \in 0 .. MaxTrouble[task] /\ edits \in 0 .. MaxEdits[task] /\ calls \in 0 .. MaxCalls[task]
  /\ SessionTypeOK /\ ExecTypeOK /\ DeployTypeOK

(* Nothing yet; or an artifact that is there, or that is not; deployed or    *)
(* not.                                                                      *)
Init ==
  /\ task \in Tasks /\ kind \in Kinds
  /\ \/ /\ kind # "model" /\ stored = 0 /\ flaws = {} /\ known = "nothing"
        /\ standing = "draft" /\ dep = NoDep /\ widget = Dark
     \/ /\ stored \in {0, 1} /\ known = "id"
        /\ flaws \in IF stored = 0 THEN {{}} ELSE Defective(kind)
        /\ standing \in IF stored = 1 /\ kind \in {"workflow", "chatflow"} THEN {"draft", "published", "disabled"} ELSE {"draft"}
        /\ dep \in {NoDep} \cup IF stored = 1 /\ requireVerb("deploy") THEN [is : {"running"}, by : IF kind = "workflow" THEN {"managed", "others"} ELSE {"others"}] ELSE {}
        /\ widget \in {Dark} \cup IF kind = "widget" /\ dep # NoDep THEN {[active |-> "yes", points |-> "another"]} ELSE {}
  /\ trouble = 0 /\ edits = 0 /\ calls = 0 /\ call = NoCall /\ said = None
  /\ SessionInit /\ ExecInit

(* --- verification ----------------------------------------------------------*)

Verify ==
  /\ known = "id"
  /\ \E run, live \in {"yes", "no"} :
       Begin([tool |-> "verify", pc |-> "record", run |-> run, requirePublished |-> live, edits |-> edits,
              read |-> {}, checks |-> << >>, asks |-> << >>, ran |-> None,
              route |-> "invoke", attempt |-> 0, snap |-> None])
  /\ started' = 0 /\ shed' = 0
  /\ UNCHANGED <<task, kind, stored, flaws, standing, trouble, edits, known, exec, deployVars, sessionVars>>

Yes(holds) == IF holds THEN "yes" ELSE "no"
Expected(holds) == IF holds THEN "yes" ELSE IF call.requirePublished = "yes" THEN "no" ELSE "null"

(* What is seen on the record itself.                                        *)
WorkflowRecord == [graph |-> Yes(analyseGraph(flaws)), secrets |-> Yes("plain-secret" \notin flaws)]

(* Mutant: the tier is not held against the tools.                           *)
AgentRecordToolless ==
  [complete |-> Yes("half-created" \notin flaws), tier |-> Yes("no-memory" \notin flaws), prompt |-> Yes("no-prompt" \notin flaws)]

AgentRecord ==
  [complete |-> Yes("half-created" \notin flaws),
   tier |-> Yes(flaws \cap {"role-plays-tools", "no-memory"} = {}),
   prompt |-> Yes("no-prompt" \notin flaws)]

ChatflowRecord == [fields |-> Yes("no-fields" \notin flaws), published |-> Expected(standing = "published")]
WidgetRecord == [bound |-> Yes("no-brain" \notin flaws), active |-> Expected(widget.active = "yes")]
ModuleRecord == [resources |-> Yes("no-resources" \notin flaws)]
ModelRecord == [uploaded |-> Yes("not-uploaded" \notin flaws)]
McpRecord == [tools |-> Yes("no-tools" \notin flaws)]

OnRecord ==
  CASE kind = "workflow" -> WorkflowRecord [] kind = "agent" -> AgentRecord [] kind = "chatflow" -> ChatflowRecord
    [] kind = "widget" -> WidgetRecord [] kind = "module" -> ModuleRecord [] kind = "model" -> ModelRecord
    [] kind = "mcpServer" -> McpRecord [] OTHER -> << >>

(* What is asked then.                                                       *)
Asks ==
  [workflow |-> <<"versions", "run">>, agent |-> <<"run">>, chatflow |-> << >>, widget |-> <<"source", "history", "config">>,
   application |-> <<"hosting", "head">>, module |-> <<"versions", "run">>, model |-> <<"status", "run">>,
   mcpServer |-> <<"configuration", "builds", "run">>]

ReadRecord ==
  /\ At("verify", "record")
  /\ \/ /\ stored > 0 /\ Answered
        /\ call' = [call EXCEPT !.pc = "asks", !.read = flaws, !.checks = OnRecord, !.asks = Asks[kind]]
        /\ UNCHANGED said
     \/ /\ IF stored = 0 THEN Answered ELSE Trouble
        /\ Return([tool |-> "verify", is |-> "report", ok |-> "no"])
  /\ UNCHANGED <<task, kind, stored, flaws, standing, edits, calls, known, sessionVars, execVars, deployVars>>

(* One more request: what it says of its check when it is answered, and when *)
(* it fails.  A history that cannot be read leaves a check open; what the    *)
(* caller expects to be there does not pass so.  A version counts, also of a *)
(* workflow that has been disabled since.                                    *)
WorkflowVersions == [name |-> "published", says |-> Expected(standing # "draft"), fails |-> "null"]
WidgetSource == [name |-> "bound", says |-> Yes(flaws \cap {"no-brain", "foreign-data"} = {}), fails |-> "no"]
WidgetHistory ==
  [name |-> "deployed", says |-> Expected(dep.is = "running" /\ widget.points # "nothing" /\ widget.active = "yes"),
   fails |-> Expected(FALSE)]
WidgetConfig == [name |-> "config", says |-> Yes(widget.active = "yes"), fails |-> "no"]
ApplicationHosting ==
  [name |-> "hosted", says |-> IF dep.is = "none" THEN "null" ELSE Yes(dep.is = "running"), fails |-> "null"]
ApplicationHead == [name |-> "reachable", says |-> Yes("dead-url" \notin flaws), fails |-> "no"]
ModuleVersions == [name |-> "built", says |-> Yes("never-built" \notin flaws), fails |-> "null"]
ModelStatus == [name |-> "deployed", says |-> IF dep.is = "running" THEN "yes" ELSE "null", fails |-> "null"]
McpConfiguration == [name |-> "configuration", says |-> Yes("invalid" \notin flaws), fails |-> "no"]
(* The code that was read is what is compiled.                               *)
McpBuilds == [name |-> "builds", says |-> Yes("does-not-compile" \notin call.read), fails |-> "no"]

AskOf(ask) ==
  CASE ask = "versions" /\ kind = "workflow" -> WorkflowVersions
    [] ask = "versions" /\ kind = "module" -> ModuleVersions
    [] ask = "source" -> WidgetSource [] ask = "history" -> WidgetHistory [] ask = "config" -> WidgetConfig
    [] ask = "hosting" -> ApplicationHosting [] ask = "head" -> ApplicationHead [] ask = "status" -> ModelStatus
    [] ask = "configuration" -> McpConfiguration [] OTHER -> McpBuilds

(* The public configuration is asked for when the widget is deployed, the    *)
(* URL when something is hosted, and a widget with a brain has no source.    *)
Skips(ask) ==
  CASE ask = "config" -> call.checks.deployed # "yes"
    [] ask = "head" -> call.checks.hosted # "yes"
    [] ask = "source" -> "foreign-data" \notin flaws
    [] OTHER -> FALSE

(* The checks with one more, or with one taken again.                        *)
Marked(checks, name, is) == [n \in {name} \cup DOMAIN checks |-> IF n = name THEN is ELSE checks[n]]

Check(name, is) == [call EXCEPT !.checks = Marked(@, name, is), !.asks = Tail(@)]

Ask ==
  /\ At("verify", "asks") /\ call.asks # << >> /\ Head(call.asks) # "run" /\ UNCHANGED said
  /\ LET ask == Head(call.asks) a == AskOf(ask)
     IN IF Skips(ask) THEN Answered /\ call' = [call EXCEPT !.asks = Tail(@)]
        ELSE \/ Answered /\ call' = Check(a.name, a.says)
             \/ Trouble /\ call' = Check(a.name, a.fails)
  /\ UNCHANGED <<task, kind, stored, flaws, standing, edits, calls, known, sessionVars, execVars, deployVars>>

(* The run is opt-in; a model that is not serving is not asked, and an MCP   *)
(* server cannot be run from here, which fails the check that was asked for. *)
AskRun ==
  /\ At("verify", "asks") /\ call.asks # << >> /\ Head(call.asks) = "run" /\ call.ran = None /\ UNCHANGED said
  /\ call' = IF call.run = "no" \/ (kind = "model" /\ call.checks.deployed # "yes") THEN [call EXCEPT !.asks = Tail(@)]
             ELSE IF kind = "mcpServer" THEN Check("execution", "no") ELSE [call EXCEPT !.pc = "start"]
  /\ UNCHANGED <<task, kind, stored, flaws, standing, trouble, edits, calls, known, sessionVars, execVars, deployVars>>

(* A node may fail in an execution that ends well.                           *)
NodesOf(ran) == IF ran.nodes = "none" THEN "null" ELSE Yes(ran.nodes = "fine")

(* What a run says: an overloaded platform says nothing of an agent.         *)
JudgeRun ==
  /\ At("verify", "asks") /\ call.ran # None /\ UNCHANGED said
  /\ LET ran == call.ran
         runs == IF ran.degraded = "yes" THEN "null" ELSE ran.ok
     IN call' = [call EXCEPT !.checks = Marked(Marked(@, "nodes", NodesOf(ran)), "runs", runs), !.asks = Tail(@), !.ran = None]
  /\ UNCHANGED <<task, kind, stored, flaws, standing, trouble, edits, calls, known, sessionVars, execVars, deployVars>>

(* No check has failed; of an MCP server every check has passed.             *)
Passes ==
  \A name \in DOMAIN call.checks : IF kind = "mcpServer" THEN call.checks[name] = "yes" ELSE call.checks[name] # "no"

Report ==
  /\ At("verify", "asks") /\ call.asks = << >>
  /\ Return([tool |-> "verify", is |-> "report", ok |-> Yes(Passes), read |-> call.read, checks |-> call.checks,
             route |-> call.route, touched |-> Yes(call.edits # edits)])
  /\ UNCHANGED <<task, kind, stored, flaws, standing, trouble, edits, calls, known, sessionVars, execVars, deployVars>>

VerifyStep == ReadRecord \/ Ask \/ AskRun \/ JudgeRun \/ Report

(* --- all of it ---------------------------------------------------------------*)

ServerStep ==
  \/ SessionStep /\ UNCHANGED <<execVars, deployVars>>
  \/ ExecStep /\ UNCHANGED <<sessionVars, widget>>
  \/ DeployStep /\ UNCHANGED <<sessionVars, exec, shed>>
  \/ VerifyStep

Caller ==
  \/ SessionCall /\ UNCHANGED <<execVars, deployVars>>
  \/ Run /\ UNCHANGED <<sessionVars, widget>>
  \/ Deploy /\ shed' = 0 /\ UNCHANGED <<sessionVars, exec>>
  \/ (Preview \/ Teardown) /\ UNCHANGED <<sessionVars, exec, shed>>
  \/ Verify

World ==
  \/ SessionPlatform /\ UNCHANGED <<execVars, deployVars>>
  \/ (Execute \/ Resume) /\ UNCHANGED <<sessionVars, widget>>
  \/ (DepMoves \/ Others) /\ UNCHANGED <<sessionVars, exec, shed>>
  \/ Person /\ UNCHANGED <<sessionVars, execVars, deployVars>>

Next == ServerStep \/ Caller \/ World

Spec == Init /\ [][Next]_vars

(* The requests of a call come to an end, by an answer or a timeout.         *)
FairSpec == Spec /\ WF_vars(ServerStep)

(* The check that looks for each defect.                                     *)
CheckFor ==
  [f \in UNION {FlawsOf[k] : k \in DOMAIN FlawsOf} |->
    CASE f \in {"orphan", "dangling", "no-nodes"} -> "graph" [] f = "plain-secret" -> "secrets" [] f = "node-fails" -> "nodes"
      [] f = "half-created" -> "complete" [] f \in {"role-plays-tools", "no-memory"} -> "tier" [] f = "no-prompt" -> "prompt"
      [] f = "no-fields" -> "fields" [] f \in {"no-brain", "foreign-data"} -> "bound" [] f = "dead-url" -> "reachable"
      [] f = "no-resources" -> "resources" [] f = "never-built" -> "built" [] f = "not-uploaded" -> "uploaded"
      [] f = "no-tools" -> "tools" [] f = "invalid" -> "configuration" [] OTHER -> "builds"]

(* A verification that passes has looked for every defect the artifact had,  *)
(* or says of the check that it was left open: a defect that is there all    *)
(* along does not go unmentioned.  (A run of a published workflow is one of  *)
(* its release, and says nothing of the nodes of the record.)                *)
(* Each adapter's verify.                                                    *)
VerifiedIsSound ==
  (said # None /\ said.tool = "verify" /\ said.is = "report" /\ said.ok = "yes" /\ said.touched = "no") =>
    \A f \in said.read :
      \/ CheckFor[f] \notin DOMAIN said.checks \/ said.checks[CheckFor[f]] = "null"
      \/ f = "node-fails" /\ said.route = "invoke"

(* What is run, is run once, and reported as it went.                        *)
RunInv == TypeOK /\ OnePerCall /\ RunReportIsTrue

(* Every call is answered, however the platform answers: waits have an end,  *)
(* and attempts and ways to run are counted.                                 *)
EveryCallEnds == <>[](Idle)
=============================================================================
