----------------------------- MODULE Deployment ------------------------------
(***************************************************************************)
(* swfte_deploy: a preview, a deployment behind the gates, a teardown      *)
(* (src/src/tools/ship.ts and the adapters under src/src/kinds), while     *)
(* others deploy, tear down and pause.                                     *)
(***************************************************************************)
EXTENDS Studio

CONSTANT
  AllowDeploy  \* what SWFTE_ALLOW_DEPLOY may be

VARIABLES
  widget    \* of a widget: is it enabled, and which release does it point to

deployVars == <<dep, widget>>

NoDep == [is |-> "none", by |-> "nobody"]
Dark == [active |-> "no", points |-> "nothing"]

DeployTypeOK ==
  /\ dep.is \in {"none", "provisioning", "running", "stopping", "terminated", "failed"}
  /\ dep.by \in {"nobody", "router", "managed", "others"}
  /\ widget.active \in {"yes", "no"} /\ widget.points \in {"nothing", "another", "ours"}

(* What the gate finds of a workflow's defects before it is deployed.        *)
GateFinds == {"orphan", "dangling", "no-nodes"}

(* Where a deployment starts from, by kind.                                  *)
Begins(by, skip) ==
  IF by = "unsupported" THEN "unsupported"
  ELSE CASE kind = "workflow" /\ skip = "no" -> "gate" [] kind = "widget" -> "enabled?" [] kind = "mcpServer" -> "artifact"
         [] OTHER -> "post"

Refusal(confirm, allowed) ==
  [tool |-> "deploy",
   is |-> IF confirm = "no" THEN "CONFIRMATION_REQUIRED" ELSE IF allowed = "no" THEN "DEPLOY_DISABLED" ELSE "error"]

Deploy ==
  /\ known = "id"
  /\ \E confirm, skip, force \in {"yes", "no"}, allowed \in AllowDeploy, by \in {"router", "managed", "unsupported"} :
       /\ confirm = "no" \/ allowed = "no" => skip = "no" /\ force = "no" /\ by = "router"
       /\ kind # "workflow" => skip = "no" /\ force = "no" /\ by # "managed"
       /\ IF confirm = "no" \/ allowed = "no" \/ ~requireVerb("deploy")
          THEN /\ Idle /\ calls < MaxCalls[task] /\ "deploy" \in Callable[task] /\ calls' = calls + 1
               /\ said' = Refusal(confirm, allowed) /\ UNCHANGED call
          ELSE Begin([tool |-> "deploy", pc |-> Begins(by, skip), by |-> by, skip |-> skip, force |-> force, snap |-> None,
                      edits |-> edits, hole |-> "no"])
  /\ started' = 0
  /\ UNCHANGED <<task, kind, stored, flaws, standing, trouble, edits, known, deployVars>>

(* An option that no adapter consumes is an error, not ignored.              *)
UnsupportedOption ==
  /\ At("deploy", "unsupported") /\ Return(Thrown)
  /\ UNCHANGED <<task, kind, stored, flaws, standing, trouble, edits, calls, known, started, deployVars>>

(* Mutant: only a gate that could not run refuses.                           *)
GateWithoutFindings ==
  /\ At("deploy", "gate")
  /\ \/ Answered /\ (IF stored > 0 THEN Goto("post") ELSE Return([tool |-> "deploy", is |-> "PREFLIGHT"]))
     \/ Trouble /\ Return([tool |-> "deploy", is |-> "PREFLIGHT"])
  /\ UNCHANGED <<task, kind, stored, flaws, standing, edits, calls, known, started, deployVars>>

(* Preflight, in one step: it refuses what it finds, unless it is forced.    *)
(* Where a request fails the gate errs, or passes over what it has not read. *)
Gate ==
  /\ At("deploy", "gate")
  /\ \/ /\ Answered
        /\ IF stored > 0 /\ (flaws \cap GateFinds = {} \/ call.force = "yes") THEN Goto("post")
           ELSE Return([tool |-> "deploy", is |-> "PREFLIGHT"])
     \/ /\ Trouble
        /\ \/ Return([tool |-> "deploy", is |-> "PREFLIGHT"])
           \/ call' = [call EXCEPT !.pc = "post", !.hole = "yes"] /\ UNCHANGED said
  /\ UNCHANGED <<task, kind, stored, flaws, standing, edits, calls, known, started, deployVars>>

Provisions(by) == dep' = [is |-> "provisioning", by |-> by] /\ started' = started + 1

(* The deployment is asked for, once.                                        *)
PostDeploy(empty) ==
  /\ At("deploy", "post")
  /\ \/ stored = 0 /\ Answered /\ Return(Thrown) /\ UNCHANGED <<dep, started>>
     \/ /\ stored > 0 /\ Answered /\ Provisions(call.by)
        /\ Goto("watch") \/ empty
     \/ /\ stored > 0 /\ Trouble /\ Return(Thrown)
        /\ Provisions(call.by) \/ UNCHANGED <<dep, started>>
  /\ UNCHANGED <<task, kind, stored, flaws, standing, edits, calls, known, widget>>

(* An answer without an id (a 202 with an empty body) is no error: the       *)
(* platform has it in its queue.  A model's deployment is found by the model. *)
Queued == Return([tool |-> "deploy", is |-> "reported", phase |-> "QUEUED", id |-> "no", timedOut |-> "no"])
DeployWorkflow == kind = "workflow" /\ PostDeploy(Queued)
DeployApplication == kind = "application" /\ PostDeploy(Queued)
DeployModel == kind = "model" /\ PostDeploy(FALSE)

(* How a deployment is shown.  One that is shutting down has the phase of    *)
(* one that has gone.                                                        *)
Phase == [none |-> "UNKNOWN", provisioning |-> "PROVISIONING", running |-> "READY",
          stopping |-> "TERMINATED", terminated |-> "TERMINATED", failed |-> "FAILED"]

TERMINAL_DEPLOY_PHASES == {"READY", "FAILED", "TERMINATED"}

(* Mutant: the phase is believed.                                            *)
deployIsTerminalByPhase(snap) == snap.phase \in TERMINAL_DEPLOY_PHASES

ASSUME WordAssumption == None \notin {"yes", "no"}

(* The platform says itself whether a deployment has stopped moving; the     *)
(* phase counts only where it does not.                                      *)
deployIsTerminal(snap) ==
  IF snap.terminal # None THEN snap.terminal = "yes" ELSE snap.phase \in TERMINAL_DEPLOY_PHASES

Settled == dep.is \notin {"provisioning", "stopping"}

(* Applications and models are judged by their status, which has a word for  *)
(* shutting down.  The status of a workflow's deployment is taken to have    *)
(* its `terminal` always.                                                    *)
Shown ==
  [phase |-> IF kind # "workflow" /\ dep.is = "stopping" THEN "STOPPING" ELSE Phase[dep.is],
   terminal |-> IF kind = "workflow" THEN IF Settled THEN "yes" ELSE "no" ELSE None]

WatchDeploy ==
  /\ At("deploy", "watch") /\ Answered
  /\ IF deployIsTerminal(Shown)
     THEN Return([tool |-> "deploy", is |-> "reported", phase |-> Shown.phase, id |-> "yes", timedOut |-> "no"])
     ELSE call' = [call EXCEPT !.snap = Shown.phase] /\ UNCHANGED said
  /\ UNCHANGED <<task, kind, stored, flaws, standing, edits, calls, known, started, deployVars>>

WatchDeployFailed ==
  /\ At("deploy", "watch") /\ call.snap = None /\ Trouble /\ Return(Thrown)
  /\ UNCHANGED <<task, kind, stored, flaws, standing, edits, calls, known, started, deployVars>>

(* The wait is over; the provisioning is not cancelled.                      *)
WatchDeployOver ==
  /\ At("deploy", "watch") /\ call.snap # None
  /\ Return([tool |-> "deploy", is |-> "reported", phase |-> call.snap, id |-> "yes", timedOut |-> "yes"])
  /\ UNCHANGED <<task, kind, stored, flaws, standing, trouble, edits, calls, known, started, deployVars>>

(* --- a widget ---------------------------------------------------------------*)

(* It is enabled first, and what was saved is read back.                     *)
EnableWidget ==
  /\ \/ /\ At("deploy", "enabled?")
        /\ \/ Answered /\ (IF stored = 0 THEN Return(Thrown) ELSE Goto(IF widget.active = "yes" THEN "post" ELSE "enable"))
           \/ Trouble /\ Return(Thrown)
        /\ UNCHANGED widget
     \/ /\ At("deploy", "enable")
        /\ \/ Answered /\ Goto("enabled!") /\ widget' \in {[widget EXCEPT !.active = "yes"], widget}
           \/ Trouble /\ Return(Thrown) /\ widget' \in {[widget EXCEPT !.active = "yes"], widget}
     \/ /\ At("deploy", "enabled!")
        /\ \/ Answered /\ IF widget.active = "yes" THEN Goto("post") ELSE Return(Thrown)
           \/ Trouble /\ Return(Thrown)
        /\ UNCHANGED widget
  /\ UNCHANGED <<task, kind, stored, flaws, standing, edits, calls, known, started, dep>>

(* A release is made; the record may not point to it, nor it be live.        *)
PostWidget ==
  /\ At("deploy", "post") /\ kind = "widget"
  /\ \/ /\ Answered
        /\ \E is \in {"running", "failed"}, points \in {"ours", widget.points} :
             /\ dep' = [is |-> is, by |-> "router"]
             /\ widget' = [widget EXCEPT !.points = points]
             /\ call' = [call EXCEPT !.pc = "saved", !.edits = edits, !.snap = [live |-> is, saved |-> None]]
        /\ started' = started + 1 /\ UNCHANGED said
     \/ /\ Trouble /\ Return(Thrown)
        /\ \/ UNCHANGED <<dep, widget, started>>
           \/ dep' = [is |-> "running", by |-> "router"] /\ widget' = [widget EXCEPT !.points = "ours"] /\ started' = started + 1
  /\ UNCHANGED <<task, kind, stored, flaws, standing, edits, calls, known>>

ReadSaved ==
  /\ At("deploy", "saved")
  /\ \/ Answered /\ call' = [call EXCEPT !.pc = "public", !.snap.saved = widget]
     \/ Trouble /\ call' = [call EXCEPT !.pc = "public"]
  /\ UNCHANGED <<task, kind, stored, flaws, standing, edits, calls, known, said, started, deployVars>>

(* Mutant: the answer to the deployment is enough.                           *)
LiveAsAnswered(public) == call.snap.live = "running"

(* LIVE is said of a release that the answer calls live, that the enabled    *)
(* record points to, and whose public configuration can be read.             *)
Live(public) ==
  /\ call.snap.live = "running"
  /\ call.snap.saved # None /\ call.snap.saved.active = "yes" /\ call.snap.saved.points = "ours"
  /\ public

ReadPublic ==
  /\ At("deploy", "public")
  /\ \E public \in {widget.active = "yes", FALSE} :
       /\ IF public = (widget.active = "yes") THEN Answered ELSE Trouble
       /\ Return([tool |-> "deploy", is |-> "reported", phase |-> IF Live(public) THEN "LIVE" ELSE "UNVERIFIED",
                  id |-> "yes", timedOut |-> "no", touched |-> IF call.edits = edits THEN "no" ELSE "yes"])
  /\ UNCHANGED <<task, kind, stored, flaws, standing, edits, calls, known, started, deployVars>>

(* --- an MCP server ----------------------------------------------------------*)

(* The saved artifact is read, and deployed without looking back: the phase  *)
(* is the one of the answer.                                                 *)
DeployMcp ==
  /\ kind = "mcpServer"
  /\ \/ /\ At("deploy", "artifact")
        /\ \/ Answered /\ (IF stored = 0 THEN Return(Thrown) ELSE Goto("post"))
           \/ Trouble /\ Return(Thrown)
        /\ UNCHANGED <<dep, started>>
     \/ /\ At("deploy", "post")
        /\ \/ Answered /\ Provisions("router")
              /\ Return([tool |-> "deploy", is |-> "reported", phase |-> Phase[dep'.is], id |-> "yes", timedOut |-> "unsaid"])
           \/ Trouble /\ Return(Thrown) /\ (Provisions("router") \/ UNCHANGED <<dep, started>>)
  /\ UNCHANGED <<task, kind, stored, flaws, standing, edits, calls, known, widget>>

(* --- preview and teardown ---------------------------------------------------*)

Preview ==
  /\ known = "id" /\ Idle /\ calls < MaxCalls[task] /\ "preview" \in Callable[task]
  /\ \/ Answered /\ said' = [tool |-> "preview", is |-> IF requireVerb("preview") THEN "dry-run" ELSE "no-preview"]
     \/ Trouble /\ requireVerb("preview") /\ said' = [tool |-> "preview", is |-> "error"]
  /\ calls' = calls + 1
  /\ UNCHANGED <<task, kind, stored, flaws, standing, edits, known, call, started, deployVars>>

(* A deployment is released by its id.  Without one a workflow's managed     *)
(* deployment is, and of an MCP server one whose id is the artifact's.       *)
workflowTeardown(id) == id = "yes" \/ dep.by = "managed"
modelTeardown(id) == id \in {"yes", "no"}
mcpServerTeardown(id, same) == id = "yes" \/ same
applicationTeardown(id) == id = "yes"

Reaches(id, same) ==
  CASE kind = "workflow" -> workflowTeardown(id) [] kind = "model" -> modelTeardown(id)
    [] kind = "mcpServer" -> mcpServerTeardown(id, same) [] kind = "application" -> applicationTeardown(id) [] OTHER -> FALSE

(* A widget is paused.                                                       *)
widgetTeardown == IF kind = "widget" THEN [widget EXCEPT !.points = "nothing"] ELSE widget

(* Nothing to release (404) is no error; an application needs the id.        *)
Teardown ==
  /\ known = "id" /\ Idle /\ calls < MaxCalls[task] /\ "teardown" \in Callable[task]
  /\ \E id \in {"yes", "no"}, same \in BOOLEAN :
       LET stopped == [dep EXCEPT !.is = IF Reaches(id, same) /\ @ \in {"running", "provisioning"} THEN "stopping" ELSE @]
           paused == widgetTeardown
       IN IF ~requireVerb("teardown") \/ (kind = "application" /\ id = "no")
          THEN said' = [tool |-> "teardown", is |-> "error"] /\ Answered /\ UNCHANGED deployVars
          ELSE \/ Answered /\ said' = [tool |-> "teardown", is |-> "tornDown"] /\ dep' = stopped /\ widget' = paused
               \/ /\ Trouble /\ said' = [tool |-> "teardown", is |-> "error"]
                  /\ dep' \in {dep, stopped} /\ widget' \in {widget, paused}
  /\ calls' = calls + 1
  /\ UNCHANGED <<task, kind, stored, flaws, standing, edits, known, call, started>>

(* --- the platform and others ------------------------------------------------*)

DepMoves ==
  /\ \/ dep.is = "provisioning" /\ \E is \in {"running", "failed"} : dep' = [dep EXCEPT !.is = is]
     \/ dep.is = "stopping" /\ dep' = [dep EXCEPT !.is = "terminated"]
  /\ UNCHANGED <<studio, started, widget>>

Others ==
  /\ edits < MaxEdits[task] /\ edits' = edits + 1
  /\ \/ dep.is \in {"provisioning", "running"} /\ kind # "widget" /\ dep' = [dep EXCEPT !.is = "stopping"] /\ UNCHANGED widget
     \/ kind = "widget" /\ widget' \in {[widget EXCEPT !.active = "no"], [widget EXCEPT !.points = "another"]} \ {widget} /\ UNCHANGED dep
  /\ UNCHANGED <<task, kind, stored, flaws, standing, trouble, calls, known, call, said, started>>

DeployStep ==
  \/ UnsupportedOption \/ Gate \/ DeployWorkflow \/ DeployApplication \/ DeployModel \/ WatchDeploy \/ WatchDeployFailed \/ WatchDeployOver
  \/ EnableWidget \/ PostWidget \/ ReadSaved \/ ReadPublic \/ DeployMcp

Reports(tool) == said # said' /\ said' # None /\ said'.tool = tool /\ said'.is = "reported"

(* A deployment that is reported as over, not as a wait that ran out, has    *)
(* stopped moving; one that is shutting down is not reported as gone.        *)
(* deployIsTerminal, the adapters' deploy.                                   *)
DeployedIsSettled ==
  (Reports("deploy") /\ said'.id = "yes" /\ said'.timedOut = "no" /\ kind # "widget") => Settled

(* A widget that is reported as LIVE is live, enabled and points to the new  *)
(* release, unless somebody else has changed it since the release was made.  *)
(* The widget adapter's deploy.                                              *)
WidgetLive ==
  (Reports("deploy") /\ said'.phase = "LIVE" /\ said'.touched = "no") =>
    dep.is = "running" /\ widget = [active |-> "yes", points |-> "ours"]

(* A workflow with a defect that the gate finds is deployed only where the   *)
(* gate was skipped or overridden, could not read it, or the workflow was    *)
(* edited after it had passed.  swfte_deploy.                                *)
GatedDeploy ==
  (kind = "workflow" /\ dep' # dep /\ dep'.is = "provisioning" /\ call.tool = "deploy" /\ flaws \cap GateFinds # {}) =>
    call.skip = "yes" \/ call.force = "yes" \/ call.hole = "yes" \/ call.edits # edits

(* A deployment passes the gate, and its report says what became of it.      *)
DeploysHold == [][GatedDeploy /\ DeployedIsSettled /\ WidgetLive]_<<studio, deployVars>>
=============================================================================
