--------------------------- MODULE ShippingProofs ---------------------------
(***************************************************************************)
(* From a description to production, for artifacts of every kind, any      *)
(* number of calls, failures and edits: what is built is stored once, what *)
(* is run is run once, what is deployed has passed the gate, and what is   *)
(* said of all of them is so.                                              *)
(*                                                                         *)
(* The argument: what a call holds at each of its awaits (Shape) fits what *)
(* the caller knows and the wizard does (Goes); whatever is stored, or may *)
(* still be, is paid for by a lapse, but for one (Books); executions are   *)
(* counted by the requests of one call (Starts); a verification weighs the *)
(* defects it read (Weighs), and a deployment carries what it has seen     *)
(* (Clears), each for as long as nobody edits.  Inv is inductive, and the  *)
(* properties of Shipping follow from it.                                  *)
(***************************************************************************)
EXTENDS Shipping, TLAPS

YesNo == {"yes", "no"}

(* What a call is made of.                                                   *)
Snapshots == [done : YesNo, failed : BOOLEAN, id : YesNo]
Builds == [tool : {"build"}, pc : {"post", "build", "poll"}, saves : YesNo, snap : Snapshots \cup {None}]
Lookups == [tool : {"status"}, pc : {"poll"}, snap : Snapshots \cup {None}]

ExecStates == {"none", "running", "paused", "succeeded", "failed"}
Routes == {"invoke", "execute", "test"}
Tries == 0 .. 2
RunCalls ==
  [tool : {"run"}, pc : {"connections", "start", "watch"}, route : Routes, attempt : Tries, snap : ExecStates \cup {None}]

Widgets == [active : YesNo, points : {"nothing", "another", "ours"}]
DepStates == {"none", "provisioning", "running", "stopping", "terminated", "failed"}
Phases == {"UNKNOWN", "PROVISIONING", "READY", "TERMINATED", "FAILED", "STOPPING"}
Releases == [live : {"running", "failed"}, saved : Widgets \cup {None}]
DeployCalls ==
  [tool : {"deploy"}, pc : {"unsupported", "gate", "enabled?", "enable", "enabled!", "artifact", "post", "watch"},
   by : {"router", "managed", "unsupported"}, skip : YesNo, force : YesNo, hole : YesNo, edits : Nat,
   snap : Phases \cup {None}]
ReleaseCalls ==
  [tool : {"deploy"}, pc : {"saved", "public"},
   by : {"router", "managed"}, skip : YesNo, force : YesNo, hole : YesNo, edits : Nat, snap : Releases]

(* What is left to be asked, by kind.                                        *)
Left ==
  [workflow |-> {<<"versions", "run">>, <<"run">>, << >>},
   agent |-> {<<"run">>, << >>},
   chatflow |-> {<< >>},
   widget |-> {<<"source", "history", "config">>, <<"history", "config">>, <<"config">>, << >>},
   application |-> {<<"hosting", "head">>, <<"head">>, << >>},
   module |-> {<<"versions", "run">>, <<"run">>, << >>},
   model |-> {<<"status", "run">>, <<"run">>, << >>},
   mcpServer |-> {<<"configuration", "builds", "run">>, <<"builds", "run">>, <<"run">>, << >>}]

VerifyCalls(checks) ==
  [tool : {"verify"}, pc : {"record", "asks", "start", "watch"}, run : YesNo, requirePublished : YesNo, edits : Nat,
   read : Defective(kind), checks : {checks}, asks : Left[kind], ran : Outcomes \cup {None},
   route : Routes, attempt : Tries, snap : ExecStates \cup {None}]

Shape(c) ==
  \/ c = NoCall \/ c \in Builds \/ c \in Lookups \/ c \in RunCalls \/ c \in DeployCalls \/ c \in ReleaseCalls
  \/ c \in VerifyCalls(c.checks)

(* The types of the rest.                                                    *)
Sessions(k) == [is : {"none", "running", "done", "failed"}, kept : YesNo, saves : YesNo, flaws : Defective(k)]

TypedStudio ==
  /\ task \in Tasks /\ kind \in Kinds /\ flaws \in Defective(kind) /\ stored \in Nat
  /\ standing \in {"draft", "published", "disabled"}
  /\ trouble \in 0 .. MaxTrouble[task] /\ edits \in 0 .. MaxEdits[task] /\ calls \in 0 .. MaxCalls[task]
  /\ known \in {"nothing", "session", "artifact", "id", "unsure"}

TypedWizard == session \in Sessions(kind) /\ art \in Defective(kind) /\ unseen \in Nat /\ lapses \in Nat
TypedRuns == exec \in [is : ExecStates, nodes : {"fine", "one-fails"}] /\ started \in 0 .. 3 /\ shed \in 0 .. 3
TypedDeploys ==
  dep \in [is : DepStates, by : {"nobody", "router", "managed", "others"}] /\ widget \in Widgets

Typed == TypedStudio /\ TypedWizard /\ TypedRuns /\ TypedDeploys

(* What the caller goes by fits what the wizard is at.                       *)
Goes(c) ==
  /\ c.tool \in {"run", "deploy", "verify"} => known = "id"
  /\ c.tool = "build" => known = "nothing"
  /\ c.tool = "status" => known = "session"
  /\ known \in {"artifact", "id", "unsure"} => session.is # "running"
  /\ known = "session" \/ c.pc = "poll" => session.is # "none"
  /\ session.kept = "no" => session.is # "running"
  /\ kind = "module" /\ session.is # "none" => session.saves = "yes" /\ stored > 0
  /\ session.is = "done" /\ session.saves = "yes" => stored > 0
  /\ c.tool = "build" /\ c.pc = "build" => kind = "module" /\ stored > 0

(* The wizard's run will store its result.                                   *)
Mine == IF session.is = "running" /\ session.saves = "yes" /\ kind # "module" THEN 1 ELSE 0

(* The caller is free to store one, or to have one stored.                   *)
Free(c) ==
  \/ c.tool = "none" /\ known \in {"nothing", "artifact"}
  \/ c.tool = "build" /\ c.pc = "post"
  \/ (known = "session" \/ c.pc = "poll") /\ kind # "module" /\ (session.is = "failed" \/ session.saves = "no")

Books(c) ==
  /\ unseen <= lapses
  /\ lapses + (IF c.tool = "build" THEN 1 ELSE 0) <= calls + trouble
  /\ stored + unseen + Mine <= 1 + lapses
  /\ Free(c) => stored + unseen + Mine <= lapses

(* How often this call has started something.                                *)
Fresh == started = 0 /\ shed = 0

(* A workflow is executed again on the last way only, and once.              *)
Again(c) == shed \in {0, 1} /\ (c.route # "test" => shed = 0)

Starts(c) ==
  /\ started <= 1 + shed
  /\ c.tool = "run" /\ c.pc = "connections" => Fresh /\ c.attempt = 0
  /\ c.tool = "verify" =>
       /\ c.pc = "record" => Fresh /\ c.attempt = 0 /\ c.ran = None
       /\ c.pc = "asks" /\ c.ran = None /\ c.asks # << >> => Fresh /\ c.attempt = 0
       /\ c.pc \in {"start", "watch"} => c.asks = <<"run">> /\ c.ran = None
       /\ c.ran # None => c.pc = "asks" /\ c.asks = <<"run">>
  /\ c.tool \in {"run", "verify"} /\ c.pc = "start" =>
       IF kind = "agent" THEN started <= c.attempt /\ shed = c.attempt ELSE started = shed /\ Again(c)
  /\ c.tool \in {"run", "verify"} /\ c.pc = "watch" => kind = "workflow" /\ started = 1 + shed /\ Again(c)
  /\ c.tool = "deploy" /\ c.pc \notin {"watch", "saved", "public"} => Fresh

(* The check for a defect that was read does not pass, or may still fail.    *)
Doubts(f, c) ==
  \/ CheckFor[f] \notin DOMAIN c.checks \/ c.checks[CheckFor[f]] \in {"no", "null"}
  \/ f = "foreign-data" /\ c.asks # << >> /\ Head(c.asks) = "source"
  \/ f = "node-fails" /\ c.route = "invoke"

Weighs(c) ==
  c.tool = "verify" =>
    /\ c.edits <= edits
    /\ c.asks # << >> => "nodes" \notin DOMAIN c.checks
    /\ c.pc # "record" /\ c.edits = edits =>
         /\ c.read = flaws
         /\ \A f \in c.read : Doubts(f, c)
         /\ "node-fails" \in c.read /\ c.route # "invoke" =>
              /\ c.pc = "watch" => exec.nodes = "one-fails"
              /\ c.ran # None => c.ran.nodes # "fine"

(* A deployment has seen what it goes by.                                    *)
Clears(c) ==
  c.tool = "deploy" =>
    /\ c.edits <= edits
    /\ c.pc # "unsupported" => c.by # "unsupported"
    /\ c.pc \in {"enabled?", "enable", "enabled!"} => kind = "widget"
    /\ c.pc = "artifact" => kind = "mcpServer"
    /\ c.pc = "post" /\ kind = "workflow" /\ c.skip = "no" /\ c.force = "no" /\ c.hole = "no" /\ c.edits = edits =>
         flaws \cap GateFinds = {}
    /\ c.pc \in {"saved", "public"} => kind = "widget" /\ dep.is = c.snap.live
    /\ c.pc = "saved" => c.snap.saved = None
    /\ c.pc = "public" /\ c.edits = edits => c.snap.saved \in {None, widget}

Silent == ~Idle => said = None

Inv ==
  /\ Typed /\ Shape(call) /\ Goes(call) /\ Books(call) /\ Starts(call) /\ Weighs(call) /\ Clears(call)
  /\ Silent /\ DoneIsDone /\ RunReportIsTrue /\ VerifiedIsSound

-----------------------------------------------------------------------------
(* What every step shares.                                                   *)

(* A call of each tool has the shape that belongs to it.                     *)
LEMMA ShapeOf ==
  ASSUME NEW c, Shape(c)
  PROVE  /\ c.tool \in {"none", "build", "status", "run", "deploy", "verify"}
         /\ c.tool = "none" => c = NoCall
         /\ c.tool = "build" => c \in Builds
         /\ c.tool = "status" => c \in Lookups
         /\ c.tool = "run" => c \in RunCalls
         /\ c.tool = "deploy" /\ c.pc \notin {"saved", "public"} => c \in DeployCalls
         /\ c.tool = "deploy" /\ c.pc \in {"saved", "public"} => c \in ReleaseCalls
         /\ c.tool = "verify" => c \in VerifyCalls(c.checks)
  BY DEF Shape, NoCall, Builds, Lookups, RunCalls, DeployCalls, ReleaseCalls, VerifyCalls

(* No call: the server waits for one.                                        *)
LEMMA NothingIs ==
  NoCall.tool = "none" /\ NoCall.pc = "idle"
  BY DEF NoCall

(* Requests are answered, or not; what is counted is a number.               *)
LEMMA Counted ==
  ASSUME Inv
  PROVE  /\ trouble \in Nat /\ calls \in Nat /\ edits \in Nat /\ stored \in Nat /\ unseen \in Nat /\ lapses \in Nat
         /\ started \in Nat /\ shed \in Nat /\ Mine \in {0, 1}
         /\ MaxTrouble[task] \in Nat /\ MaxCalls[task] \in Nat /\ MaxEdits[task] \in Nat
         /\ trouble <= MaxTrouble[task] /\ calls <= MaxCalls[task] /\ edits <= MaxEdits[task]
<1>1. Typed
  BY DEF Inv
<1>2. MaxTrouble[task] \in Nat /\ MaxCalls[task] \in Nat /\ MaxEdits[task] \in Nat
  BY <1>1, BoundsAssumption DEF Typed, TypedStudio
<1>3. Mine \in {0, 1}
  BY DEF Mine
<1> QED BY <1>1, <1>2, <1>3 DEF Typed, TypedStudio, TypedWizard, TypedRuns

(* Trouble is counted, and within its bound.                                 *)
LEMMA Requested ==
  ASSUME Inv, Answered \/ Trouble, task' = task
  PROVE  trouble' \in 0 .. MaxTrouble[task'] /\ trouble' >= trouble
  BY Counted DEF Answered, Trouble

(* What is left of the books and of the wizard's state by a step that        *)
(* touches neither.                                                          *)
LEMMA BooksStand ==
  ASSUME Inv, known = "id", UNCHANGED <<kind, known, stored, sessionVars>>, Answered \/ Trouble, task' = task,
         calls' \in {calls, calls + 1}, calls' <= MaxCalls[task],
         call'.tool \notin {"build", "status"}, call'.pc # "poll"
  PROVE  Goes(call)' /\ Books(call)' /\ TypedWizard' /\ trouble' \in 0 .. MaxTrouble[task'] /\ calls' \in 0 .. MaxCalls[task']
<1>1. call.tool \notin {"build", "status"}
  BY DEF Inv, Goes
<1>2. TypedWizard'
  BY DEF Inv, Typed, TypedWizard, sessionVars
<1>3. Goes(call)'
  BY DEF Inv, Goes, sessionVars
<1>4. Mine' = Mine /\ ~Free(call)'
  BY DEF Mine, Free, sessionVars
<1>5. Books(call)'
  BY <1>1, <1>4, Counted, Requested DEF Inv, Books, sessionVars
<1> QED BY <1>2, <1>3, <1>5, Counted, Requested

(* An idle server.                                                           *)
LEMMA Rests ==
  ASSUME call' = NoCall, (started <= 1 + shed)'
  PROVE  Shape(call)' /\ Starts(call)' /\ Weighs(call)' /\ Clears(call)' /\ Silent'
<1>1. call'.tool = "none"
  BY NothingIs
<1>2. Shape(call)' /\ Silent'
  BY <1>1 DEF Shape, Silent, Idle
<1>3. Starts(call)'
  BY <1>1 DEF Starts
<1>4. Weighs(call)' /\ Clears(call)'
  BY <1>1 DEF Weighs, Clears
<1> QED BY <1>2, <1>3, <1>4

(* Something else is said, or nothing.                                       *)
LEMMA SaysNothingOf ==
  ASSUME NEW s, said' = s, s = None \/ (s.is # "built" /\ s.tool \notin {"run", "verify"})
  PROVE  DoneIsDone' /\ RunReportIsTrue' /\ VerifiedIsSound'
<1>1. CASE s = None
  BY <1>1 DEF DoneIsDone, RunReportIsTrue, VerifiedIsSound
<1>2. CASE s # None
  BY <1>2 DEF DoneIsDone, RunReportIsTrue, VerifiedIsSound
<1> QED BY <1>1, <1>2

-----------------------------------------------------------------------------
(* Deployments.                                                              *)

(* A step of swfte_deploy.                                                   *)
DeployFrame ==
  /\ call.tool = "deploy"
  /\ UNCHANGED <<task, kind, stored, flaws, standing, edits, calls, known, exec, shed>> /\ UNCHANGED sessionVars
  /\ Answered \/ Trouble

(* A step of a deployment that keeps what a deployment holds keeps Inv.      *)
LEMMA DeployKeeps ==
  ASSUME Inv, DeployFrame, TypedDeploys', started' \in {started, started + 1}, Fresh \/ started' = started,
         \/ call' = NoCall /\ said'.tool = "deploy" /\ said'.is # "built"
         \/ call'.tool = "deploy" /\ call'.pc # "poll" /\ Shape(call)' /\ Starts(call)' /\ Clears(call)' /\ said' = said
  PROVE  Inv'
<1> USE DEF DeployFrame
<1>1. known = "id" /\ said = None
  BY DEF Inv, Goes, Silent, Idle
<1>2. Goes(call)' /\ Books(call)' /\ TypedWizard' /\ trouble' \in 0 .. MaxTrouble[task']
  BY <1>1, BooksStand, Counted, NothingIs
<1>3. TypedRuns' /\ (started <= 1 + shed)'
  <2>1. TypedRuns /\ started <= 1 + shed
    BY DEF Inv, Typed, Starts
  <2> QED BY <2>1 DEF TypedRuns, Fresh
<1>4. TypedStudio'
  BY <1>2 DEF Inv, Typed, TypedStudio
<1>5. DoneIsDone' /\ RunReportIsTrue' /\ VerifiedIsSound'
  <2>1. said' = None \/ (said'.is # "built" /\ said'.tool \notin {"run", "verify"})
    BY <1>1
  <2> QED BY <2>1, SaysNothingOf
<1>6. Shape(call)' /\ Starts(call)' /\ Weighs(call)' /\ Clears(call)' /\ Silent'
  <2>1. CASE call' = NoCall
    BY <1>3, <2>1, Rests
  <2>2. CASE call'.tool = "deploy"
    BY <1>1, <2>2, NothingIs DEF Weighs, Silent
  <2> QED BY <2>1, <2>2
<1> QED BY <1>2, <1>3, <1>4, <1>5, <1>6 DEF Inv, Typed

(* An error, or a report, of a deployment.                                   *)
LEMMA DeployThrows ==
  ASSUME call.tool = "deploy"
  PROVE  Thrown.tool = "deploy" /\ Thrown.is = "error"
  BY DEF Thrown

(* What Inv says of a deployment that is under way.                          *)
LEMMA Deploying ==
  ASSUME Inv, call.tool = "deploy"
  PROVE  /\ call \in DeployCalls \cup ReleaseCalls
         /\ call.pc \in {"saved", "public"} => call \in ReleaseCalls /\ kind = "widget" /\ dep.is = call.snap.live
         /\ call.pc \notin {"saved", "public"} => call \in DeployCalls
         /\ call.pc \notin {"watch", "saved", "public"} => Fresh
         /\ call.pc # "unsupported" => call.by \in {"router", "managed"}
         /\ call.pc \in {"enabled?", "enable", "enabled!"} => kind = "widget"
         /\ call.pc = "artifact" => kind = "mcpServer"
         /\ call.edits \in Nat /\ call.edits <= edits /\ started \in 0 .. 3 /\ started <= 1 + shed
         /\ known = "id" /\ said = None /\ TypedDeploys
<1>1. Shape(call) /\ Starts(call) /\ Clears(call)
  BY DEF Inv
<1>2. /\ call \in DeployCalls \cup ReleaseCalls
      /\ call.pc \in {"saved", "public"} => call \in ReleaseCalls
      /\ call.pc \notin {"saved", "public"} => call \in DeployCalls
  BY <1>1, ShapeOf
<1>3. started \in 0 .. 3
  BY DEF Inv, Typed, TypedRuns
<1>4. call.edits \in Nat /\ call.by \in {"router", "managed", "unsupported"}
  BY <1>2 DEF DeployCalls, ReleaseCalls
<1>5. known = "id" /\ said = None /\ TypedDeploys
  BY DEF Inv, Goes, Silent, Idle, Typed
<1> QED BY <1>1, <1>2, <1>3, <1>4, <1>5 DEF Starts, Clears

LEMMA UnsupportedOptionKeeps ==
  ASSUME Inv, UnsupportedOption, UNCHANGED <<sessionVars, exec, shed>>
  PROVE  Inv'
<1>1. DeployFrame /\ UNCHANGED <<started, deployVars>>
  BY DEF UnsupportedOption, DeployFrame, At, Answered
<1>2. call' = NoCall /\ said' = Thrown
  BY DEF UnsupportedOption, Return
<1> QED BY <1>1, <1>2, Deploying, DeployThrows, DeployKeeps DEF DeployFrame, TypedDeploys, deployVars

(* A deployment goes on to its next step.                                    *)
LEMMA DeployMoves ==
  ASSUME Inv, DeployFrame, UNCHANGED <<started, dep>>, TypedDeploys',
         call.pc \in {"gate", "enabled?", "enable", "enabled!", "artifact"},
         NEW pc \in {"enable", "enabled!", "post"}, Goto(pc), pc # "post" => kind = "widget",
         kind = "workflow" => flaws \cap GateFinds = {} \/ call.force = "yes"
  PROVE  Inv'
<1>1. call' = [call EXCEPT !.pc = pc] /\ said' = said /\ call \in DeployCalls
  BY Deploying DEF DeployFrame, Goto
<1>2. call' \in DeployCalls /\ call'.tool = "deploy" /\ call'.pc = pc
  BY <1>1 DEF DeployCalls
<1>3. Clears(call)'
  BY <1>1, <1>2, Deploying DEF Clears, DeployCalls, DeployFrame
<1>4. Starts(call)'
  BY <1>1, <1>2, Deploying DEF Starts, DeployCalls, DeployFrame, Fresh
<1> QED BY <1>1, <1>2, <1>3, <1>4, DeployKeeps DEF Shape

(* The gate passes what it finds nothing in, or notes that it did not look.  *)
LEMMA GateKeeps ==
  ASSUME Inv, Gate, UNCHANGED <<sessionVars, exec, shed>>
  PROVE  Inv'
<1>1. DeployFrame /\ UNCHANGED <<started, deployVars>> /\ call.pc = "gate"
  BY DEF Gate, DeployFrame, At, Answered
<1>2. TypedDeploys' /\ call \in DeployCalls
  BY <1>1, Deploying DEF DeployFrame, TypedDeploys, deployVars
<1>3. CASE Return([tool |-> "deploy", is |-> "PREFLIGHT"])
  BY <1>1, <1>2, <1>3, DeployKeeps DEF Return
<1>4. CASE stored > 0 /\ (flaws \cap GateFinds = {} \/ call.force = "yes") /\ Goto("post")
  BY <1>1, <1>2, <1>4, DeployMoves DEF deployVars
<1>5. CASE call' = [call EXCEPT !.pc = "post", !.hole = "yes"] /\ UNCHANGED said
  <2>1. call' \in DeployCalls /\ call'.tool = "deploy" /\ call'.pc = "post" /\ call'.hole = "yes"
    BY <1>2, <1>5 DEF DeployCalls, YesNo
  <2>2. Clears(call)'
    BY <1>1, <1>2, <1>5, <2>1, Deploying DEF Clears, DeployCalls, DeployFrame
  <2>3. Starts(call)'
    BY <1>1, <2>1, Deploying DEF Starts, DeployFrame, Fresh
  <2> QED BY <1>1, <1>2, <1>5, <2>1, <2>2, <2>3, DeployKeeps DEF Shape
<1> QED BY <1>3, <1>4, <1>5 DEF Gate

(* The record is posted once; the answer, or what came of it, is the call's. *)
LEMMA PostDeployKeeps ==
  ASSUME Inv, NEW empty, PostDeploy(empty), empty \in BOOLEAN, empty => Queued, UNCHANGED <<sessionVars, exec, shed>>
  PROVE  Inv'
<1>1. DeployFrame /\ UNCHANGED widget /\ call.pc = "post"
  BY DEF PostDeploy, DeployFrame, At, Answered
<1>2. call \in DeployCalls /\ Fresh /\ call.by \in {"router", "managed"} /\ TypedDeploys
  BY <1>1, Deploying DEF DeployFrame
<1>3. ASSUME Provisions(call.by) \/ UNCHANGED <<dep, started>>
      PROVE  TypedDeploys' /\ started' \in {started, started + 1}
  BY <1>1, <1>2, <1>3 DEF Provisions, TypedDeploys, DepStates
<1>4. CASE UNCHANGED <<dep, started>> /\ Return(Thrown)
  BY <1>1, <1>2, <1>3, <1>4, DeployThrows, DeployKeeps DEF Return, DeployFrame
<1>5. CASE Provisions(call.by) /\ Return(Thrown)
  BY <1>1, <1>2, <1>3, <1>5, DeployThrows, DeployKeeps DEF Return, DeployFrame
<1>6. CASE Provisions(call.by) /\ Queued
  BY <1>1, <1>2, <1>3, <1>6, DeployKeeps DEF Return, Queued
<1>7. CASE Provisions(call.by) /\ Goto("watch")
  <2>1. call' = [call EXCEPT !.pc = "watch"] /\ said' = said
    BY <1>7 DEF Goto
  <2>2. call' \in DeployCalls /\ call'.tool = "deploy" /\ call'.pc = "watch"
    BY <1>2, <2>1 DEF DeployCalls
  <2>3. Clears(call)'
    BY <1>1, <1>2, <2>1, <2>2, Deploying DEF Clears, DeployCalls, DeployFrame
  <2>4. Starts(call)'
    BY <1>1, <1>2, <1>7, <2>2 DEF Starts, DeployFrame, Fresh, Provisions
  <2> QED BY <1>1, <1>2, <1>3, <1>7, <2>1, <2>2, <2>3, <2>4, DeployKeeps DEF Shape
<1> QED BY <1>4, <1>5, <1>6, <1>7 DEF PostDeploy

LEMMA DeploysKeep ==
  ASSUME Inv, DeployWorkflow \/ DeployApplication \/ DeployModel, UNCHANGED <<sessionVars, exec, shed>>
  PROVE  Inv'
<1>1. CASE PostDeploy(Queued)
  <2>1. Queued \in BOOLEAN
    BY DEF Queued, Return
  <2> QED BY <1>1, <2>1, PostDeployKeeps
<1>2. CASE PostDeploy(FALSE)
  BY <1>2, PostDeployKeeps
<1> QED BY <1>1, <1>2 DEF DeployWorkflow, DeployApplication, DeployModel

LEMMA ShownIs ==
  ASSUME TypedDeploys
  PROVE  Shown.phase \in Phases
  BY DEF TypedDeploys, DepStates, Shown, Phase, Phases

LEMMA WatchDeployKeeps ==
  ASSUME Inv, WatchDeploy \/ WatchDeployFailed \/ WatchDeployOver, UNCHANGED <<sessionVars, exec, shed>>
  PROVE  Inv'
<1>1. DeployFrame /\ UNCHANGED <<started, deployVars>> /\ call.pc = "watch"
  BY DEF WatchDeploy, WatchDeployFailed, WatchDeployOver, DeployFrame, At, Answered
<1>2. call \in DeployCalls /\ TypedDeploys /\ TypedDeploys'
  BY <1>1, Deploying DEF DeployFrame, TypedDeploys, deployVars
<1>3. CASE Return(Thrown)
  BY <1>1, <1>2, <1>3, DeployThrows, DeployKeeps DEF Return, DeployFrame
<1>4. CASE \E phase, over : Return([tool |-> "deploy", is |-> "reported", phase |-> phase, id |-> "yes", timedOut |-> over])
  BY <1>1, <1>2, <1>4, DeployKeeps DEF Return
<1>5. CASE call' = [call EXCEPT !.snap = Shown.phase] /\ UNCHANGED said
  <2>1. call' \in DeployCalls /\ call'.tool = "deploy" /\ call'.pc = "watch"
    BY <1>1, <1>2, <1>5, ShownIs DEF DeployCalls
  <2>2. Clears(call)'
    BY <1>1, <1>2, <1>5, <2>1, Deploying DEF Clears, DeployCalls, DeployFrame
  <2>3. Starts(call)'
    BY <1>1, <2>1, Deploying DEF Starts, DeployFrame
  <2> QED BY <1>1, <1>2, <1>5, <2>1, <2>2, <2>3, DeployKeeps DEF Shape
<1> QED BY <1>3, <1>4, <1>5 DEF WatchDeploy, WatchDeployFailed, WatchDeployOver

LEMMA EnableWidgetKeeps ==
  ASSUME Inv, EnableWidget, UNCHANGED <<sessionVars, exec, shed>>
  PROVE  Inv'
<1>1. DeployFrame /\ UNCHANGED <<started, dep>> /\ call.pc \in {"enabled?", "enable", "enabled!"}
  BY DEF EnableWidget, DeployFrame, At, Answered
<1>2. call \in DeployCalls /\ TypedDeploys
  BY <1>1, Deploying DEF DeployFrame
<1>3. TypedDeploys'
  BY <1>1, <1>2 DEF EnableWidget, TypedDeploys, Widgets, YesNo
<1>4. CASE Return(Thrown)
  BY <1>1, <1>3, <1>4, DeployThrows, DeployKeeps DEF Return, DeployFrame
<1>5. CASE \E pc \in {"enable", "enabled!", "post"} : Goto(pc)
  <2>1. kind = "widget"
    BY <1>1, Deploying DEF DeployFrame
  <2> QED BY <1>1, <1>3, <1>5, <2>1, DeployMoves
<1> QED BY <1>4, <1>5 DEF EnableWidget

LEMMA PostWidgetKeeps ==
  ASSUME Inv, PostWidget, UNCHANGED <<sessionVars, exec, shed>>
  PROVE  Inv'
<1>1. DeployFrame /\ call.pc = "post" /\ kind = "widget"
  BY DEF PostWidget, DeployFrame, At, Answered
<1>2. /\ call \in DeployCalls /\ TypedDeploys /\ Fresh /\ call.by \in {"router", "managed"}
      /\ edits \in Nat /\ started \in Nat
  BY <1>1, Deploying, Counted DEF DeployFrame
<1>3. TypedDeploys' /\ started' \in {started, started + 1}
  BY <1>2 DEF PostWidget, TypedDeploys, DepStates, Widgets
<1>4. CASE Return(Thrown)
  BY <1>1, <1>2, <1>3, <1>4, DeployThrows, DeployKeeps DEF Return, DeployFrame
<1>5. CASE ~Return(Thrown)
  <2>1. PICK is \in {"running", "failed"} :
          /\ dep'.is = is
          /\ call' = [call EXCEPT !.pc = "saved", !.edits = edits, !.snap = [live |-> is, saved |-> None]]
          /\ said' = said
    BY <1>5 DEF PostWidget
  <2>2. call' \in ReleaseCalls /\ call'.tool = "deploy" /\ call'.pc = "saved" /\ call'.snap.live = is /\ call'.edits = edits
    BY <1>2, <2>1 DEF DeployCalls, ReleaseCalls, Releases
  <2>3. Clears(call)'
    BY <1>1, <1>2, <2>1, <2>2 DEF Clears, DeployFrame, ReleaseCalls
  <2>4. Starts(call)'
    BY <1>1, <1>2, <1>3, <2>2 DEF Starts, DeployFrame, Fresh
  <2> QED BY <1>1, <1>2, <1>3, <2>1, <2>2, <2>3, <2>4, DeployKeeps DEF Shape
<1> QED BY <1>4, <1>5

(* What is read back is the widget, until somebody changes it.               *)
LEMMA ReadSavedKeeps ==
  ASSUME Inv, ReadSaved, UNCHANGED <<sessionVars, exec, shed>>
  PROVE  Inv'
<1>1. DeployFrame /\ call.pc = "saved" /\ UNCHANGED <<started, deployVars, said>>
  BY DEF ReadSaved, DeployFrame, At, Answered
<1>2. call \in ReleaseCalls /\ TypedDeploys /\ TypedDeploys' /\ kind = "widget" /\ dep.is = call.snap.live
  BY <1>1, Deploying DEF DeployFrame, TypedDeploys, deployVars
<1>3. call.snap \in Releases /\ call.snap.saved = None /\ widget \in Widgets
  <2>1. call.snap.saved = None
    BY <1>1 DEF Inv, Clears, DeployFrame
  <2> QED BY <1>2, <2>1 DEF ReleaseCalls, TypedDeploys
<1>4. /\ call' \in ReleaseCalls /\ call'.tool = "deploy" /\ call'.pc = "public" /\ call'.snap.live = call.snap.live
      /\ call'.snap.saved \in {None, widget} /\ call'.edits = call.edits /\ call'.by = call.by
  <2>1. CASE call' = [call EXCEPT !.pc = "public", !.snap.saved = widget]
    BY <1>2, <1>3, <2>1 DEF ReleaseCalls, Releases
  <2>2. CASE call' = [call EXCEPT !.pc = "public"]
    BY <1>2, <1>3, <2>2 DEF ReleaseCalls, Releases
  <2> QED BY <2>1, <2>2 DEF ReadSaved
<1>5. Clears(call)'
  BY <1>1, <1>2, <1>4, Deploying DEF Clears, DeployFrame, deployVars
<1>6. Starts(call)'
  BY <1>1, <1>4, Deploying DEF Starts, DeployFrame
<1> QED BY <1>1, <1>2, <1>4, <1>5, <1>6, DeployKeeps DEF Shape

LEMMA ReadPublicKeeps ==
  ASSUME Inv, ReadPublic, UNCHANGED <<sessionVars, exec, shed>>
  PROVE  Inv'
<1>1. DeployFrame /\ call.pc = "public" /\ UNCHANGED <<started, deployVars>>
  BY DEF ReadPublic, DeployFrame, At
<1>2. TypedDeploys'
  BY <1>1, Deploying DEF DeployFrame, TypedDeploys, deployVars
<1>3. call' = NoCall /\ said'.tool = "deploy" /\ said'.is = "reported"
  BY DEF ReadPublic, Return
<1> QED BY <1>1, <1>2, <1>3, DeployKeeps

LEMMA DeployMcpKeeps ==
  ASSUME Inv, DeployMcp, UNCHANGED <<sessionVars, exec, shed>>
  PROVE  Inv'
<1>1. DeployFrame /\ UNCHANGED widget /\ call.pc \in {"artifact", "post"} /\ kind = "mcpServer"
  BY DEF DeployMcp, DeployFrame, At, Answered
<1>2. call \in DeployCalls /\ Fresh /\ TypedDeploys
  BY <1>1, Deploying DEF DeployFrame
<1>3. CASE UNCHANGED <<dep, started>> /\ (Return(Thrown) \/ (Goto("post") /\ call.pc = "artifact"))
  <2>1. TypedDeploys'
    BY <1>1, <1>2, <1>3 DEF TypedDeploys
  <2>2. CASE Return(Thrown)
    BY <1>1, <1>3, <2>1, <2>2, DeployThrows, DeployKeeps DEF Return, DeployFrame
  <2>3. CASE Goto("post") /\ call.pc = "artifact"
    BY <1>1, <1>3, <2>1, <2>3, DeployMoves
  <2> QED BY <1>3, <2>2, <2>3
<1>4. CASE Provisions("router")
  <2>1. TypedDeploys' /\ started' = started + 1
    BY <1>1, <1>2, <1>4 DEF Provisions, TypedDeploys, DepStates
  <2>2. CASE Return(Thrown)
    BY <1>1, <1>2, <2>1, <2>2, DeployThrows, DeployKeeps DEF Return, DeployFrame
  <2>3. CASE ~Return(Thrown)
    <3>1. started' # started
      BY <2>1, Counted
    <3>2. \E phase : Return([tool |-> "deploy", is |-> "reported", phase |-> phase, id |-> "yes", timedOut |-> "unsaid"])
      BY <2>3, <3>1, Zenon DEF DeployMcp
    <3>3. call' = NoCall /\ said'.tool = "deploy" /\ said'.is = "reported"
      BY <3>2 DEF Return
    <3> QED BY <1>1, <1>2, <2>1, <3>3, DeployKeeps
  <2> QED BY <2>2, <2>3
<1>5. CASE ~Provisions("router")
  <2>1. UNCHANGED <<dep, started>>
    BY <1>5, Zenon DEF DeployMcp
  <2>2. Return(Thrown) \/ (Goto("post") /\ call.pc = "artifact")
    BY <1>5 DEF DeployMcp, At
  <2> QED BY <1>3, <2>1, <2>2
<1> QED BY <1>4, <1>5

(* Every step of swfte_deploy.                                               *)
LEMMA DeployStepKeeps ==
  ASSUME Inv, DeployStep, UNCHANGED <<sessionVars, exec, shed>>
  PROVE  Inv'
<1>1. CASE UnsupportedOption
  <2>1. DeployFrame /\ UNCHANGED <<started, deployVars>> /\ call' = NoCall /\ said' = Thrown
    BY <1>1 DEF UnsupportedOption, DeployFrame, At, Answered, Return
  <2>2. TypedDeploys'
    BY <2>1, Deploying DEF DeployFrame, TypedDeploys, deployVars
  <2> QED BY <2>1, <2>2, DeployThrows, DeployKeeps DEF DeployFrame
<1> QED BY <1>1, GateKeeps, DeploysKeep, WatchDeployKeeps, EnableWidgetKeeps, PostWidgetKeeps, ReadSavedKeeps,
           ReadPublicKeeps, DeployMcpKeeps
        DEF DeployStep

-----------------------------------------------------------------------------
(* Runs, of swfte_run and of swfte_verify.                                   *)

(* A step of one of the two.                                                 *)
RunFrame ==
  /\ call.tool \in {"run", "verify"}
  /\ UNCHANGED <<task, kind, stored, flaws, standing, edits, calls, known>> /\ UNCHANGED <<sessionVars, deployVars>>
  /\ Answered \/ Trouble

(* A step of a run that keeps what a run, or a verification, holds.          *)
LEMMA RunKeeps ==
  ASSUME Inv, RunFrame, TypedRuns', started' <= 1 + shed',
         \/ call' = NoCall /\ DoneIsDone' /\ RunReportIsTrue' /\ VerifiedIsSound'
         \/ call'.tool \in {"run", "verify"} /\ call'.pc # "poll" /\ Shape(call)' /\ Starts(call)' /\ Weighs(call)' /\ said' = said
  PROVE  Inv'
<1> USE DEF RunFrame
<1>1. known = "id" /\ said = None
  BY DEF Inv, Goes, Silent, Idle
<1>2. Goes(call)' /\ Books(call)' /\ TypedWizard' /\ trouble' \in 0 .. MaxTrouble[task']
  BY <1>1, BooksStand, Counted, NothingIs
<1>3. TypedDeploys'
  BY DEF Inv, Typed, TypedDeploys, deployVars
<1>4. TypedStudio'
  BY <1>2 DEF Inv, Typed, TypedStudio
<1>5. DoneIsDone' /\ RunReportIsTrue' /\ VerifiedIsSound'
  <2>1. said' = None => DoneIsDone' /\ RunReportIsTrue' /\ VerifiedIsSound'
    BY SaysNothingOf
  <2> QED BY <1>1, <2>1
<1>6. Shape(call)' /\ Starts(call)' /\ Weighs(call)' /\ Clears(call)' /\ Silent'
  <2>1. CASE call' = NoCall
    BY <2>1, Rests
  <2>2. CASE call'.tool \in {"run", "verify"}
    BY <1>1, <2>2, NothingIs DEF Clears, Silent
  <2> QED BY <2>1, <2>2
<1> QED BY <1>2, <1>3, <1>4, <1>5, <1>6 DEF Inv, Typed

(* What Inv says of a run that is under way.                                 *)
LEMMA Running ==
  ASSUME Inv, call.tool \in {"run", "verify"}
  PROVE  /\ call.tool = "run" => call \in RunCalls
         /\ call.tool = "verify" => call \in VerifyCalls(call.checks)
         /\ call.route \in Routes /\ call.attempt \in Tries
         /\ call.tool = "run" /\ call.pc = "connections" => Fresh /\ call.attempt = 0
         /\ call.pc = "start" => IF kind = "agent" THEN started <= call.attempt /\ shed = call.attempt ELSE started = shed /\ Again(call)
         /\ call.pc = "watch" => kind = "workflow" /\ started = 1 + shed /\ Again(call)
         /\ started <= 1 + shed
         /\ known = "id" /\ said = None /\ TypedRuns
<1>1. Shape(call) /\ Starts(call)
  BY DEF Inv
<1>2. /\ call.tool = "run" => call \in RunCalls
      /\ call.tool = "verify" => call \in VerifyCalls(call.checks)
  BY <1>1, ShapeOf
<1>3. call.route \in Routes /\ call.attempt \in Tries
  BY <1>2 DEF RunCalls, VerifyCalls
<1>4. known = "id" /\ said = None /\ TypedRuns
  BY DEF Inv, Goes, Silent, Idle, Typed
<1> QED BY <1>1, <1>2, <1>3, <1>4 DEF Starts

(* An error ends the call.                                                   *)
LEMMA RunThrows ==
  ASSUME Inv, RunFrame, TypedRuns', started' <= 1 + shed', Return(Thrown)
  PROVE  Inv'
<1>1. call' = NoCall /\ said' = [tool |-> call.tool, is |-> "error"]
  BY DEF Return, Thrown
<1>2. DoneIsDone' /\ RunReportIsTrue' /\ VerifiedIsSound'
  BY <1>1 DEF DoneIsDone, RunReportIsTrue, VerifiedIsSound
<1> QED BY <1>1, <1>2, RunKeeps

(* A run is over.                                                            *)
LEMMA RanKeeps ==
  ASSUME Inv, RunFrame, TypedRuns', started' <= 1 + shed', call.pc \in {"start", "watch"},
         NEW is, NEW ok, NEW degraded, NEW nodes, Ran(Outcome(is, ok, degraded, nodes)), is # "built",
         call.tool = "verify" => Outcome(is, ok, degraded, nodes) \in Outcomes,
         call.tool = "run" /\ kind = "workflow" /\ ok = "yes" => started' > 0 /\ exec'.is = "succeeded",
         nodes = "fine" => call.pc = "watch" /\ exec.nodes = "fine"
  PROVE  Inv'
<1>1. CASE call.tool = "run"
  <2>1. call' = NoCall /\ said' = [tool |-> "run", is |-> is, ok |-> ok]
    BY <1>1 DEF Ran, Return, Outcome
  <2>2. DoneIsDone' /\ VerifiedIsSound'
    BY <2>1 DEF DoneIsDone, VerifiedIsSound
  <2>3. RunReportIsTrue'
    BY <1>1, <2>1 DEF RunReportIsTrue, RunFrame
  <2> QED BY <2>1, <2>2, <2>3, RunKeeps
<1>2. CASE call.tool = "verify"
  <2> DEFINE ran == Outcome(is, ok, degraded, nodes)
  <2>1. call \in VerifyCalls(call.checks) /\ call.asks = <<"run">>
    BY <1>2, Running DEF Inv, Starts
  <2>2. call' = [call EXCEPT !.pc = "asks", !.ran = ran] /\ said' = said /\ ran \in Outcomes /\ ran # None
    BY <1>2, NoneAssumption DEF Ran
  <2>3. ran.nodes = nodes
    BY DEF Outcome
  <2> HIDE DEF ran
  <2>4. (call \in VerifyCalls(call.checks))' /\ call'.tool = "verify" /\ call'.pc = "asks"
    BY <2>1, <2>2 DEF VerifyCalls, RunFrame
  <2>5. Starts(call)'
    BY <2>1, <2>2, <2>4 DEF Starts, VerifyCalls
  <2>6. Weighs(call)'
    <3>1. Weighs(call)
      BY DEF Inv
    <3>2. \A f : Doubts(f, call) => Doubts(f, call)'
      BY <2>1, <2>2 DEF Doubts, VerifyCalls
    <3> QED BY <1>2, <2>1, <2>2, <2>3, <2>4, <3>1, <3>2 DEF Weighs, VerifyCalls, RunFrame
  <2> QED BY <2>2, <2>4, <2>5, <2>6, RunKeeps DEF Shape
<1> QED BY <1>1, <1>2 DEF RunFrame

LEMMA BrokeKeeps ==
  ASSUME Inv, RunFrame, TypedRuns', started' <= 1 + shed', call.pc \in {"start", "watch"}, Broke
  PROVE  Inv'
<1>1. CASE call.tool = "verify" /\ kind = "workflow"
  <2>1. Ran(Outcome("error", "no", "no", "none"))
    BY <1>1 DEF Broke
  <2>2. Outcome("error", "no", "no", "none") \in Outcomes
    BY <1>1, Running DEF Outcome, Outcomes, Routes
  <2> QED BY <2>1, <2>2, RanKeeps
<1>2. CASE ~(call.tool = "verify" /\ kind = "workflow")
  <2>1. Return(Thrown)
    BY <1>2 DEF Broke
  <2> QED BY <2>1, RunThrows
<1> QED BY <1>1, <1>2

(* The call is the same, on its way to the end of a run.                     *)
Carries ==
  /\ call'.tool = call.tool
  /\ call.tool = "run" => (call \in RunCalls)'
  /\ call.tool = "verify" =>
       /\ (call \in VerifyCalls(call.checks))'
       /\ call'.read = call.read /\ call'.checks = call.checks /\ call'.asks = call.asks /\ call'.ran = call.ran
       /\ call'.edits = call.edits

LEMMA RunMoves ==
  ASSUME Inv, RunFrame, TypedRuns', started' <= 1 + shed', said' = said, Carries,
         call.pc \in {"connections", "start", "watch"}, call'.pc \in {"start", "watch"},
         call'.pc = "start" => IF kind = "agent" THEN started' <= call'.attempt /\ shed' = call'.attempt ELSE started' = shed' /\ Again(call)',
         call'.pc = "watch" =>
           /\ kind = "workflow" /\ started' = 1 + shed' /\ Again(call)'
           /\ call.tool = "verify" /\ call'.route # "invoke" /\ call.edits = edits /\ "node-fails" \in flaws =>
                exec'.nodes = "one-fails"
  PROVE  Inv'
<1> USE DEF Carries, RunFrame
<1>1. Shape(call)'
  BY DEF Shape
<1>2. Starts(call)'
  <2>1. Starts(call)
    BY DEF Inv
  <2>2. call.tool = "verify" => call.pc \in {"start", "watch"}
    BY Running DEF VerifyCalls
  <2> QED BY <2>1, <2>2, Running DEF Starts
<1>3. Weighs(call)'
  <2>1. Weighs(call)
    BY DEF Inv
  <2>2. CASE call.tool = "verify"
    <3>1. call.pc \in {"start", "watch"} /\ call.asks = <<"run">> /\ call.ran = None
      BY <2>2, Running DEF VerifyCalls, Inv, Starts
    <3>2. "nodes" \notin DOMAIN call.checks
      BY <2>1, <2>2, <3>1 DEF Weighs
    <3>3. CheckFor["node-fails"] = "nodes"
      BY DEF CheckFor, FlawsOf
    <3>4. \A f : Doubts(f, call) => Doubts(f, call)'
      BY <2>2, <3>2, <3>3 DEF Doubts
    <3> QED BY <2>1, <2>2, <3>1, <3>2, <3>4 DEF Weighs
  <2> QED BY <2>2 DEF Weighs
<1> QED BY <1>1, <1>2, <1>3, RunKeeps

LEMMA MissingConnectionsKeeps ==
  ASSUME Inv, missingConnections, UNCHANGED <<sessionVars, widget>>
  PROVE  Inv'
<1>1. RunFrame /\ call.tool = "run" /\ call.pc = "connections" /\ UNCHANGED execVars
  BY DEF missingConnections, RunFrame, At, Answered, deployVars
<1>2. call \in RunCalls /\ Fresh /\ call.attempt = 0 /\ started <= 1 + shed /\ TypedRuns
  BY <1>1, Running
<1>3. TypedRuns' /\ started' <= 1 + shed'
  BY <1>1, <1>2 DEF TypedRuns, execVars
<1>4. CASE Goto("start")
  <2>1. call' = [call EXCEPT !.pc = "start"] /\ said' = said
    BY <1>4 DEF Goto
  <2>2. Carries /\ call'.pc = "start" /\ call'.attempt = 0
    BY <1>1, <1>2, <2>1 DEF Carries, RunCalls
  <2> QED BY <1>1, <1>2, <1>3, <2>1, <2>2, RunMoves DEF Fresh, Again, execVars
<1>5. CASE \E missing : Return([tool |-> "run", is |-> "MISSING_CONNECTIONS", missing |-> missing])
  <2>1. PICK missing : call' = NoCall /\ said' = [tool |-> "run", is |-> "MISSING_CONNECTIONS", missing |-> missing]
    BY <1>5 DEF Return
  <2>2. DoneIsDone' /\ RunReportIsTrue' /\ VerifiedIsSound'
    BY <2>1 DEF DoneIsDone, RunReportIsTrue, VerifiedIsSound
  <2> QED BY <1>1, <1>3, <2>1, <2>2, RunKeeps
<1> QED BY <1>4, <1>5 DEF missingConnections

(* A step of a verification leaves what the call is made of as it is.        *)
LEMMA VerifyCallStays ==
  ASSUME kind' = kind, call' \in VerifyCalls(call'.checks)
  PROVE  (call \in VerifyCalls(call.checks))'
  BY DEF VerifyCalls, Defective

(* It may go another way, and have one thing less to ask.                    *)
LEMMA VerifyCallGoes ==
  ASSUME NEW c, NEW checks, c \in VerifyCalls(checks), NEW route \in Routes
  PROVE  [c EXCEPT !.route = route, !.pc = "start"] \in VerifyCalls(checks)
  BY DEF VerifyCalls

LEMMA VerifyCallAsks ==
  ASSUME NEW c, NEW before, c \in VerifyCalls(before), NEW asks, asks \in Left[kind], NEW checks
  PROVE  /\ [c EXCEPT !.asks = asks] \in VerifyCalls(before)
         /\ [c EXCEPT !.checks = checks, !.asks = asks] \in VerifyCalls(checks)
         /\ [c EXCEPT !.asks = asks].checks = before
         /\ [c EXCEPT !.checks = checks, !.asks = asks].checks = checks
<1>1. [c EXCEPT !.asks = asks] \in VerifyCalls(before) /\ [c EXCEPT !.asks = asks].checks = before
  BY DEF VerifyCalls
<1>2. [c EXCEPT !.checks = checks, !.asks = asks] \in VerifyCalls(checks)
  BY DEF VerifyCalls
<1>3. [c EXCEPT !.checks = checks, !.asks = asks].checks = checks
  BY DEF VerifyCalls
<1> QED BY <1>1, <1>2, <1>3

(* What is caught on the way to an execution: the next way is tried, or not. *)
LEMMA CaughtKeeps ==
  ASSUME Inv, RunFrame, UNCHANGED <<exec, started>>, kind = "workflow", NEW err, Caught(err),
         \/ call.pc = "start" /\ shed' = shed
         \/ /\ call.pc = "watch" /\ err.path # "invoke"
            /\ shed' = shed + IF err.status = 409 /\ call.route = "execute" THEN 1 ELSE 0
  PROVE  Inv'
<1>1. /\ call.pc = "start" => started = shed /\ Again(call) /\ shed' = shed
      /\ call.pc = "watch" => started = 1 + shed /\ Again(call) /\ shed' \in {shed, shed + 1}
      /\ TypedRuns
  <2>1. /\ call.pc = "start" => started = shed /\ Again(call)
        /\ call.pc = "watch" => started = 1 + shed /\ Again(call)
        /\ TypedRuns
    BY Running DEF RunFrame
  <2>2. shed \in 0 .. 3
    BY <2>1 DEF TypedRuns
  <2> QED BY <2>1, <2>2
<1>2. TypedRuns' /\ started' <= 1 + shed'
  BY <1>1 DEF TypedRuns, Again
<1>3. CASE Broke
  BY <1>2, <1>3, BrokeKeeps
<1>4. CASE ~Broke
  <2>1. PICK route \in Routes : call' = [call EXCEPT !.route = route, !.pc = "start"] /\ said' = said
    BY <1>4 DEF Caught, Routes
  <2>2. /\ \/ call.route = "invoke" /\ isNoPublishedSnapshot(err) /\ call' = [call EXCEPT !.route = "execute", !.pc = "start"]
           \/ call.route = "execute" /\ err.status = 409 /\ call' = [call EXCEPT !.route = "test", !.pc = "start"]
    BY <1>4 DEF Caught
  <2>3. Carries /\ call'.pc = "start" /\ (call.route = "execute" => call'.route = "test")
    <3>1. CASE call.tool = "run"
      <4>1. call \in RunCalls
        BY <3>1, Running
      <4> QED BY <2>1, <2>2, <3>1, <4>1 DEF Carries, RunFrame, RunCalls
    <3>2. CASE call.tool = "verify"
      <4>1. call \in VerifyCalls(call.checks) /\ kind' = kind
        BY <3>2, Running DEF RunFrame
      <4>2. (call \in VerifyCalls(call.checks))'
        <5>1. call' \in VerifyCalls(call.checks)
          BY <2>1, <4>1, VerifyCallGoes
        <5>2. call'.checks = call.checks
          BY <5>1 DEF VerifyCalls
        <5> QED BY <4>1, <5>1, <5>2, VerifyCallStays
      <4>3. call' = [call EXCEPT !.route = route, !.pc = "start"]
        BY <2>1
      <4>4. call.route = "execute" => call'.route = "test"
        BY <2>2, <4>1 DEF VerifyCalls
      <4> QED BY <3>2, <4>1, <4>2, <4>3, <4>4 DEF Carries, VerifyCalls
    <3> QED BY <3>1, <3>2 DEF RunFrame
  <2>4. started' = shed' /\ Again(call)'
    <3>1. CASE call.pc = "start"
      <4>1. call.route # "test" => shed = 0
        BY <1>1, <3>1 DEF Again
      <4>2. call.route # "test"
        BY <2>2
      <4> QED BY <1>1, <3>1, <4>1, <4>2 DEF Again
    <3>2. CASE call.pc = "watch"
      <4>1. call.route = "execute" /\ err.status = 409
        BY <2>2, <3>2 DEF isNoPublishedSnapshot
      <4>2. shed = 0 /\ started = 1 /\ shed' = 1
        BY <1>1, <3>2, <4>1 DEF Again
      <4> QED BY <2>3, <4>1, <4>2 DEF Again
    <3> QED BY <3>1, <3>2
  <2> QED BY <1>2, <2>1, <2>3, <2>4, Running, RunMoves DEF RunFrame
<1> QED BY <1>3, <1>4

LEMMA MayFailIs ==
  \A nodes \in MayFail :
    nodes \in {"fine", "one-fails"} /\ (call.route # "invoke" /\ "node-fails" \in flaws => nodes = "one-fails")
  BY DEF MayFail

LEMMA ExecuteAndPollKeeps ==
  ASSUME Inv, executeAndPoll, UNCHANGED <<sessionVars, widget>>
  PROVE  Inv'
<1>1. RunFrame /\ call.pc = "start" /\ kind = "workflow" /\ UNCHANGED shed
  BY DEF executeAndPoll, Starting, RunFrame, Answered, deployVars
<1>2. started = shed /\ Again(call) /\ TypedRuns
  BY <1>1, Running DEF RunFrame
<1>3. ASSUME \/ UNCHANGED <<started, exec>>
             \/ started' = started + 1 /\ \E nodes \in MayFail : exec' = [is |-> "running", nodes |-> nodes]
      PROVE  TypedRuns' /\ started' <= 1 + shed'
  BY <1>1, <1>2, <1>3, MayFailIs DEF TypedRuns, Again, ExecStates
<1>4. CASE UNCHANGED <<started, exec>> /\ \E status \in Refusals : Caught([status |-> status, path |-> call.route])
  BY <1>1, <1>4, CaughtKeeps
<1>5. CASE /\ started' = started + 1
           /\ \E nodes \in MayFail : exec' = [is |-> "running", nodes |-> nodes]
           /\ \/ call' = [call EXCEPT !.pc = "watch", !.snap = None] /\ UNCHANGED said
              \/ Ran(Outcome("NO_EXECUTION_ID", "no", "no", "none"))
  <2>1. CASE Ran(Outcome("NO_EXECUTION_ID", "no", "no", "none"))
    <3>1. Outcome("NO_EXECUTION_ID", "no", "no", "none") \in Outcomes
      BY <1>1, Running DEF Outcome, Outcomes, Routes, RunFrame
    <3> QED BY <1>1, <1>3, <1>5, <2>1, <3>1, RanKeeps
  <2>2. CASE call' = [call EXCEPT !.pc = "watch", !.snap = None] /\ UNCHANGED said
    <3>1. Carries /\ call'.pc = "watch" /\ call'.route = call.route
      BY <1>1, <2>2, Running DEF Carries, RunFrame, RunCalls, VerifyCalls
    <3>2. call.route # "invoke" /\ "node-fails" \in flaws => exec'.nodes = "one-fails"
      BY <1>5, MayFailIs
    <3>3. started' = 1 + shed' /\ Again(call)'
      BY <1>1, <1>2, <1>5, <3>1 DEF Again
    <3> QED BY <1>1, <1>3, <1>5, <2>2, <3>1, <3>2, <3>3, RunMoves
  <2> QED BY <1>5, <2>1, <2>2
<1>6. CASE /\ Broke
           /\ \/ UNCHANGED <<started, exec>>
              \/ started' = started + 1 /\ \E nodes \in MayFail : exec' = [is |-> "running", nodes |-> nodes]
  BY <1>1, <1>3, <1>6, BrokeKeeps
<1> QED BY <1>4, <1>5, <1>6 DEF executeAndPoll

LEMMA WatchKeeps ==
  ASSUME Inv, Watched \/ WatchFailed \/ WatchOver, UNCHANGED <<sessionVars, widget>>
  PROVE  Inv'
<1>1. RunFrame /\ call.pc = "watch" /\ UNCHANGED <<exec, started>> /\ (~WatchFailed => UNCHANGED execVars)
  BY DEF Watched, WatchFailed, WatchOver, Watching, RunFrame, Answered, deployVars, execVars
<1>2. kind = "workflow" /\ started = 1 + shed /\ Again(call) /\ TypedRuns
  BY <1>1, Running DEF RunFrame
<1>9. ~WatchFailed => TypedRuns' /\ started' <= 1 + shed'
  BY <1>1, <1>2 DEF TypedRuns, execVars, Again
<1>3. exec.is \in ExecStates /\ exec.nodes \in {"fine", "one-fails"}
  BY <1>2 DEF TypedRuns
<1>4. ASSUME NEW is \in {"ended", "waits-for-a-person", "still-running"}, NEW ok \in {"yes", "no"},
             NEW nodes \in {"none", "fine", "one-fails"}
      PROVE  Outcome(is, ok, "no", nodes) \in Outcomes
  BY <1>1, Running DEF Outcome, Outcomes, Routes, RunFrame
<1>5. CASE ~WatchFailed /\ Ran(Outcome("ended", IF exec.is = "succeeded" THEN "yes" ELSE "no", "no", exec.nodes))
  BY <1>1, <1>2, <1>3, <1>4, <1>5, <1>9, RanKeeps DEF Again, TypedRuns
<1>6. CASE ~WatchFailed /\ \E is \in {"waits-for-a-person", "still-running"} : Ran(Outcome(is, "no", "no", "none"))
  BY <1>1, <1>2, <1>4, <1>6, <1>9, RanKeeps
<1>7. CASE ~WatchFailed /\ call' = [call EXCEPT !.snap = exec.is] /\ UNCHANGED said
  <2>1. Carries /\ call'.pc = "watch" /\ call'.route = call.route
    BY <1>1, <1>3, <1>7, Running DEF Carries, RunFrame, RunCalls, VerifyCalls
  <2>2. call.tool = "verify" /\ call.route # "invoke" /\ call.edits = edits /\ "node-fails" \in flaws =>
          exec'.nodes = "one-fails"
    BY <1>1 DEF Inv, Weighs, execVars
  <2>3. started' = 1 + shed' /\ Again(call)'
    BY <1>1, <1>2, <1>7, <2>1 DEF execVars, Again
  <2> QED BY <1>1, <1>2, <1>7, <1>9, <2>1, <2>2, <2>3, RunMoves
<1>8. CASE WatchFailed
  <2>1. PICK status \in {404, 409, 500} :
          /\ Caught([status |-> status, path |-> "executions"])
          /\ shed' = shed + IF status = 409 /\ call.route = "execute" THEN 1 ELSE 0
    BY <1>8 DEF WatchFailed
  <2> QED BY <1>1, <1>2, <2>1, CaughtKeeps
<1> QED BY <1>5, <1>6, <1>7, <1>8 DEF Watched, WatchOver

(* A turn is sent again only after an answer that looked like overload.      *)
LEMMA ChatOnceKeeps ==
  ASSUME Inv, chatOnce, UNCHANGED <<sessionVars, widget>>
  PROVE  Inv'
<1>1. RunFrame /\ call.pc = "start" /\ kind = "agent" /\ UNCHANGED exec
  BY DEF chatOnce, Starting, RunFrame, Answered, deployVars
<1>2. /\ started <= call.attempt /\ shed = call.attempt /\ call.attempt \in 0 .. 2 /\ started \in Nat /\ TypedRuns
  BY <1>1, Running, Counted DEF RunFrame, Tries
<1>3. CASE Return(Thrown) /\ UNCHANGED <<started, shed>>
  <2>1. TypedRuns' /\ started' <= 1 + shed'
    BY <1>1, <1>2, <1>3 DEF TypedRuns
  <2> QED BY <1>1, <1>3, <2>1, RunThrows
<1>4. ASSUME NEW is \in {"OK", "EMPTY_RESPONSE", "EMPTY_SHED", "HTTP_504", "TIMEOUT", "error"},
             started' \in {started, started + 1}, shed' = shed + IF is \in Degraded THEN 1 ELSE 0,
             CASE is = "error" -> Broke
               [] is \in Degraded /\ call.attempt < Retries -> call' = [call EXCEPT !.attempt = @ + 1] /\ UNCHANGED said
               [] OTHER -> Ran(Outcome(is, IF is = "OK" THEN "yes" ELSE "no", IF is \in Degraded THEN "yes" ELSE "no", "none"))
      PROVE  Inv'
  <2>1. TypedRuns' /\ started' <= 1 + shed'
    BY <1>1, <1>2, <1>4 DEF TypedRuns
  <2>2. CASE is = "error"
    <3>1. Broke
      BY <1>4, <2>2 DEF Degraded
    <3> QED BY <1>1, <2>1, <3>1, BrokeKeeps
  <2>3. CASE is # "error" /\ is \in Degraded /\ call.attempt < Retries
    <3>1. call' = [call EXCEPT !.attempt = call.attempt + 1] /\ said' = said /\ shed' = shed + 1
      BY <1>4, <2>3
    <3>2. call.attempt + 1 \in Tries
      BY <1>2, <2>3 DEF Tries, Retries
    <3>3. Carries /\ call'.pc = "start" /\ call'.attempt = call.attempt + 1
      <4>1. CASE call.tool = "run"
        BY <1>1, <3>1, <3>2, <4>1, Running DEF Carries, RunCalls
      <4>2. CASE call.tool = "verify"
        <5>1. call \in VerifyCalls(call.checks) /\ kind' = kind
          BY <1>1, <4>2, Running DEF RunFrame
        <5>2. (call \in VerifyCalls(call.checks))'
          BY <3>1, <3>2, <5>1 DEF VerifyCalls, Defective
        <5> QED BY <1>1, <3>1, <4>2, <5>1, <5>2 DEF Carries, VerifyCalls
      <4> QED BY <1>1, <4>1, <4>2 DEF RunFrame
    <3>4. started' <= call'.attempt /\ shed' = call'.attempt
      BY <1>2, <1>4, <3>1, <3>3
    <3> QED BY <1>1, <2>1, <3>1, <3>3, <3>4, RunMoves
  <2>4. CASE is # "error" /\ ~(is \in Degraded /\ call.attempt < Retries)
    <3> DEFINE ok == IF is = "OK" THEN "yes" ELSE "no"
               degraded == IF is \in Degraded THEN "yes" ELSE "no"
    <3>1. Ran(Outcome(is, ok, degraded, "none"))
      BY <1>4, <2>4
    <3>2. Outcome(is, ok, degraded, "none") \in Outcomes
      BY <1>1, <1>4, <2>4, Running DEF Outcome, Outcomes, Routes, RunFrame
    <3>3. is # "built"
      BY <1>4
    <3> HIDE DEF ok, degraded
    <3> QED BY <1>1, <2>1, <3>1, <3>2, <3>3, RanKeeps
  <2> QED BY <2>2, <2>3, <2>4
<1>5. CASE stored # 0
  <2>1. PICK is \in {"OK", "EMPTY_RESPONSE", "EMPTY_SHED", "HTTP_504", "TIMEOUT", "error"} :
          /\ started' \in {started + 1} \cup IF is \in {"HTTP_504", "TIMEOUT", "error"} THEN {started} ELSE {}
          /\ shed' = shed + IF is \in {"EMPTY_SHED", "HTTP_504", "TIMEOUT"} THEN 1 ELSE 0
          /\ CASE is = "error" -> Broke
               [] is \in Degraded /\ call.attempt < Retries -> call' = [call EXCEPT !.attempt = @ + 1] /\ UNCHANGED said
               [] OTHER -> Ran(Outcome(is, IF is = "OK" THEN "yes" ELSE "no", IF is \in Degraded THEN "yes" ELSE "no", "none"))
    BY <1>5 DEF chatOnce
  <2>2. started' \in {started, started + 1} /\ shed' = shed + IF is \in Degraded THEN 1 ELSE 0
    BY <2>1 DEF Degraded
  <2> QED BY <1>4, <2>1, <2>2
<1>6. CASE stored = 0
  BY <1>3, <1>6 DEF chatOnce
<1> QED BY <1>5, <1>6

LEMMA SearchKeeps ==
  ASSUME Inv, Search, UNCHANGED <<sessionVars, widget>>
  PROVE  Inv'
<1>1. RunFrame /\ call.pc = "start" /\ kind = "module" /\ UNCHANGED execVars
  BY DEF Search, Starting, RunFrame, Answered, deployVars
<1>2. TypedRuns' /\ started' <= 1 + shed'
  BY <1>1, Running DEF TypedRuns, execVars, RunFrame
<1>3. CASE Broke
  BY <1>1, <1>2, <1>3, BrokeKeeps
<1>4. CASE Ran(Outcome("OK", "yes", "no", "none"))
  <2>1. Outcome("OK", "yes", "no", "none") \in Outcomes
    BY <1>1, Running DEF Outcome, Outcomes, Routes, RunFrame
  <2> QED BY <1>1, <1>2, <1>4, <2>1, RanKeeps
<1>5. CASE Ran(Outcome("NO_RESULTS", "no", "no", "none"))
  <2>1. Outcome("NO_RESULTS", "no", "no", "none") \in Outcomes
    BY <1>1, Running DEF Outcome, Outcomes, Routes, RunFrame
  <2> QED BY <1>1, <1>2, <1>5, <2>1, RanKeeps
<1>6. CASE call.tool = "run" /\ Ran(Outcome("NO_QUERY", "no", "no", "none"))
  BY <1>1, <1>2, <1>6, RanKeeps
<1> QED BY <1>3, <1>4, <1>5, <1>6 DEF Search

LEMMA InferKeeps ==
  ASSUME Inv, Infer, UNCHANGED <<sessionVars, widget>>
  PROVE  Inv'
<1>1. RunFrame /\ call.pc = "start" /\ kind = "model" /\ UNCHANGED <<exec, shed>>
  BY DEF Infer, Starting, RunFrame, Answered, deployVars
<1>2. started' \in {started, started + 1}
  BY DEF Infer
<1>3. TypedRuns' /\ started' <= 1 + shed'
  BY <1>1, <1>2, Running DEF TypedRuns, Fresh, Again, RunFrame
<1>4. CASE Broke
  BY <1>1, <1>3, <1>4, BrokeKeeps
<1>5. CASE Ran(Outcome("OK", "yes", "no", "none"))
  <2>1. Outcome("OK", "yes", "no", "none") \in Outcomes
    BY <1>1, Running DEF Outcome, Outcomes, Routes, RunFrame
  <2> QED BY <1>1, <1>3, <1>5, <2>1, RanKeeps
<1>6. CASE Ran(Outcome("NOT_SERVING", "no", "no", "none"))
  <2>1. Outcome("NOT_SERVING", "no", "no", "none") \in Outcomes
    BY <1>1, Running DEF Outcome, Outcomes, Routes, RunFrame
  <2> QED BY <1>1, <1>3, <1>6, <2>1, RanKeeps
<1> QED BY <1>4, <1>5, <1>6 DEF Infer

(* Every step of swfte_run, and of a run that swfte_verify asks for.         *)
LEMMA ExecStepKeeps ==
  ASSUME Inv, ExecStep, UNCHANGED <<sessionVars, widget>>
  PROVE  Inv'
  BY MissingConnectionsKeeps, ExecuteAndPollKeeps, WatchKeeps, ChatOnceKeeps, SearchKeeps, InferKeeps DEF ExecStep

-----------------------------------------------------------------------------
(* Verifications.                                                            *)

LEMMA KindIs ==
  ASSUME Inv
  PROVE  kind \in {"workflow", "agent", "chatflow", "widget", "application", "module", "model", "mcpServer"}
  BY KindsAssumption DEF Inv, Typed, TypedStudio, ADAPTERS

(* Requests are made in their order, and the run is the last of them.        *)
LEMMA LeftIs ==
  ASSUME Inv, NEW asks \in Left[kind], asks # << >>
  PROVE  /\ Tail(asks) \in Left[kind]
         /\ Head(asks) = "run" => asks = <<"run">> /\ Tail(asks) = << >>
         /\ Head(asks) \in {"versions", "run", "source", "history", "config", "hosting", "head", "status", "configuration", "builds"}
         /\ Head(asks) = "versions" => kind \in {"workflow", "module"}
         /\ Tail(asks) # << >> => Head(Tail(asks)) # "source"
<1>1. CASE asks = <<"versions", "run">> /\ kind \in {"workflow", "module"}
  <2>1. Tail(asks) = <<"run">> /\ Head(asks) = "versions" /\ Head(<<"run">>) = "run"
    BY <1>1
  <2>2. <<"run">> \in Left[kind]
    BY <1>1 DEF Left
  <2> QED BY <1>1, <2>1, <2>2
<1>2. CASE asks = <<"run">> /\ kind \in {"workflow", "agent", "module", "model", "mcpServer"}
  <2>1. Tail(asks) = << >> /\ Head(asks) = "run"
    BY <1>2
  <2>2. << >> \in Left[kind]
    BY <1>2 DEF Left
  <2> QED BY <1>2, <2>1, <2>2
<1>3. CASE asks = <<"source", "history", "config">> /\ kind \in {"widget"}
  <2>1. Tail(asks) = <<"history", "config">> /\ Head(asks) = "source" /\ Head(<<"history", "config">>) = "history"
    BY <1>3
  <2>2. <<"history", "config">> \in Left[kind]
    BY <1>3 DEF Left
  <2> QED BY <1>3, <2>1, <2>2
<1>4. CASE asks = <<"history", "config">> /\ kind \in {"widget"}
  <2>1. Tail(asks) = <<"config">> /\ Head(asks) = "history" /\ Head(<<"config">>) = "config"
    BY <1>4
  <2>2. <<"config">> \in Left[kind]
    BY <1>4 DEF Left
  <2> QED BY <1>4, <2>1, <2>2
<1>5. CASE asks = <<"config">> /\ kind \in {"widget"}
  <2>1. Tail(asks) = << >> /\ Head(asks) = "config"
    BY <1>5
  <2>2. << >> \in Left[kind]
    BY <1>5 DEF Left
  <2> QED BY <1>5, <2>1, <2>2
<1>6. CASE asks = <<"hosting", "head">> /\ kind \in {"application"}
  <2>1. Tail(asks) = <<"head">> /\ Head(asks) = "hosting" /\ Head(<<"head">>) = "head"
    BY <1>6
  <2>2. <<"head">> \in Left[kind]
    BY <1>6 DEF Left
  <2> QED BY <1>6, <2>1, <2>2
<1>7. CASE asks = <<"head">> /\ kind \in {"application"}
  <2>1. Tail(asks) = << >> /\ Head(asks) = "head"
    BY <1>7
  <2>2. << >> \in Left[kind]
    BY <1>7 DEF Left
  <2> QED BY <1>7, <2>1, <2>2
<1>8. CASE asks = <<"status", "run">> /\ kind \in {"model"}
  <2>1. Tail(asks) = <<"run">> /\ Head(asks) = "status" /\ Head(<<"run">>) = "run"
    BY <1>8
  <2>2. <<"run">> \in Left[kind]
    BY <1>8 DEF Left
  <2> QED BY <1>8, <2>1, <2>2
<1>9. CASE asks = <<"configuration", "builds", "run">> /\ kind \in {"mcpServer"}
  <2>1. Tail(asks) = <<"builds", "run">> /\ Head(asks) = "configuration" /\ Head(<<"builds", "run">>) = "builds"
    BY <1>9
  <2>2. <<"builds", "run">> \in Left[kind]
    BY <1>9 DEF Left
  <2> QED BY <1>9, <2>1, <2>2
<1>10. CASE asks = <<"builds", "run">> /\ kind \in {"mcpServer"}
  <2>1. Tail(asks) = <<"run">> /\ Head(asks) = "builds" /\ Head(<<"run">>) = "run"
    BY <1>10
  <2>2. <<"run">> \in Left[kind]
    BY <1>10 DEF Left
  <2> QED BY <1>10, <2>1, <2>2
<1> QED BY <1>1, <1>2, <1>3, <1>4, <1>5, <1>6, <1>7, <1>8, <1>9, <1>10, KindIs DEF Left

LEMMA AsksIs ==
  ASSUME Inv
  PROVE  Asks[kind] \in Left[kind]
  BY KindIs DEF Asks, Left

(* The defects that there are, and their checks.                             *)
AllFlaws == UNION {FlawsOf[k] : k \in DOMAIN FlawsOf}

LEMMA FlawsAre ==
  AllFlaws = {"orphan", "dangling", "no-nodes", "plain-secret", "node-fails", "half-created", "role-plays-tools",
              "no-memory", "no-prompt", "no-fields", "no-brain", "foreign-data", "dead-url", "no-resources",
              "never-built", "not-uploaded", "no-tools", "invalid", "does-not-compile"}
  BY DEF AllFlaws, FlawsOf

LEMMA CheckForIs ==
  /\ CheckFor["orphan"] = "graph" /\ CheckFor["dangling"] = "graph" /\ CheckFor["no-nodes"] = "graph"
  /\ CheckFor["plain-secret"] = "secrets" /\ CheckFor["node-fails"] = "nodes" /\ CheckFor["half-created"] = "complete"
  /\ CheckFor["role-plays-tools"] = "tier" /\ CheckFor["no-memory"] = "tier" /\ CheckFor["no-prompt"] = "prompt"
  /\ CheckFor["no-fields"] = "fields" /\ CheckFor["no-brain"] = "bound" /\ CheckFor["foreign-data"] = "bound"
  /\ CheckFor["dead-url"] = "reachable" /\ CheckFor["no-resources"] = "resources" /\ CheckFor["never-built"] = "built"
  /\ CheckFor["not-uploaded"] = "uploaded" /\ CheckFor["no-tools"] = "tools" /\ CheckFor["invalid"] = "configuration"
  /\ CheckFor["does-not-compile"] = "builds"
  BY FlawsAre DEF CheckFor, AllFlaws

LEMMA CheckForOthers ==
  ASSUME NEW f \in AllFlaws
  PROVE  /\ CheckFor[f] \notin {"published", "deployed", "config", "hosted", "runs", "execution"}
         /\ CheckFor[f] = "nodes" => f = "node-fails"
         /\ CheckFor[f] = "bound" => f \in {"no-brain", "foreign-data"}
         /\ CheckFor[f] = "reachable" => f = "dead-url"
         /\ CheckFor[f] = "built" => f = "never-built"
         /\ CheckFor[f] = "configuration" => f = "invalid"
         /\ CheckFor[f] = "builds" => f = "does-not-compile"
  BY FlawsAre, CheckForIs

(* A record has no defects but those of its kind.                            *)
LEMMA FlawsOfKind ==
  ASSUME Inv, NEW flawed \in Defective(kind), NEW f \in flawed
  PROVE  f \in FlawsOf[kind] /\ f \in AllFlaws
<1>1. f \in FlawsOf[kind]
  BY DEF Defective
<1>2. kind \in DOMAIN FlawsOf
  BY KindIs DEF FlawsOf
<1> QED BY <1>1, <1>2 DEF AllFlaws

LEMMA VerifyMoves ==
  ASSUME Inv, RunFrame, UNCHANGED execVars, said' = said, (call \in VerifyCalls(call.checks))', Starts(call)', Weighs(call)'
  PROVE  Inv'
<1>1. TypedRuns' /\ started' <= 1 + shed'
  BY Running DEF RunFrame, TypedRuns, execVars
<1>2. call'.tool = "verify" /\ call'.pc # "poll" /\ Shape(call)'
  BY DEF VerifyCalls, Shape
<1> QED BY <1>1, <1>2, RunKeeps

LEMMA Verifying ==
  ASSUME Inv, VerifyStep
  PROVE  RunFrame /\ UNCHANGED execVars /\ call.tool = "verify" /\ call.pc \in {"record", "asks"}
  BY DEF VerifyStep, ReadRecord, Ask, AskRun, JudgeRun, Report, At, Answered, RunFrame

(* What the record itself shows.                                             *)
LEMMA OnRecordShows ==
  ASSUME Inv, NEW f \in flaws
  PROVE  \/ CheckFor[f] \notin DOMAIN OnRecord
         \/ OnRecord[CheckFor[f]] = "no"
         \/ f = "foreign-data" /\ Asks[kind] # << >> /\ Head(Asks[kind]) = "source"
<1>1. f \in FlawsOf[kind] /\ flaws = {f}
  <2>1. flaws \in Defective(kind)
    BY DEF Inv, Typed, TypedStudio
  <2> QED BY <2>1, FlawsOfKind DEF Defective
<1>2. CASE kind = "workflow"
  <2>1. f \in {"orphan", "dangling", "no-nodes", "plain-secret", "node-fails"}
    BY <1>1, <1>2 DEF FlawsOf
  <2>2. OnRecord = [graph |-> Yes(analyseGraph(flaws)), secrets |-> Yes("plain-secret" \notin flaws)]
    BY <1>2 DEF OnRecord, WorkflowRecord
  <2>3. f \in {"orphan", "dangling", "no-nodes"} => ~analyseGraph(flaws)
    BY DEF analyseGraph
  <2> QED BY <2>1, <2>2, <2>3, CheckForIs DEF Yes
<1>3. CASE kind = "agent"
  <2>1. f \in {"half-created", "role-plays-tools", "no-memory", "no-prompt"}
    BY <1>1, <1>3 DEF FlawsOf
  <2>2. OnRecord = AgentRecord
    BY <1>3 DEF OnRecord
  <2>3. f \in {"role-plays-tools", "no-memory"} => flaws \cap {"role-plays-tools", "no-memory"} # {}
    OBVIOUS
  <2> QED BY <2>1, <2>2, <2>3, CheckForIs DEF AgentRecord, Yes
<1>4. CASE kind = "chatflow"
  <2>1. f = "no-fields"
    BY <1>1, <1>4 DEF FlawsOf
  <2>2. OnRecord = ChatflowRecord
    BY <1>4 DEF OnRecord
  <2> QED BY <2>1, <2>2, CheckForIs DEF ChatflowRecord, Yes
<1>5. CASE kind = "widget"
  <2>1. f \in {"no-brain", "foreign-data"}
    BY <1>1, <1>5 DEF FlawsOf
  <2>2. OnRecord = WidgetRecord
    BY <1>5 DEF OnRecord
  <2>3. Asks[kind] = <<"source", "history", "config">>
    BY <1>5 DEF Asks
  <2> QED BY <2>1, <2>2, <2>3, CheckForIs DEF WidgetRecord, Yes
<1>6. CASE kind = "application"
  <2>1. f = "dead-url"
    BY <1>1, <1>6 DEF FlawsOf
  <2>2. OnRecord = << >>
    BY <1>6 DEF OnRecord
  <2> QED BY <2>1, <2>2, CheckForIs
<1>7. CASE kind = "module"
  <2>1. f \in {"no-resources", "never-built"}
    BY <1>1, <1>7 DEF FlawsOf
  <2>2. OnRecord = ModuleRecord
    BY <1>7 DEF OnRecord
  <2> QED BY <2>1, <2>2, CheckForIs DEF ModuleRecord, Yes
<1>8. CASE kind = "model"
  <2>1. f = "not-uploaded"
    BY <1>1, <1>8 DEF FlawsOf
  <2>2. OnRecord = ModelRecord
    BY <1>8 DEF OnRecord
  <2> QED BY <2>1, <2>2, CheckForIs DEF ModelRecord, Yes
<1>9. CASE kind = "mcpServer"
  <2>1. f \in {"no-tools", "invalid", "does-not-compile"}
    BY <1>1, <1>9 DEF FlawsOf
  <2>2. OnRecord = McpRecord
    BY <1>9 DEF OnRecord
  <2> QED BY <2>1, <2>2, CheckForIs DEF McpRecord, Yes
<1> QED BY <1>2, <1>3, <1>4, <1>5, <1>6, <1>7, <1>8, <1>9, KindIs

(* The record leaves the check of the nodes to the run.                      *)
LEMMA RecordSaysNothingOfNodes ==
  ASSUME Inv
  PROVE  "nodes" \notin DOMAIN OnRecord
<1>1. CASE kind \in {"workflow", "agent", "chatflow", "widget"}
  BY <1>1 DEF OnRecord, WorkflowRecord, AgentRecord, ChatflowRecord, WidgetRecord
<1>2. CASE kind \in {"application", "module", "model", "mcpServer"}
  BY <1>2 DEF OnRecord, ModuleRecord, ModelRecord, McpRecord
<1> QED BY <1>1, <1>2, KindIs

(* A request that is answered, or fails, does not pass over a defect.        *)
LEMMA AskSays ==
  ASSUME Inv, NEW ask \in {"versions", "source", "history", "config", "hosting", "head", "status", "configuration", "builds"},
         ask = "versions" => kind \in {"workflow", "module"}
  PROVE  /\ AskOf(ask).name # "nodes" /\ AskOf(ask).fails \in {"no", "null"}
         /\ ask = "source" => AskOf(ask).name = "bound"
         /\ \A f \in flaws : call.read = flaws /\ CheckFor[f] = AskOf(ask).name => AskOf(ask).says = "no"
<1>1. \A f \in flaws : f \in AllFlaws
  BY FlawsOfKind DEF Inv, Typed, TypedStudio
<1>2. CASE ask = "versions" /\ kind = "workflow"
  <2>1. AskOf(ask) = WorkflowVersions
    BY <1>2 DEF AskOf
  <2> QED BY <1>1, <1>2, <2>1, CheckForOthers DEF WorkflowVersions
<1>3. CASE ask = "versions" /\ kind = "module"
  <2>1. AskOf(ask) = ModuleVersions
    BY <1>3 DEF AskOf
  <2> QED BY <1>1, <1>3, <2>1, CheckForOthers DEF ModuleVersions, Yes
<1>4. CASE ask = "source"
  <2>1. AskOf(ask) = WidgetSource
    BY <1>4 DEF AskOf
  <2>2. ASSUME NEW f \in flaws, CheckFor[f] = "bound"
        PROVE  flaws \cap {"no-brain", "foreign-data"} # {}
    BY <1>1, <2>2, CheckForOthers
  <2> QED BY <1>4, <2>1, <2>2 DEF WidgetSource, Yes
<1>5. CASE ask = "history"
  <2>1. AskOf(ask) = WidgetHistory
    BY <1>5 DEF AskOf
  <2> QED BY <1>1, <1>5, <2>1, CheckForOthers DEF WidgetHistory, Expected
<1>6. CASE ask = "config"
  <2>1. AskOf(ask) = WidgetConfig
    BY <1>6 DEF AskOf
  <2> QED BY <1>1, <1>6, <2>1, CheckForOthers DEF WidgetConfig
<1>7. CASE ask = "hosting"
  <2>1. AskOf(ask) = ApplicationHosting
    BY <1>7 DEF AskOf
  <2> QED BY <1>1, <1>7, <2>1, CheckForOthers DEF ApplicationHosting
<1>8. CASE ask = "head"
  <2>1. AskOf(ask) = ApplicationHead
    BY <1>8 DEF AskOf
  <2> QED BY <1>1, <1>8, <2>1, CheckForOthers DEF ApplicationHead, Yes
<1>9. CASE ask = "status"
  <2>1. AskOf(ask) = ModelStatus
    BY <1>9 DEF AskOf
  <2> QED BY <1>1, <1>9, <2>1, CheckForOthers DEF ModelStatus
<1>10. CASE ask = "configuration"
  <2>1. AskOf(ask) = McpConfiguration
    BY <1>10 DEF AskOf
  <2> QED BY <1>1, <1>10, <2>1, CheckForOthers DEF McpConfiguration, Yes
<1>11. CASE ask = "builds"
  <2>1. AskOf(ask) = McpBuilds
    BY <1>11 DEF AskOf
  <2> QED BY <1>1, <1>11, <2>1, CheckForOthers DEF McpBuilds, Yes
<1> QED BY <1>2, <1>3, <1>4, <1>5, <1>6, <1>7, <1>8, <1>9, <1>10, <1>11

LEMMA ReadRecordKeeps ==
  ASSUME Inv, ReadRecord
  PROVE  Inv'
<1>1. RunFrame /\ UNCHANGED execVars /\ call.tool = "verify" /\ call.pc = "record"
  BY Verifying DEF VerifyStep, ReadRecord, At
<1>2. call \in VerifyCalls(call.checks) /\ Fresh /\ call.attempt = 0 /\ call.ran = None /\ flaws \in Defective(kind)
  BY <1>1, Running DEF Inv, Starts, Typed, TypedStudio
<1>3. CASE Return([tool |-> "verify", is |-> "report", ok |-> "no"])
  <2>1. call' = NoCall /\ said' = [tool |-> "verify", is |-> "report", ok |-> "no"]
    BY <1>3 DEF Return
  <2>2. DoneIsDone' /\ RunReportIsTrue' /\ VerifiedIsSound'
    BY <2>1 DEF DoneIsDone, RunReportIsTrue, VerifiedIsSound
  <2>3. TypedRuns' /\ started' <= 1 + shed'
    BY <1>1, Running DEF TypedRuns, execVars
  <2> QED BY <1>1, <2>1, <2>2, <2>3, RunKeeps
<1>4. CASE /\ call' = [call EXCEPT !.pc = "asks", !.read = flaws, !.checks = OnRecord, !.asks = Asks[kind]]
           /\ UNCHANGED said
  <2>1. /\ call'.tool = "verify" /\ call'.pc = "asks" /\ call'.read = flaws /\ call'.checks = OnRecord
        /\ call'.asks = Asks[kind] /\ call'.ran = None /\ call'.attempt = 0 /\ call'.edits = call.edits
    BY <1>2, <1>4 DEF VerifyCalls
  <2>2. kind' = kind /\ flaws' = flaws /\ edits' = edits
    BY <1>1 DEF RunFrame
  <2>3. (call \in VerifyCalls(call.checks))'
    BY <1>2, <1>4, <2>1, <2>2, AsksIs DEF VerifyCalls, Defective
  <2>4. Starts(call)'
    BY <1>1, <1>2, <2>1, Running DEF Starts, Fresh, execVars
  <2>5. \A f \in flaws : Doubts(f, call)'
    BY <2>1, OnRecordShows DEF Doubts
  <2>6. Weighs(call)'
    <3>1. Weighs(call)
      BY DEF Inv
    <3> QED BY <1>1, <2>1, <2>2, <2>5, <3>1, RecordSaysNothingOfNodes DEF Weighs
  <2> QED BY <1>1, <1>4, <2>3, <2>4, <2>6, VerifyMoves
<1> QED BY <1>3, <1>4 DEF ReadRecord

(* A check is taken, or passed over.                                         *)
LEMMA AskMoves ==
  ASSUME Inv, RunFrame, UNCHANGED execVars, said' = said, call.tool = "verify", call.pc = "asks", call.asks # << >>,
         call.ran = None,
         \/ call' = [call EXCEPT !.asks = Tail(@)]
         \/ \E checks : call' = [call EXCEPT !.checks = checks, !.asks = Tail(@)],
         Tail(call.asks) # << >> => "nodes" \notin DOMAIN call'.checks,
         \A f \in flaws : call.read = flaws /\ Doubts(f, call) => Doubts(f, call)'
  PROVE  Inv'
<1>1. call \in VerifyCalls(call.checks) /\ kind' = kind /\ flaws' = flaws /\ edits' = edits
  BY Running DEF RunFrame
<1>2. call.asks \in Left[kind] /\ Tail(call.asks) \in Left[kind]
  BY <1>1, LeftIs DEF VerifyCalls
<1>3. /\ call'.tool = "verify" /\ call'.pc = "asks" /\ call'.asks = Tail(call.asks) /\ call'.ran = None
      /\ call'.read = call.read /\ call'.edits = call.edits /\ call'.route = call.route /\ call'.attempt = call.attempt
  BY <1>1 DEF VerifyCalls
<1>4. (call \in VerifyCalls(call.checks))'
  <2>1. CASE call' = [call EXCEPT !.asks = Tail(@)]
    BY <1>1, <1>2, <2>1, VerifyCallAsks, VerifyCallStays
  <2>2. CASE \E checks : call' = [call EXCEPT !.checks = checks, !.asks = Tail(@)]
    <3>1. PICK checks : call' = [call EXCEPT !.checks = checks, !.asks = Tail(@)]
      BY <2>2
    <3> DEFINE left == Tail(call.asks)
    <3>2. call' = [call EXCEPT !.checks = checks, !.asks = left] /\ left \in Left[kind]
      BY <1>2, <3>1
    <3> HIDE DEF left
    <3>3. call' \in VerifyCalls(checks)
      BY <1>1, <3>2 DEF VerifyCalls
    <3>4. call'.checks = checks
      BY <3>3 DEF VerifyCalls
    <3> QED BY <1>1, <3>3, <3>4, VerifyCallStays
  <2> QED BY <2>1, <2>2
<1>5. Starts(call)'
  <2>1. Starts(call)
    BY DEF Inv
  <2> QED BY <1>3, <2>1 DEF Starts, Fresh, execVars
<1>6. Weighs(call)'
  <2>1. Weighs(call)
    BY DEF Inv
  <2> QED BY <1>1, <1>3, <2>1 DEF Weighs
<1> QED BY <1>4, <1>5, <1>6, VerifyMoves

LEMMA AskKeeps ==
  ASSUME Inv, Ask
  PROVE  Inv'
<1>1. /\ RunFrame /\ UNCHANGED execVars /\ call.tool = "verify" /\ call.pc = "asks" /\ call.asks # << >> /\ said' = said
      /\ Head(call.asks) # "run"
  BY Verifying DEF VerifyStep, Ask, At
<1>2. call \in VerifyCalls(call.checks) /\ call.asks \in Left[kind] /\ call.ran = None
  <2>1. call \in VerifyCalls(call.checks)
    BY <1>1, Running
  <2>2. call.asks \in Left[kind]
    BY <2>1 DEF VerifyCalls
  <2>3. call.ran # None => call.asks = <<"run">>
    BY <1>1 DEF Inv, Starts
  <2> QED BY <1>1, <2>1, <2>2, <2>3
<1> DEFINE ask == Head(call.asks)
           a == AskOf(ask)
<1>3. /\ ask \in {"versions", "source", "history", "config", "hosting", "head", "status", "configuration", "builds"}
      /\ ask = "versions" => kind \in {"workflow", "module"}
      /\ Tail(call.asks) # << >> => Head(Tail(call.asks)) # "source"
  BY <1>1, <1>2, LeftIs
<1>4. "nodes" \notin DOMAIN call.checks
  BY <1>1 DEF Inv, Weighs
<1>5. CASE Skips(ask) /\ call' = [call EXCEPT !.asks = Tail(@)]
  <2>1. call'.checks = call.checks /\ call'.route = call.route /\ call'.asks = Tail(call.asks)
    BY <1>2, <1>5 DEF VerifyCalls
  <2>2. ASSUME NEW f \in flaws, Doubts(f, call)
        PROVE  Doubts(f, call)'
    <3>1. ~(f = "foreign-data" /\ ask = "source")
      BY <1>5 DEF Skips
    <3> QED BY <2>1, <2>2, <3>1 DEF Doubts
  <2> QED BY <1>1, <1>2, <1>4, <1>5, <2>1, <2>2, AskMoves
<1>6. ASSUME NEW is, call' = Check(a.name, is), is = a.says \/ is = a.fails
      PROVE  Inv'
  <2>1. call' = [call EXCEPT !.checks = Marked(call.checks, a.name, is), !.asks = Tail(@)]
    BY <1>6 DEF Check
  <2>2. call'.checks = Marked(call.checks, a.name, is) /\ call'.route = call.route /\ call'.asks = Tail(call.asks)
    BY <1>2, <2>1 DEF VerifyCalls
  <2>3. "nodes" \notin DOMAIN call'.checks
    BY <1>3, <1>4, <2>2, AskSays DEF Marked
  <2>4. ASSUME NEW f \in flaws, call.read = flaws, Doubts(f, call)
        PROVE  Doubts(f, call)'
    <3>1. CASE CheckFor[f] = a.name
      <4>1. is \in {"no", "null"}
        BY <1>3, <1>6, <2>4, <3>1, AskSays
      <4>2. call'.checks[CheckFor[f]] = is
        BY <2>2, <3>1 DEF Marked
      <4> QED BY <4>1, <4>2 DEF Doubts
    <3>2. CASE CheckFor[f] # a.name
      <4>1. ~(f = "foreign-data" /\ ask = "source")
        BY <1>3, <3>2, AskSays, CheckForIs
      <4>2. /\ CheckFor[f] \notin DOMAIN call.checks => CheckFor[f] \notin DOMAIN call'.checks
            /\ CheckFor[f] \in DOMAIN call.checks => call'.checks[CheckFor[f]] = call.checks[CheckFor[f]]
        BY <2>2, <3>2 DEF Marked
      <4> QED BY <2>2, <2>4, <4>1, <4>2 DEF Doubts
    <3> QED BY <3>1, <3>2
  <2> HIDE DEF a
  <2> QED BY <1>1, <1>2, <2>1, <2>3, <2>4, AskMoves
<1> HIDE DEF a, ask
<1>7. CASE Skips(ask)
  BY <1>5, <1>7 DEF Ask, a, ask
<1>8. CASE ~Skips(ask)
  <2>1. call' = Check(a.name, a.says) \/ call' = Check(a.name, a.fails)
    BY <1>8 DEF Ask, a, ask
  <2> QED BY <1>6, <2>1
<1> QED BY <1>7, <1>8

LEMMA AskRunKeeps ==
  ASSUME Inv, AskRun
  PROVE  Inv'
<1>1. /\ RunFrame /\ UNCHANGED execVars /\ call.tool = "verify" /\ call.pc = "asks" /\ call.asks # << >> /\ said' = said
      /\ Head(call.asks) = "run" /\ call.ran = None
  BY Verifying DEF VerifyStep, AskRun, At
<1>2. call \in VerifyCalls(call.checks) /\ kind' = kind /\ flaws' = flaws /\ edits' = edits
  BY <1>1, Running DEF RunFrame
<1>3. call.asks = <<"run">> /\ Tail(call.asks) = << >>
  BY <1>1, <1>2, LeftIs DEF VerifyCalls
<1>4. CASE call' = [call EXCEPT !.asks = Tail(@)]
  <2>1. call'.checks = call.checks /\ call'.route = call.route /\ call'.asks = << >>
    BY <1>2, <1>3, <1>4 DEF VerifyCalls
  <2>2. \A f \in flaws : Doubts(f, call) => Doubts(f, call)'
    BY <1>3, <2>1 DEF Doubts
  <2> QED BY <1>1, <1>3, <1>4, <2>2, AskMoves
<1>5. CASE call' = Check("execution", "no")
  <2>1. call' = [call EXCEPT !.checks = Marked(call.checks, "execution", "no"), !.asks = Tail(@)]
    BY <1>5 DEF Check
  <2>2. call'.checks = Marked(call.checks, "execution", "no") /\ call'.route = call.route /\ call'.asks = << >>
    BY <1>2, <1>3, <2>1 DEF VerifyCalls
  <2>3. ASSUME NEW f \in flaws, Doubts(f, call)
        PROVE  Doubts(f, call)'
    <3>1. CheckFor[f] # "execution"
      BY FlawsOfKind, CheckForOthers DEF Inv, Typed, TypedStudio
    <3> QED BY <1>3, <2>2, <2>3, <3>1 DEF Doubts, Marked
  <2> QED BY <1>1, <1>3, <2>1, <2>3, AskMoves
<1>6. CASE call' = [call EXCEPT !.pc = "start"]
  <2>1. Starts(call) /\ Weighs(call)
    BY DEF Inv
  <2>2. /\ call'.tool = "verify" /\ call'.pc = "start" /\ call'.asks = call.asks /\ call'.ran = None
        /\ call'.read = call.read /\ call'.checks = call.checks
        /\ call'.edits = call.edits /\ call'.route = call.route /\ call'.attempt = call.attempt
    BY <1>1, <1>2, <1>6 DEF VerifyCalls
  <2>3. (call \in VerifyCalls(call.checks))'
    BY <1>2, <1>6 DEF VerifyCalls, Defective
  <2>4. Starts(call)'
    BY <1>1, <1>3, <2>1, <2>2 DEF Starts, Fresh, Again, execVars
  <2>5. Weighs(call)'
    <3>1. \A f : Doubts(f, call) => Doubts(f, call)'
      BY <2>2 DEF Doubts
    <3> QED BY <1>1, <1>2, <2>1, <2>2, <3>1 DEF Weighs
  <2> QED BY <1>1, <2>3, <2>4, <2>5, VerifyMoves
<1> QED BY <1>4, <1>5, <1>6 DEF AskRun

(* A run of the record itself says what its nodes came to.                   *)
LEMMA JudgeRunKeeps ==
  ASSUME Inv, JudgeRun
  PROVE  Inv'
<1>1. RunFrame /\ UNCHANGED execVars /\ call.tool = "verify" /\ call.pc = "asks" /\ said' = said /\ call.ran # None
  BY Verifying DEF VerifyStep, JudgeRun, At
<1>2. call \in VerifyCalls(call.checks) /\ kind' = kind /\ flaws' = flaws /\ edits' = edits
  BY <1>1, Running DEF RunFrame
<1>3. Starts(call) /\ Weighs(call)
  BY DEF Inv
<1>4. call.asks = <<"run">> /\ Tail(call.asks) = << >> /\ << >> \in Left[kind]
  <2>1. call.asks = <<"run">>
    BY <1>1, <1>3 DEF Starts
  <2>2. call.asks \in Left[kind] /\ call.asks # << >> /\ Tail(call.asks) = << >>
    BY <1>2, <2>1 DEF VerifyCalls
  <2> QED BY <2>1, <2>2, LeftIs
<1> DEFINE runs == IF call.ran.degraded = "yes" THEN "null" ELSE call.ran.ok
           checks == Marked(Marked(call.checks, "nodes", NodesOf(call.ran)), "runs", runs)
<1>5. call' = [call EXCEPT !.checks = checks, !.asks = Tail(@), !.ran = None]
  BY DEF JudgeRun
<1>6. /\ call'.tool = "verify" /\ call'.pc = "asks" /\ call'.asks = << >> /\ call'.ran = None
      /\ call'.read = call.read /\ call'.checks = checks /\ call'.edits = call.edits /\ call'.route = call.route
  BY <1>1, <1>2, <1>4, <1>5 DEF VerifyCalls
<1>7. (call \in VerifyCalls(call.checks))'
  <2> HIDE DEF checks
  <2> QED BY <1>2, <1>4, <1>5 DEF VerifyCalls, Defective
<1>8. Starts(call)'
  BY <1>1, <1>3, <1>6 DEF Starts, execVars
<1>9. Weighs(call)'
  <2>1. ASSUME NEW f \in flaws, call.read = flaws, Doubts(f, call), call.edits = edits
        PROVE  Doubts(f, call)'
    <3>1. f \in AllFlaws
      BY FlawsOfKind DEF Inv, Typed, TypedStudio
    <3>2. CASE f = "node-fails" /\ call.route # "invoke"
      <4>1. call.ran.nodes # "fine"
        BY <1>1, <1>3, <2>1, <3>2 DEF Weighs
      <4>2. NodesOf(call.ran) \in {"no", "null"}
        BY <4>1 DEF NodesOf, Yes
      <4>3. checks["nodes"] = NodesOf(call.ran)
        BY DEF Marked
      <4> QED BY <1>6, <3>2, <4>2, <4>3, CheckForIs DEF Doubts
    <3>3. CASE f = "node-fails" /\ call.route = "invoke"
      BY <1>6, <3>3 DEF Doubts
    <3>4. CASE f # "node-fails"
      <4>1. CheckFor[f] \notin {"nodes", "runs"}
        BY <3>1, <3>4, CheckForOthers
      <4>2. /\ CheckFor[f] \notin DOMAIN call.checks => CheckFor[f] \notin DOMAIN checks
            /\ CheckFor[f] \in DOMAIN call.checks => checks[CheckFor[f]] = call.checks[CheckFor[f]]
        BY <4>1 DEF Marked
      <4> HIDE DEF checks
      <4> QED BY <1>4, <1>6, <2>1, <3>4, <4>2 DEF Doubts
    <3> QED BY <3>2, <3>3, <3>4
  <2> HIDE DEF checks
  <2> QED BY <1>1, <1>2, <1>3, <1>6, <2>1 DEF Weighs
<1> QED BY <1>1, <1>7, <1>8, <1>9, VerifyMoves

(* What a report that passes has looked at.                                  *)
LEMMA ReportKeeps ==
  ASSUME Inv, Report
  PROVE  Inv'
<1>1. RunFrame /\ UNCHANGED execVars /\ call.tool = "verify" /\ call.pc = "asks" /\ call.asks = << >>
  BY Verifying DEF VerifyStep, Report, At
<1>2. /\ call' = NoCall
      /\ said' = [tool |-> "verify", is |-> "report", ok |-> Yes(Passes), read |-> call.read, checks |-> call.checks,
                  route |-> call.route, touched |-> Yes(call.edits # edits)]
  BY DEF Report, Return
<1>3. DoneIsDone' /\ RunReportIsTrue'
  BY <1>2 DEF DoneIsDone, RunReportIsTrue
<1>4. VerifiedIsSound'
  <2>1. SUFFICES ASSUME Passes, call.edits = edits, NEW f \in call.read
                 PROVE  \/ CheckFor[f] \notin DOMAIN call.checks \/ call.checks[CheckFor[f]] = "null"
                        \/ f = "node-fails" /\ call.route = "invoke"
    BY <1>2 DEF VerifiedIsSound, Yes
  <2>2. Doubts(f, call)
    BY <1>1, <2>1 DEF Inv, Weighs
  <2>3. CheckFor[f] \in DOMAIN call.checks => call.checks[CheckFor[f]] # "no"
    BY <2>1 DEF Passes
  <2> QED BY <1>1, <2>2, <2>3 DEF Doubts
<1>5. TypedRuns' /\ started' <= 1 + shed'
  BY <1>1, Running DEF TypedRuns, execVars
<1> QED BY <1>1, <1>2, <1>3, <1>4, <1>5, RunKeeps

(* Every step of swfte_verify.                                               *)
LEMMA VerifyStepKeeps ==
  ASSUME Inv, VerifyStep
  PROVE  Inv'
  BY ReadRecordKeeps, AskKeeps, AskRunKeeps, JudgeRunKeeps, ReportKeeps DEF VerifyStep

-----------------------------------------------------------------------------
(* The caller, with an artifact: swfte_run, swfte_deploy, swfte_verify,      *)
(* swfte_preview and swfte_teardown.                                         *)

(* A call begins, or is answered at once.                                    *)
CallFrame ==
  /\ Idle /\ known = "id" /\ calls' = calls + 1 /\ calls < MaxCalls[task]
  /\ UNCHANGED <<task, kind, stored, flaws, standing, edits, known, exec>> /\ UNCHANGED sessionVars
  /\ Answered \/ Trouble

(* A call that needs an id begins, or is answered at once.                   *)
LEMMA CallKeeps ==
  ASSUME Inv, CallFrame, TypedDeploys', TypedRuns', (started <= 1 + shed)',
         \/ call' = NoCall /\ said'.is # "built" /\ said'.tool \notin {"run", "verify"}
         \/ /\ call'.tool \in {"run", "deploy", "verify"} /\ call'.pc # "poll" /\ said' = None
            /\ Shape(call)' /\ Starts(call)' /\ Weighs(call)' /\ Clears(call)'
  PROVE  Inv'
<1> USE DEF CallFrame
<1>1. calls' \in {calls, calls + 1} /\ calls' <= MaxCalls[task]
  BY Counted
<1>2. Goes(call)' /\ Books(call)' /\ TypedWizard' /\ trouble' \in 0 .. MaxTrouble[task'] /\ calls' \in 0 .. MaxCalls[task']
  BY <1>1, BooksStand, NothingIs
<1>3. TypedStudio'
  BY <1>2 DEF Inv, Typed, TypedStudio
<1>4. DoneIsDone' /\ RunReportIsTrue' /\ VerifiedIsSound'
  BY SaysNothingOf
<1>5. Shape(call)' /\ Starts(call)' /\ Weighs(call)' /\ Clears(call)' /\ Silent'
  <2>1. CASE call' = NoCall
    BY <2>1, Rests
  <2>2. CASE said' = None /\ Shape(call)' /\ Starts(call)' /\ Weighs(call)' /\ Clears(call)'
    BY <2>2 DEF Silent
  <2> QED BY <2>1, <2>2
<1> QED BY <1>2, <1>3, <1>4, <1>5 DEF Inv, Typed

LEMMA IdleIs ==
  ASSUME Inv, Idle
  PROVE  call = NoCall
  BY ShapeOf DEF Inv, Idle

LEMMA RunBegins ==
  ASSUME Inv, Run, UNCHANGED <<sessionVars, widget>>
  PROVE  Inv'
<1>1. PICK force \in {"yes", "no"} :
        Begin([tool |-> "run", pc |-> IF force = "yes" THEN "start" ELSE "connections",
               route |-> "invoke", attempt |-> 0, snap |-> None])
  BY DEF Run
<1>2. CallFrame /\ TypedDeploys' /\ started' = 0 /\ shed' = 0
  BY <1>1 DEF Inv, Typed, TypedDeploys, Run, Begin, CallFrame, Answered
<1>3. TypedRuns' /\ (started <= 1 + shed)'
  BY <1>2 DEF Inv, Typed, TypedRuns, CallFrame
<1> DEFINE c == [tool |-> "run", pc |-> IF force = "yes" THEN "start" ELSE "connections",
                 route |-> "invoke", attempt |-> 0, snap |-> None]
<1>4. call' = c /\ said' = None
  BY <1>1 DEF Begin
<1>5. /\ c \in RunCalls /\ c.tool = "run" /\ c.pc \in {"start", "connections"} /\ c.attempt = 0
  BY DEF RunCalls, Routes, Tries
<1> HIDE DEF c
<1>6. Shape(call)' /\ Starts(call)' /\ Weighs(call)' /\ Clears(call)'
  BY <1>2, <1>4, <1>5 DEF Shape, Starts, Weighs, Clears, Fresh, Again
<1> QED BY <1>2, <1>3, <1>4, <1>5, <1>6, CallKeeps

LEMMA VerifyBegins ==
  ASSUME Inv, Verify
  PROVE  Inv'
<1>1. PICK run \in YesNo, live \in YesNo :
        Begin([tool |-> "verify", pc |-> "record", run |-> run, requirePublished |-> live, edits |-> edits,
               read |-> {}, checks |-> << >>, asks |-> << >>, ran |-> None,
               route |-> "invoke", attempt |-> 0, snap |-> None])
  BY DEF Verify, YesNo
<1>2. CallFrame /\ TypedDeploys' /\ started' = 0 /\ shed' = 0
  BY <1>1 DEF Inv, Typed, TypedDeploys, Verify, Begin, CallFrame, Answered, deployVars
<1>3. TypedRuns' /\ (started <= 1 + shed)'
  BY <1>2 DEF Inv, Typed, TypedRuns, CallFrame
<1> DEFINE c == [tool |-> "verify", pc |-> "record", run |-> run, requirePublished |-> live, edits |-> edits,
                 read |-> {}, checks |-> << >>, asks |-> << >>, ran |-> None,
                 route |-> "invoke", attempt |-> 0, snap |-> None]
<1>4. call' = c /\ said' = None
  BY <1>1 DEF Begin
<1>5. << >> \in Left[kind]
  BY KindIs DEF Left
<1>6. /\ c \in VerifyCalls(c.checks) /\ c.tool = "verify" /\ c.pc = "record" /\ c.attempt = 0 /\ c.ran = None
      /\ c.edits = edits /\ c.asks = << >>
  BY <1>5, Counted DEF VerifyCalls, Routes, Tries, Defective
<1> HIDE DEF c
<1>7. Shape(call)' /\ Starts(call)' /\ Weighs(call)' /\ Clears(call)'
  <2>1. (call \in VerifyCalls(call.checks))'
    BY <1>2, <1>4, <1>6 DEF CallFrame, VerifyCalls, Defective
  <2> QED BY <1>2, <1>4, <1>6, <2>1, Counted DEF Shape, Starts, Weighs, Clears, Fresh, CallFrame
<1> QED BY <1>2, <1>3, <1>4, <1>6, <1>7, CallKeeps

LEMMA DeployBegins ==
  ASSUME Inv, Deploy, shed' = 0, UNCHANGED <<sessionVars, exec>>
  PROVE  Inv'
<1>1. TypedDeploys' /\ TypedRuns' /\ (started <= 1 + shed)' /\ started' = 0 /\ shed' = 0
  BY DEF Inv, Typed, TypedDeploys, TypedRuns, Deploy, deployVars
<1>2. CASE /\ Idle /\ calls < MaxCalls[task] /\ calls' = calls + 1 /\ UNCHANGED call
           /\ \E is \in {"CONFIRMATION_REQUIRED", "DEPLOY_DISABLED", "error"} : said' = [tool |-> "deploy", is |-> is]
  <2>1. CallFrame
    BY <1>2 DEF Deploy, CallFrame, Answered
  <2>2. call' = NoCall /\ said'.is # "built" /\ said'.tool \notin {"run", "verify"}
    BY <1>2, IdleIs
  <2> QED BY <1>1, <2>1, <2>2, CallKeeps
<1>3. CASE \E skip, force \in YesNo, by \in {"router", "managed", "unsupported"} :
             Begin([tool |-> "deploy", pc |-> Begins(by, skip), by |-> by, skip |-> skip, force |-> force, snap |-> None,
                    edits |-> edits, hole |-> "no"])
  <2>1. PICK skip \in YesNo, force \in YesNo, by \in {"router", "managed", "unsupported"} :
          Begin([tool |-> "deploy", pc |-> Begins(by, skip), by |-> by, skip |-> skip, force |-> force, snap |-> None,
                 edits |-> edits, hole |-> "no"])
    BY <1>3
  <2>2. PICK first \in {"unsupported", "gate", "enabled?", "artifact", "post"} :
          /\ first = Begins(by, skip)
          /\ first # "unsupported" => by # "unsupported"
          /\ first = "enabled?" => kind = "widget"
          /\ first = "artifact" => kind = "mcpServer"
          /\ first = "post" /\ kind = "workflow" => skip # "no"
    BY DEF Begins
  <2> DEFINE c == [tool |-> "deploy", pc |-> first, by |-> by, skip |-> skip, force |-> force, snap |-> None,
                   edits |-> edits, hole |-> "no"]
  <2>3. CallFrame /\ call' = c /\ said' = None
    BY <2>1, <2>2 DEF Deploy, Begin, CallFrame, Answered
  <2>4. /\ c \in DeployCalls /\ c.tool = "deploy" /\ c.pc = first /\ c.by = by /\ c.skip = skip /\ c.edits = edits
    BY Counted DEF DeployCalls, YesNo
  <2> HIDE DEF c
  <2>5. Shape(call)' /\ Starts(call)' /\ Weighs(call)' /\ Clears(call)'
    BY <1>1, <2>2, <2>3, <2>4, Counted DEF Shape, Starts, Weighs, Clears, Fresh, CallFrame
  <2> QED BY <1>1, <2>2, <2>3, <2>4, <2>5, CallKeeps
<1> QED BY <1>2, <1>3 DEF Deploy, Refusal, YesNo

LEMMA PreviewKeeps ==
  ASSUME Inv, Preview \/ Teardown, UNCHANGED <<sessionVars, exec, shed>>
  PROVE  Inv'
<1>1. CallFrame /\ UNCHANGED <<started, shed, call>>
  BY DEF Preview, Teardown, CallFrame, Answered
<1>2. call' = NoCall
  BY <1>1, IdleIs DEF CallFrame
<1>3. TypedRuns' /\ (started <= 1 + shed)'
  BY <1>1 DEF Inv, Typed, TypedRuns, CallFrame, Starts
<1>4. said'.is # "built" /\ said'.tool \notin {"run", "verify"}
  <2>1. CASE Preview
    BY <2>1 DEF Preview
  <2>2. CASE Teardown
    BY <2>2 DEF Teardown
  <2> QED BY <2>1, <2>2
<1>5. TypedDeploys'
  <2>1. TypedDeploys
    BY DEF Inv, Typed
  <2>2. CASE Preview
    BY <2>1, <2>2 DEF Preview, TypedDeploys, deployVars
  <2>3. CASE Teardown
    <3>1. PICK is : dep' \in {dep, [dep EXCEPT !.is = is]} /\ is \in {dep.is, "stopping"}
      BY <2>3 DEF Teardown, deployVars
    <3>2. widget' \in {widget, [widget EXCEPT !.points = "nothing"]}
      BY <2>3 DEF Teardown, widgetTeardown, deployVars
    <3> QED BY <2>1, <3>1, <3>2 DEF TypedDeploys, DepStates, Widgets
  <2> QED BY <2>2, <2>3
<1> QED BY <1>1, <1>2, <1>3, <1>4, <1>5, CallKeeps

-----------------------------------------------------------------------------
(* What happens meanwhile, whatever call is under way.                       *)

LEMMA ExecuteKeeps ==
  ASSUME Inv, Execute, UNCHANGED <<sessionVars, widget>>
  PROVE  Inv'
<1>1. PICK is \in ExecStates : exec' = [exec EXCEPT !.is = is] /\ exec.is = "running"
  BY DEF Execute, ExecStates
<1>2. UNCHANGED <<studio, sessionVars, started, shed, dep, widget>> /\ said' = said /\ call' = call
  BY DEF Execute, studio
<1>3. Typed' /\ exec'.nodes = exec.nodes
  BY <1>1, <1>2 DEF Inv, Typed, TypedStudio, TypedWizard, TypedRuns, TypedDeploys, studio, sessionVars
<1>4. Shape(call)'
  BY <1>2 DEF Inv, Shape, VerifyCalls, Defective, studio
<1>5. Goes(call)' /\ Books(call)'
  BY <1>2 DEF Inv, Goes, Books, Free, Mine, studio, sessionVars
<1>6. Starts(call)' /\ Weighs(call)'
  BY <1>2, <1>3 DEF Inv, Starts, Weighs, Doubts, Fresh, Again, studio
<1>7. Clears(call)' /\ Silent' /\ DoneIsDone' /\ VerifiedIsSound'
  BY <1>2 DEF Inv, Clears, Silent, Idle, DoneIsDone, VerifiedIsSound, studio, sessionVars
<1>8. RunReportIsTrue'
  BY <1>1, <1>2 DEF Inv, RunReportIsTrue, studio
<1> QED BY <1>3, <1>4, <1>5, <1>6, <1>7, <1>8 DEF Inv

(* A person does something that a call has not seen.                         *)
Meddles ==
  /\ edits < MaxEdits[task] /\ edits' = edits + 1
  /\ UNCHANGED <<task, kind, stored, trouble, calls, known, call, said, started, shed>> /\ UNCHANGED sessionVars

LEMMA MeddlesKeeps ==
  ASSUME Inv, Meddles, flaws' \in Defective(kind), standing' \in {"draft", "published", "disabled"}, TypedRuns', TypedDeploys',
         exec'.nodes = exec.nodes, exec.is = "succeeded" => exec'.is = "succeeded", kind = "widget" => dep' = dep
  PROVE  Inv'
<1> USE DEF Meddles
<1>1. edits' \in 0 .. MaxEdits[task'] /\ edits' > edits
  BY Counted
<1>2. Typed'
  BY <1>1 DEF Inv, Typed, TypedStudio, TypedWizard, sessionVars
<1>3. Shape(call)'
  BY DEF Inv, Shape, VerifyCalls, Defective
<1>4. Goes(call)' /\ Books(call)'
  BY DEF Inv, Goes, Books, Free, Mine, sessionVars
<1>5. Starts(call)'
  BY DEF Inv, Starts, Fresh, Again
<1>6. call.tool \in {"deploy", "verify"} => call.edits \in Nat /\ call.edits <= edits
  BY Deploying, ShapeOf DEF Inv, Weighs, VerifyCalls
<1>7. Weighs(call)' /\ Clears(call)'
  BY <1>1, <1>6, Counted DEF Inv, Weighs, Clears
<1>8. Silent' /\ DoneIsDone' /\ VerifiedIsSound' /\ RunReportIsTrue'
  BY DEF Inv, Silent, Idle, DoneIsDone, VerifiedIsSound, RunReportIsTrue, sessionVars
<1> QED BY <1>2, <1>3, <1>4, <1>5, <1>7, <1>8 DEF Inv

LEMMA PersonsKeep ==
  ASSUME Inv, \/ Resume /\ UNCHANGED <<sessionVars, widget>>
              \/ Others /\ UNCHANGED <<sessionVars, exec, shed>>
              \/ Person /\ UNCHANGED <<sessionVars, execVars, deployVars>>
  PROVE  Inv'
<1>1. flaws \in Defective(kind) /\ standing \in {"draft", "published", "disabled"} /\ TypedRuns /\ TypedDeploys
  BY DEF Inv, Typed, TypedStudio
<1>2. CASE Resume /\ UNCHANGED <<sessionVars, widget>>
  <2>1. Meddles /\ UNCHANGED <<flaws, standing, dep, widget>> /\ exec' = [exec EXCEPT !.is = "running"] /\ exec.is = "paused"
    BY <1>2 DEF Resume, Meddles
  <2>2. TypedRuns' /\ TypedDeploys' /\ exec'.nodes = exec.nodes
    BY <1>1, <2>1 DEF TypedRuns, TypedDeploys, ExecStates, Meddles
  <2> QED BY <1>1, <2>1, <2>2, MeddlesKeeps
<1>3. CASE Others /\ UNCHANGED <<sessionVars, exec, shed>>
  <2>1. Meddles /\ UNCHANGED <<flaws, standing, exec>>
    BY <1>3 DEF Others, Meddles
  <2>2. TypedRuns' /\ TypedDeploys' /\ (kind = "widget" => dep' = dep)
    BY <1>1, <1>3, <2>1 DEF Others, TypedRuns, TypedDeploys, DepStates, Widgets, YesNo, Meddles
  <2> QED BY <1>1, <2>1, <2>2, MeddlesKeeps
<1>4. CASE Person /\ UNCHANGED <<sessionVars, execVars, deployVars>>
  <2>1. Meddles /\ UNCHANGED <<exec, dep, widget>>
    BY <1>4 DEF Person, Meddles, execVars, deployVars
  <2>2. flaws' \in Defective(kind) /\ standing' \in {"draft", "published", "disabled"}
    BY <1>1, <1>4 DEF Person
  <2>3. TypedRuns' /\ TypedDeploys'
    BY <1>1, <2>1 DEF TypedRuns, TypedDeploys, Meddles
  <2> QED BY <2>1, <2>2, <2>3, MeddlesKeeps
<1> QED BY <1>2, <1>3, <1>4

LEMMA DepMovesKeeps ==
  ASSUME Inv, DepMoves, UNCHANGED <<sessionVars, exec, shed>>
  PROVE  Inv'
<1>1. UNCHANGED <<studio, sessionVars, started, shed, exec, widget>> /\ said' = said /\ call' = call
  BY DEF DepMoves, studio
<1>2. Typed'
  BY <1>1 DEF Inv, Typed, TypedStudio, TypedWizard, TypedRuns, TypedDeploys, DepStates, DepMoves, studio, sessionVars
<1>3. Shape(call)'
  BY <1>1 DEF Inv, Shape, VerifyCalls, Defective, studio
<1>4. Goes(call)' /\ Books(call)'
  BY <1>1 DEF Inv, Goes, Books, Free, Mine, studio, sessionVars
<1>5. Starts(call)' /\ Weighs(call)'
  BY <1>1 DEF Inv, Starts, Weighs, Doubts, Fresh, Again, studio
<1>6. Clears(call)'
  <2>1. call.tool = "deploy" /\ call.pc \in {"saved", "public"} => call.snap.live \in {"running", "failed"} /\ dep.is = call.snap.live
    BY Deploying DEF ReleaseCalls, Releases
  <2>2. dep.is \in {"provisioning", "stopping"}
    BY DEF DepMoves
  <2> QED BY <1>1, <2>1, <2>2 DEF Inv, Clears, studio
<1>7. Silent' /\ DoneIsDone' /\ VerifiedIsSound' /\ RunReportIsTrue'
  BY <1>1 DEF Inv, Silent, Idle, DoneIsDone, VerifiedIsSound, RunReportIsTrue, studio, sessionVars
<1> QED BY <1>2, <1>3, <1>4, <1>5, <1>6, <1>7 DEF Inv

-----------------------------------------------------------------------------
(* The wizards, whatever call is under way.                                  *)

(* A step of the platform's runs.                                            *)
WizardFrame ==
  UNCHANGED <<task, kind, standing, edits, calls, known, call, said>> /\ UNCHANGED <<execVars, deployVars>>

(* A step of the platform that keeps the books of a build keeps Inv.         *)
LEMMA WizardKeeps ==
  ASSUME Inv, WizardFrame, Answered \/ Trouble, flaws' \in Defective(kind), stored' \in Nat, TypedWizard',
         call.tool \in {"verify", "deploy"} => flaws' = flaws, Goes(call)', Books(call)', DoneIsDone'
  PROVE  Inv'
<1> USE DEF WizardFrame
<1>1. trouble' \in 0 .. MaxTrouble[task']
  BY Requested
<1>2. Typed'
  BY <1>1 DEF Inv, Typed, TypedStudio, TypedRuns, TypedDeploys, execVars, deployVars
<1>3. Shape(call)'
  BY DEF Inv, Shape, VerifyCalls, Defective
<1>4. Starts(call)'
  BY DEF Inv, Starts, Fresh, Again, execVars
<1>5. Weighs(call)' /\ Clears(call)'
  BY DEF Inv, Weighs, Doubts, Clears, execVars, deployVars
<1>6. Silent' /\ VerifiedIsSound' /\ RunReportIsTrue'
  BY DEF Inv, Silent, Idle, VerifiedIsSound, RunReportIsTrue, execVars
<1> QED BY <1>2, <1>3, <1>4, <1>5, <1>6 DEF Inv

(* What Inv says of the wizard's run.                                        *)
LEMMA Wizards ==
  ASSUME Inv
  PROVE  /\ session \in Sessions(kind) /\ art \in Defective(kind) /\ flaws \in Defective(kind)
         /\ session.is \in {"none", "running", "done", "failed"} /\ session.saves \in YesNo /\ session.kept \in YesNo
         /\ session.flaws \in Defective(kind)
         /\ Goes(call) /\ Books(call) /\ DoneIsDone
         /\ stored \in Nat /\ unseen \in Nat /\ lapses \in Nat /\ trouble \in Nat /\ calls \in Nat
         /\ {} \in Defective(kind)
<1>1. session \in Sessions(kind) /\ art \in Defective(kind) /\ flaws \in Defective(kind) /\ Goes(call) /\ Books(call) /\ DoneIsDone
  BY DEF Inv, Typed, TypedWizard, TypedStudio
<1>2. session.is \in {"none", "running", "done", "failed"} /\ session.saves \in YesNo /\ session.kept \in YesNo
      /\ session.flaws \in Defective(kind)
  BY <1>1 DEF Sessions
<1>3. {} \in Defective(kind)
  BY DEF Defective
<1> QED BY <1>1, <1>2, <1>3, Counted

(* A run that ends stores what it was to store, and was counted for it.      *)
LEMMA WizardEndsKeeps ==
  ASSUME Inv, WizardEnds, UNCHANGED <<execVars, deployVars>>
  PROVE  Inv'
<1>1. WizardFrame /\ Answered /\ UNCHANGED <<unseen, lapses, art>> /\ session.is = "running"
  BY DEF WizardEnds, WizardFrame, Answered
<1>2. PICK found \in Defective(kind), is \in {"done", "failed"} :
        /\ session' = [session EXCEPT !.is = is, !.flaws = IF is = "done" THEN found ELSE {}]
        /\ CASE is = "done" /\ kind = "module" -> flaws' = flaws \ {"never-built"} /\ UNCHANGED stored
             [] is = "done" /\ kind # "module" /\ session.saves = "yes" -> stored' = stored + 1 /\ flaws' = found
             [] OTHER -> UNCHANGED <<stored, flaws>>
  BY DEF WizardEnds
<1>3. /\ session'.is = is /\ session'.saves = session.saves /\ session'.kept = session.kept
      /\ session' \in Sessions(kind)
  BY <1>2, Wizards DEF Sessions
<1>4. CASE is = "done" /\ kind # "module" /\ session.saves = "yes"
  <2>1. stored' = stored + 1 /\ flaws' = found
    BY <1>2, <1>4
  <2>2. Mine = 1 /\ Mine' = 0
    BY <1>1, <1>3, <1>4 DEF Mine, WizardFrame
  <2>3. Goes(call)'
    BY <1>1, <1>3, <1>4, <2>1, Wizards DEF Goes, WizardFrame
  <2>4. Free(call)' => Free(call)
    BY <1>1, <1>3, <1>4 DEF Free, WizardFrame
  <2>5. Books(call)'
    BY <1>1, <2>1, <2>2, <2>4, Wizards DEF Books, WizardFrame, Answered
  <2>6. DoneIsDone'
    BY <1>1, Wizards DEF DoneIsDone, WizardFrame
  <2>7. call.tool \notin {"verify", "deploy"}
    BY <1>1, Wizards DEF Goes
  <2> QED BY <1>1, <1>3, <2>1, <2>3, <2>5, <2>6, <2>7, Wizards, WizardKeeps DEF TypedWizard, WizardFrame, Defective
<1>5. CASE ~(is = "done" /\ kind # "module" /\ session.saves = "yes")
  <2>1. stored' = stored /\ flaws' \in {flaws, flaws \ {"never-built"}}
    BY <1>2, <1>5
  <2>2. flaws' \in Defective(kind)
    BY <2>1, Wizards DEF Defective
  <2>3. Mine' = 0 /\ Mine \in {0, 1}
    BY <1>1, <1>3 DEF Mine, WizardFrame
  <2>4. Goes(call)'
    BY <1>1, <1>3, <1>5, <2>1, Wizards DEF Goes, WizardFrame
  <2>5. Free(call)' => Free(call) \/ Mine = 1
    BY <1>1, <1>3, <1>5, Wizards DEF Free, Mine, WizardFrame, YesNo
  <2>6. Books(call)'
    BY <1>1, <2>1, <2>3, <2>5, Wizards DEF Books, WizardFrame, Answered
  <2>7. DoneIsDone'
    BY <1>1, Wizards DEF DoneIsDone, WizardFrame
  <2>8. call.tool \notin {"verify", "deploy"}
    BY <1>1, Wizards DEF Goes
  <2> QED BY <1>1, <1>3, <2>1, <2>2, <2>4, <2>6, <2>7, <2>8, Wizards, WizardKeeps DEF TypedWizard, WizardFrame, Defective
<1> QED BY <1>4, <1>5

LEMMA SweepKeeps ==
  ASSUME Inv, Sweep, UNCHANGED <<execVars, deployVars>>
  PROVE  Inv'
<1>1. WizardFrame /\ Answered /\ UNCHANGED <<stored, flaws, unseen, lapses, art>>
  BY DEF Sweep, WizardFrame, Answered, studio
<1>2. /\ session'.is = session.is /\ session'.saves = session.saves /\ session.is \in {"done", "failed"}
      /\ session' \in Sessions(kind)
  BY Wizards DEF Sweep, Sessions, YesNo
<1>3. Mine' = Mine /\ (Free(call)' <=> Free(call))
  BY <1>1, <1>2 DEF Mine, Free, WizardFrame
<1>4. Goes(call)' /\ Books(call)' /\ DoneIsDone'
  BY <1>1, <1>2, <1>3, Wizards DEF Goes, Books, DoneIsDone, WizardFrame, Answered
<1> QED BY <1>1, <1>2, <1>4, Wizards, WizardKeeps DEF TypedWizard, WizardFrame, Defective

(* A run that outlives its session is unseen, and paid for.                  *)
LEMMA ExpireKeeps ==
  ASSUME Inv, Expire, UNCHANGED <<execVars, deployVars>>
  PROVE  Inv'
<1>1. WizardFrame /\ Trouble /\ UNCHANGED <<stored, flaws, art>> /\ session.is = "running" /\ kind # "module"
  BY DEF Expire, WizardFrame
<1>2. session'.is = "failed" /\ session'.saves = "no" /\ session' \in Sessions(kind)
  BY Wizards DEF Expire, Sessions, YesNo
<1>3. /\ lapses' = lapses + Mine /\ unseen' = unseen + Mine /\ Mine' = 0 /\ Mine \in {0, 1}
      /\ trouble' = trouble + 1
  <2>1. Mine' = 0 /\ Mine = (IF session.saves = "yes" THEN 1 ELSE 0) /\ trouble' = trouble + 1
    BY <1>1, <1>2 DEF Mine, Trouble
  <2>2. CASE session.saves = "yes"
    BY <2>1, <2>2 DEF Expire, Lapse
  <2>3. CASE session.saves # "yes"
    BY <2>1, <2>3, Wizards DEF Expire
  <2> QED BY <2>1, <2>2, <2>3
<1>4. Goes(call)'
  BY <1>1, <1>2, Wizards DEF Goes, WizardFrame
<1>5. Free(call)' => Free(call) \/ Mine = 1
  BY <1>1, <1>2, Wizards DEF Free, Mine, WizardFrame, YesNo
<1>6. Books(call)'
  BY <1>1, <1>3, <1>5, Wizards DEF Books, WizardFrame
<1>7. DoneIsDone'
  BY <1>1, Wizards DEF DoneIsDone, WizardFrame
<1>8. TypedWizard'
  BY <1>1, <1>2, <1>3, Wizards DEF TypedWizard, WizardFrame, Defective
<1> QED BY <1>1, <1>4, <1>6, <1>7, <1>8, Wizards, WizardKeeps

LEMMA UnseenEndsKeeps ==
  ASSUME Inv, UnseenEnds, UNCHANGED <<execVars, deployVars>>
  PROVE  Inv'
<1>1. /\ WizardFrame /\ Answered /\ UNCHANGED <<flaws, session, lapses, art>>
      /\ unseen > 0 /\ unseen' = unseen - 1 /\ stored' \in {stored, stored + 1}
  BY DEF UnseenEnds, WizardFrame, Answered
<1>2. Mine' = Mine /\ (Free(call)' <=> Free(call)) /\ Mine \in {0, 1}
  BY <1>1 DEF Mine, Free, WizardFrame
<1>3. Goes(call)'
  BY <1>1, Wizards DEF Goes, WizardFrame
<1>4. Books(call)'
  BY <1>1, <1>2, Wizards DEF Books, WizardFrame, Answered
<1>5. DoneIsDone'
  BY <1>1, Wizards DEF DoneIsDone, WizardFrame
<1>6. TypedWizard' /\ stored' \in Nat
  BY <1>1, Wizards DEF TypedWizard, WizardFrame, Defective, Sessions
<1> QED BY <1>1, <1>3, <1>4, <1>5, <1>6, Wizards, WizardKeeps

-----------------------------------------------------------------------------
(* From a description to a stored artifact.                                  *)

(* A step of the tools that build one.                                       *)
SessionFrame ==
  /\ UNCHANGED <<task, kind, standing, edits>> /\ UNCHANGED <<execVars, deployVars>>
  /\ Answered \/ Trouble
  /\ calls' = calls \/ (calls < MaxCalls[task] /\ calls' = calls + 1)

(* A step of the tools that build that keeps the books keeps Inv.            *)
LEMMA SessionKeeps ==
  ASSUME Inv, SessionFrame, flaws' \in Defective(kind), stored' \in Nat,
         known' \in {"nothing", "session", "artifact", "id", "unsure"}, TypedWizard',
         Shape(call)', call'.tool \in {"none", "build", "status"}, Goes(call)', Books(call)', Silent', DoneIsDone',
         said' = None \/ said' = said \/ said'.tool \notin {"run", "verify"}
  PROVE  Inv'
<1> USE DEF SessionFrame
<1>1. trouble' \in 0 .. MaxTrouble[task'] /\ calls' \in 0 .. MaxCalls[task']
  BY Requested, Counted
<1>2. Typed'
  BY <1>1 DEF Inv, Typed, TypedStudio, TypedRuns, TypedDeploys, execVars, deployVars
<1>3. Starts(call)'
  BY DEF Inv, Starts, execVars
<1>4. Weighs(call)' /\ Clears(call)'
  BY DEF Weighs, Clears
<1>5. RunReportIsTrue' /\ VerifiedIsSound'
  <2>1. CASE said' = None \/ said'.tool \notin {"run", "verify"}
    BY <2>1 DEF RunReportIsTrue, VerifiedIsSound
  <2>2. CASE said' = said
    BY <2>2 DEF Inv, RunReportIsTrue, VerifiedIsSound, execVars
  <2> QED BY <2>1, <2>2
<1> QED BY <1>1, <1>2, <1>3, <1>4, <1>5 DEF Inv

(* What a call that has ended leaves to show.                                *)
LEMMA SessionEnds ==
  ASSUME Inv, SessionFrame, call' = NoCall, flaws' \in Defective(kind), stored' \in Nat,
         known' \in {"nothing", "session", "artifact", "id", "unsure"}, TypedWizard', Goes(call)', Books(call)', DoneIsDone',
         said' = None \/ said' = said \/ said'.tool \notin {"run", "verify"}
  PROVE  Inv'
<1>1. Shape(call)' /\ call'.tool = "none" /\ Silent'
  BY NothingIs DEF Shape, Silent, Idle
<1> QED BY <1>1, SessionKeeps

(* What Inv says of a build, or a look at one, that is under way.            *)
LEMMA Building ==
  ASSUME Inv, call.tool \in {"build", "status"}
  PROVE  /\ call.tool = "build" => call \in Builds /\ known = "nothing"
         /\ call.tool = "status" => call \in Lookups /\ known = "session" /\ call.pc = "poll"
         /\ said = None /\ call.pc \in {"post", "build", "poll"}
<1>1. /\ call.tool = "build" => call \in Builds
      /\ call.tool = "status" => call \in Lookups
  BY ShapeOf DEF Inv
<1>2. said = None
  BY DEF Inv, Silent, Idle
<1> QED BY <1>1, <1>2 DEF Inv, Goes, Builds, Lookups

(* A call goes on: it still asks, or looks.                                  *)
LEMMA SessionGoesOn ==
  ASSUME Inv, SessionFrame, call'.tool = call.tool, call'.tool \in {"build", "status"}, said' = said,
         call' \in Builds \cup Lookups,
         flaws' \in Defective(kind), stored' \in Nat, known' = known, TypedWizard', Goes(call)', Books(call)'
  PROVE  Inv'
<1>1. said = None
  BY Building
<1>2. Silent' /\ DoneIsDone' /\ Shape(call)'
  BY <1>1 DEF Silent, DoneIsDone, Shape
<1> QED BY <1>1, <1>2, Building, SessionKeeps

LEMMA PostWizardKeeps ==
  ASSUME Inv, kind # "module", NEW saves \in YesNo, PostWizard(saves), UNCHANGED <<execVars, deployVars>>
  PROVE  Inv'
<1>1. SessionFrame /\ call.tool = "build" /\ call.pc = "post" /\ UNCHANGED <<stored, flaws, known, calls, art>>
  BY DEF PostWizard, SessionFrame, At, Answered
<1>2. /\ call \in Builds /\ known = "nothing" /\ said = None
      /\ lapses + 1 <= calls + trouble /\ unseen <= lapses /\ Mine \in {0, 1} /\ stored + unseen + Mine <= lapses
  BY <1>1, Building, Wizards DEF Books, Free, Mine
<1>3. CASE /\ Answered /\ session' = Started(saves)
           /\ call' = [call EXCEPT !.pc = "poll", !.saves = saves] /\ UNCHANGED <<said, unseen, lapses>>
  <2>1. call' \in Builds /\ call'.tool = "build" /\ call'.pc = "poll"
    BY <1>2, <1>3 DEF Builds
  <2>2. session' \in Sessions(kind) /\ session'.is = "running" /\ session'.saves = saves /\ session'.kept = "yes"
    BY <1>3, Wizards DEF Started, Sessions, YesNo
  <2>3. TypedWizard'
    BY <1>1, <1>3, <2>2, Wizards DEF TypedWizard, SessionFrame, Sessions, Defective
  <2>4. Goes(call)'
    BY <1>1, <1>2, <2>1, <2>2 DEF Goes, SessionFrame
  <2>5. Mine' \in {0, 1} /\ (Free(call)' => Mine' = 0)
    BY <1>1, <1>2, <2>1, <2>2 DEF Mine, Free, SessionFrame
  <2>6. Books(call)'
    BY <1>1, <1>2, <1>3, <2>1, <2>5, Wizards DEF Books, Answered
  <2> QED BY <1>1, <1>3, <2>1, <2>3, <2>4, <2>6, Wizards, SessionGoesOn
<1>4. CASE /\ Trouble /\ Return(Thrown) /\ UNCHANGED session
           /\ \/ unseen' = unseen + (IF saves = "yes" THEN 1 ELSE 0) /\ Lapse(saves = "yes")
              \/ UNCHANGED <<unseen, lapses>>
  <2>1. call' = NoCall /\ call'.tool = "none" /\ call'.pc = "idle" /\ said'.tool = "build" /\ said'.is = "error"
    BY <1>1, <1>4, NothingIs DEF Return, Thrown
  <2>2. PICK n \in {0, 1} : unseen' = unseen + n /\ lapses' = lapses + n
    BY <1>4, Wizards DEF Lapse
  <2>3. TypedWizard'
    BY <1>1, <1>4, <2>2, Wizards DEF TypedWizard, SessionFrame, Sessions, Defective
  <2>4. Goes(call)'
    BY <1>1, <1>2, <1>4, <2>1, Wizards DEF Goes, SessionFrame
  <2>5. Mine' = Mine
    BY <1>1, <1>4 DEF Mine, SessionFrame
  <2>6. Books(call)'
    BY <1>1, <1>2, <1>4, <2>1, <2>2, <2>5, Wizards DEF Books, Trouble
  <2>7. DoneIsDone'
    BY <2>1 DEF DoneIsDone
  <2> QED BY <1>1, <1>2, <2>1, <2>3, <2>4, <2>6, <2>7, Wizards, SessionEnds
<1> QED BY <1>3, <1>4 DEF PostWizard

LEMMA BuildsKeep ==
  ASSUME Inv, BuildWorkflow \/ BuildAgent \/ BuildChatflow \/ BuildWidget \/ BuildApplication, UNCHANGED <<execVars, deployVars>>
  PROVE  Inv'
<1>1. PICK saves \in {call.saves, "yes", "no"} : PostWizard(saves) /\ kind # "module"
  BY DEF BuildWorkflow, BuildAgent, BuildChatflow, BuildWidget, BuildApplication
<1>2. call.saves \in YesNo
  BY <1>1, Building DEF PostWizard, At, Builds
<1> QED BY <1>1, <1>2, PostWizardKeeps DEF YesNo

LEMMA BuildModuleKeeps ==
  ASSUME Inv, BuildModule, UNCHANGED <<execVars, deployVars>>
  PROVE  Inv'
<1>1. /\ SessionFrame /\ call.tool = "build" /\ call.pc \in {"post", "build"} /\ kind = "module"
      /\ UNCHANGED <<known, calls, unseen, art>>
  BY DEF BuildModule, SessionFrame, At, Answered
<1>2. /\ call \in Builds /\ known = "nothing" /\ said = None
      /\ lapses + 1 <= calls + trouble /\ unseen <= lapses /\ Mine = 0 /\ stored + unseen <= 1 + lapses
      /\ call.pc = "post" => stored + unseen <= lapses
      /\ call.pc = "build" => stored > 0
  BY <1>1, Building, Wizards DEF Books, Free, Mine, Goes
<1>3. Mine' = 0
  BY <1>1 DEF Mine, SessionFrame
<1>4. CASE At("build", "post") /\ Answered /\ stored' = stored + 1 /\ Goto("build") /\ UNCHANGED <<lapses, session>>
  <2>1. call' \in Builds /\ call'.tool = "build" /\ call'.pc = "build" /\ said' = said
    BY <1>2, <1>4 DEF Builds, Goto
  <2>2. flaws' \in Defective(kind)
    <3>1. flaws' \in {flaws, {"never-built"}, {"no-resources"}}
      BY <1>1, <1>4 DEF BuildModule, At
    <3>2. {{"never-built"}, {"no-resources"}} \subseteq Defective("module")
      BY DEF Defective, FlawsOf
    <3> QED BY <1>1, <3>1, <3>2, Wizards
  <2>3. TypedWizard'
    BY <1>1, <1>4, Wizards DEF TypedWizard, SessionFrame, Sessions, Defective
  <2>4. Goes(call)'
    BY <1>1, <1>2, <1>4, <2>1, Wizards DEF Goes, SessionFrame
  <2>5. Books(call)'
    BY <1>1, <1>2, <1>3, <1>4, <2>1, Wizards DEF Books, Free, Answered, At
  <2> QED BY <1>1, <1>4, <2>1, <2>2, <2>3, <2>4, <2>5, Wizards, SessionGoesOn
<1>5. CASE /\ Trouble /\ Return(Thrown) /\ UNCHANGED <<flaws, session>>
           /\ \/ stored' \in {stored, stored + 1} /\ lapses' = lapses + (stored' - stored) /\ At("build", "post")
              \/ stored' = stored /\ lapses' = lapses + 1
  <2>1. call' = NoCall /\ call'.tool = "none" /\ call'.pc = "idle" /\ said'.tool = "build" /\ said'.is = "error"
    BY <1>1, <1>5, NothingIs DEF Return, Thrown
  <2>2. stored' \in Nat /\ lapses' \in Nat /\ stored' >= stored /\ lapses' >= lapses /\ lapses' <= lapses + 1 /\ stored' + unseen <= lapses'
    BY <1>2, <1>5, Wizards DEF At
  <2>3. TypedWizard'
    BY <1>1, <1>5, <2>2, Wizards DEF TypedWizard, SessionFrame, Sessions, Defective
  <2>4. Goes(call)'
    BY <1>1, <1>2, <1>5, <2>1, <2>2, Wizards DEF Goes, SessionFrame
  <2>5. Books(call)'
    BY <1>1, <1>2, <1>3, <1>5, <2>1, <2>2, Wizards DEF Books, Trouble
  <2>6. DoneIsDone'
    BY <2>1 DEF DoneIsDone
  <2> QED BY <1>1, <1>2, <1>5, <2>1, <2>2, <2>3, <2>4, <2>5, <2>6, Wizards, SessionEnds
<1>6. CASE At("build", "build") /\ Answered /\ session' = Started("yes") /\ Goto("poll") /\ UNCHANGED <<lapses, stored, flaws>>
  <2>1. call' \in Builds /\ call'.tool = "build" /\ call'.pc = "poll" /\ said' = said
    BY <1>2, <1>6 DEF Builds, Goto
  <2>2. session' \in Sessions(kind) /\ session'.is = "running" /\ session'.saves = "yes" /\ session'.kept = "yes"
    BY <1>6, Wizards DEF Started, Sessions, YesNo
  <2>3. TypedWizard'
    BY <1>1, <1>6, <2>2, Wizards DEF TypedWizard, SessionFrame, Sessions, Defective
  <2>4. Goes(call)'
    BY <1>1, <1>2, <1>6, <2>1, <2>2 DEF Goes, SessionFrame, At
  <2>5. Books(call)'
    BY <1>1, <1>2, <1>3, <1>6, <2>1, Wizards DEF Books, Free, SessionFrame, Answered
  <2> QED BY <1>1, <1>6, <2>1, <2>3, <2>4, <2>5, Wizards, SessionGoesOn
<1>7. CASE At("build", "post")
  <2>1. CASE Answered /\ stored' = stored + 1 /\ Goto("build") /\ UNCHANGED <<lapses, session>>
    BY <1>4, <1>7, <2>1
  <2>2. CASE Trouble /\ Return(Thrown) /\ UNCHANGED <<flaws, session>> /\ (stored' = stored + 1 /\ Lapse(TRUE))
    BY <1>5, <1>7, <2>2, Wizards DEF Lapse
  <2>3. CASE Trouble /\ Return(Thrown) /\ UNCHANGED <<flaws, session>> /\ UNCHANGED <<stored, lapses>>
    BY <1>5, <1>7, <2>3, Wizards
  <2> QED BY <1>7, <2>1, <2>2, <2>3 DEF BuildModule, At
<1>8. CASE At("build", "build")
  <2>1. CASE Answered /\ session' = Started("yes") /\ Goto("poll") /\ UNCHANGED <<lapses, stored, flaws>>
    BY <1>6, <1>8, <2>1
  <2>2. CASE Trouble /\ Return(Thrown) /\ Lapse(TRUE) /\ UNCHANGED <<session, stored, flaws>>
    BY <1>5, <2>2, Wizards DEF Lapse
  <2> QED BY <1>8, <2>1, <2>2 DEF BuildModule, At
<1> QED BY <1>7, <1>8 DEF BuildModule

LEMMA BuildMcpKeeps ==
  ASSUME Inv, BuildMcp, UNCHANGED <<execVars, deployVars>>
  PROVE  Inv'
<1>1. /\ SessionFrame /\ call.tool = "build" /\ call.pc = "post" /\ kind = "mcpServer"
      /\ UNCHANGED <<known, calls, unseen, art>>
  BY DEF BuildMcp, SessionFrame, At, Answered
<1>2. /\ call \in Builds /\ call.saves \in YesNo /\ known = "nothing" /\ said = None
      /\ lapses + 1 <= calls + trouble /\ unseen <= lapses /\ Mine \in {0, 1} /\ stored + unseen + Mine <= lapses
  <2>1. call \in Builds
    BY <1>1, Building
  <2> QED BY <1>1, <2>1, Building, Wizards DEF Books, Free, Mine, Builds
<1>3. CASE Answered /\ Goto("poll") /\ UNCHANGED lapses
  <2>1. PICK found \in Defective(kind), is \in {"done", "failed"} :
          /\ session' = [Started(call.saves) EXCEPT !.is = is, !.flaws = found,
                                                    !.saves = IF is = "done" THEN @ ELSE "no"]
          /\ IF session'.saves = "yes" THEN stored' = stored + 1 /\ flaws' = found ELSE UNCHANGED <<stored, flaws>>
    <3>1. ~Trouble
      BY <1>3, Wizards DEF Trouble, Answered
    <3> QED BY <3>1, Zenon DEF BuildMcp
  <2>2. /\ session' \in Sessions(kind) /\ session'.is = is /\ session'.kept = "yes"
        /\ session'.saves = IF is = "done" THEN call.saves ELSE "no"
    BY <1>2, <2>1, Wizards DEF Started, Sessions, YesNo
  <2>3. call' \in Builds /\ call'.tool = "build" /\ call'.pc = "poll" /\ said' = said
    BY <1>2, <1>3 DEF Builds, Goto
  <2>4. stored' = stored + (IF session'.saves = "yes" THEN 1 ELSE 0) /\ flaws' \in Defective(kind)
    BY <2>1, Wizards
  <2>5. TypedWizard'
    BY <1>1, <1>3, <2>2, Wizards DEF TypedWizard, SessionFrame, Sessions, Defective
  <2>6. Goes(call)'
    BY <1>1, <1>2, <2>2, <2>3, <2>4, Wizards DEF Goes, SessionFrame
  <2>7. Mine' = 0 /\ (Free(call)' => session'.saves = "no")
    BY <1>1, <1>2, <2>2, <2>3 DEF Mine, Free
  <2>8. Books(call)'
    BY <1>1, <1>2, <1>3, <2>3, <2>4, <2>7, Wizards DEF Books, Answered
  <2> QED BY <1>1, <2>3, <2>4, <2>5, <2>6, <2>8, Wizards, SessionGoesOn
<1>4. CASE Trouble /\ Return(Thrown)
  <2>1. call' = NoCall /\ call'.tool = "none" /\ call'.pc = "idle" /\ said'.tool = "build" /\ said'.is = "error"
    BY <1>1, <1>4, NothingIs DEF Return, Thrown
  <2>2. PICK n \in {0, 1} : stored' = stored + n /\ lapses' = lapses + n
    <3>1. trouble' # trouble
      BY <1>4, Wizards DEF Trouble
    <3>2. (stored' = stored + 1 /\ Lapse(TRUE)) \/ UNCHANGED <<stored, lapses>>
      BY <3>1, Zenon DEF BuildMcp, Answered
    <3> QED BY <3>2, Wizards DEF Lapse
  <2>3. UNCHANGED <<session, flaws>>
    <3>1. trouble' # trouble
      BY <1>4, Wizards DEF Trouble
    <3> QED BY <3>1, Zenon DEF BuildMcp, Answered
  <2>4. TypedWizard'
    BY <1>1, <2>2, <2>3, Wizards DEF TypedWizard, SessionFrame, Sessions, Defective
  <2>5. Goes(call)'
    BY <1>1, <1>2, <2>1, <2>2, <2>3, Wizards DEF Goes, SessionFrame
  <2>6. Mine' = Mine
    BY <1>1, <2>3 DEF Mine, SessionFrame
  <2>7. Books(call)'
    BY <1>1, <1>2, <1>4, <2>1, <2>2, <2>6, Wizards DEF Books, Trouble
  <2>8. DoneIsDone'
    BY <2>1 DEF DoneIsDone
  <2> QED BY <1>1, <1>2, <2>1, <2>2, <2>3, <2>4, <2>5, <2>7, <2>8, Wizards, SessionEnds
<1> QED BY <1>3, <1>4 DEF BuildMcp

(* A look at the wizard's run.                                               *)
LEMMA PollingIs ==
  ASSUME Inv, Polling
  PROVE  /\ call.tool \in {"build", "status"} /\ call.pc = "poll" /\ call \in Builds \cup Lookups /\ said = None
         /\ call.tool = "build" => known = "nothing"
         /\ call.tool = "status" => known = "session"
         /\ session.is # "none"
  BY Building, Wizards DEF Polling, Goes

LEMMA SnapIs ==
  ASSUME Inv, NEW snap, snap = IF kind = "module" THEN moduleSnapshot ELSE toSnapshot
  PROVE  /\ snap \in Snapshots
         /\ snap.done = "no" <=> session.is = "running"
         /\ snap.failed <=> session.is = "failed"
         /\ snap.id = "yes" <=> (kind = "module" \/ (session.is = "done" /\ session.saves = "yes"))
<1>1. toSnapshot \in Snapshots
  BY DEF toSnapshot, Snapshots, YesNo
<1> QED BY <1>1 DEF toSnapshot, moduleSnapshot, Snapshots, YesNo

LEMMA PolledKeeps ==
  ASSUME Inv, Polled, UNCHANGED <<execVars, deployVars>>
  PROVE  Inv'
<1>1. /\ SessionFrame /\ Polling /\ UNCHANGED <<stored, flaws, calls, trouble>> /\ UNCHANGED <<session, unseen, lapses>>
  BY DEF Polled, SessionFrame, Answered
<1>2. PICK snap : /\ snap = IF kind = "module" THEN moduleSnapshot ELSE toSnapshot
                  /\ IF snap.done = "yes" THEN terminalPayload(snap)
                     ELSE call' = [call EXCEPT !.snap = snap] /\ UNCHANGED <<said, known, art>>
  BY DEF Polled
<1>3. /\ snap \in Snapshots
      /\ snap.done = "no" <=> session.is = "running"
      /\ snap.failed <=> session.is = "failed"
      /\ snap.id = "yes" <=> (kind = "module" \/ (session.is = "done" /\ session.saves = "yes"))
  BY <1>2, SnapIs
<1>4. Mine' = Mine
  BY <1>1 DEF Mine, SessionFrame
<1>5. CASE snap.done = "yes"
  <2>1. /\ call' = NoCall /\ call'.tool = "none" /\ call'.pc = "idle"
        /\ said' = [tool |-> call.tool, is |-> "built", done |-> "yes", persisted |-> snap.id]
        /\ known' = IF snap.id = "yes" THEN "id" ELSE IF snap.failed THEN "nothing" ELSE "artifact"
        /\ art' = session.flaws
    BY <1>2, <1>5, NothingIs DEF terminalPayload, Return
  <2>2. session.is # "running"
    BY <1>3, <1>5
  <2>3. snap.id = "yes" => stored > 0
    BY <1>1, <1>3, PollingIs, Wizards DEF Goes
  <2>4. TypedWizard'
    BY <1>1, <2>1, Wizards DEF TypedWizard, SessionFrame, Sessions, Defective
  <2>5. Goes(call)'
    BY <1>1, <2>1, <2>2, Wizards DEF Goes, SessionFrame
  <2>6. Free(call)' => Free(call)
    BY <1>1, <1>3, <2>1, <2>2, PollingIs, Wizards DEF Free, SessionFrame, YesNo
  <2>7. Books(call)'
    BY <1>1, <1>4, <2>1, <2>6, Wizards DEF Books
  <2>8. DoneIsDone'
    BY <1>1, <1>3, <2>1, <2>2, <2>3 DEF DoneIsDone, SessionFrame
  <2>9. said'.tool \notin {"run", "verify"}
    BY <1>1, <2>1, PollingIs
  <2> QED BY <1>1, <2>1, <2>4, <2>5, <2>7, <2>8, <2>9, Wizards, SessionEnds
<1>6. CASE snap.done # "yes"
  <2>1. call' = [call EXCEPT !.snap = snap] /\ UNCHANGED <<said, known, art>>
    BY <1>2, <1>6
  <2>2. call' \in Builds \cup Lookups /\ call'.tool = call.tool /\ call'.pc = "poll"
    BY <1>1, <1>3, <2>1, PollingIs DEF Builds, Lookups
  <2>3. TypedWizard'
    BY <1>1, <2>1, Wizards DEF TypedWizard, SessionFrame, Sessions, Defective
  <2>4. Goes(call)'
    BY <1>1, <2>1, <2>2, PollingIs, Wizards DEF Goes, SessionFrame
  <2>5. Free(call)' => Free(call)
    BY <1>1, <2>1, <2>2, PollingIs DEF Free, SessionFrame
  <2>6. Books(call)'
    BY <1>1, <1>4, <2>2, <2>5, Wizards DEF Books
  <2> QED BY <1>1, <2>1, <2>2, <2>3, <2>4, <2>6, PollingIs, Wizards, SessionGoesOn
<1> QED BY <1>5, <1>6

(* A session that is lost may still store: a lapse pays for it.              *)
LEMMA PollFailedKeeps ==
  ASSUME Inv, PollFailed, UNCHANGED <<execVars, deployVars>>
  PROVE  Inv'
<1>1. /\ SessionFrame /\ Polling /\ kind # "mcpServer" /\ UNCHANGED <<stored, flaws, calls, art>>
      /\ IF session.kept = "yes" THEN Trouble ELSE Answered
  BY DEF PollFailed, SessionFrame
<1>2. trouble' \in Nat /\ trouble' >= trouble
  BY <1>1, Wizards DEF Trouble, Answered
<1>3. CASE UNCHANGED <<call, said, known, session, unseen, lapses>>
  <2>1. TypedWizard' /\ Goes(call)'
    BY <1>1, <1>3, Wizards DEF TypedWizard, Goes, SessionFrame, Sessions, Defective
  <2>2. Mine' = Mine /\ (Free(call)' => Free(call))
    BY <1>1, <1>3 DEF Mine, Free, SessionFrame
  <2>3. Books(call)'
    BY <1>1, <1>2, <1>3, <2>2, Wizards DEF Books
  <2> QED BY <1>1, <1>3, <2>1, <2>3, PollingIs, Wizards, SessionGoesOn
<1>4. CASE /\ call.tool = "status" /\ UNCHANGED <<session, unseen, lapses>>
           /\ \/ Return(Thrown) /\ UNCHANGED known
              \/ session.kept = "no" /\ Return([tool |-> "status", is |-> "SESSION_NOT_FOUND"]) /\ known' = "unsure"
  <2>1. /\ call' = NoCall /\ call'.tool = "none" /\ call'.pc = "idle" /\ said'.tool = "status" /\ said'.is # "built"
        /\ known' = "session" \/ (known' = "unsure" /\ session.kept = "no")
    BY <1>1, <1>4, NothingIs, PollingIs DEF Return, Thrown
  <2>2. TypedWizard'
    BY <1>1, <1>4, Wizards DEF TypedWizard, SessionFrame, Sessions, Defective
  <2>3. Goes(call)'
    BY <1>1, <1>4, <2>1, PollingIs, Wizards DEF Goes, SessionFrame
  <2>4. Mine' = Mine /\ (Free(call)' => Free(call))
    BY <1>1, <1>4, <2>1, PollingIs DEF Mine, Free, SessionFrame
  <2>5. Books(call)'
    BY <1>1, <1>2, <1>4, <2>1, <2>4, Wizards DEF Books
  <2>6. DoneIsDone'
    BY <2>1 DEF DoneIsDone
  <2> QED BY <1>1, <1>4, <2>1, <2>2, <2>3, <2>5, <2>6, Wizards, SessionEnds
<1>5. CASE /\ call.tool = "build" /\ Return(Thrown) /\ known' = "nothing"
           /\ IF session.saves = "yes" THEN LoseSight ELSE UNCHANGED <<session, unseen, lapses>>
  <2>1. call' = NoCall /\ call'.tool = "none" /\ call'.pc = "idle" /\ said'.tool = "build" /\ said'.is = "error"
    BY <1>5, NothingIs DEF Return, Thrown
  <2>2. CASE session.saves = "yes" /\ session.is = "running" /\ kind # "module"
    <3>1. lapses' = lapses + 1 /\ unseen' = unseen + 1 /\ session' = NoSession
      BY <1>5, <2>2 DEF LoseSight, Lapse
    <3>2. Mine = 1 /\ Mine' = 0 /\ session' \in Sessions(kind) /\ session'.is = "none"
      BY <2>2, <3>1 DEF Mine, NoSession, Sessions, YesNo, Defective
    <3>3. TypedWizard'
      BY <1>1, <3>1, <3>2, Wizards DEF TypedWizard, SessionFrame, Sessions, Defective
    <3>4. Goes(call)'
      BY <1>1, <1>5, <2>1, <3>1, <3>2 DEF Goes, SessionFrame
    <3>5. Books(call)'
      BY <1>1, <1>2, <1>5, <2>1, <3>1, <3>2, Wizards DEF Books
    <3>6. DoneIsDone'
      BY <2>1 DEF DoneIsDone
    <3> QED BY <1>1, <1>5, <2>1, <3>3, <3>4, <3>5, <3>6, Wizards, SessionEnds
  <2>3. CASE ~(session.saves = "yes" /\ session.is = "running" /\ kind # "module")
    <3>1. /\ UNCHANGED <<session, unseen>>
          /\ lapses' = lapses + (IF session.saves = "yes" THEN 1 ELSE 0)
      <4>1. CASE session.saves = "yes"
        BY <1>5, <2>3, <4>1 DEF LoseSight, Lapse
      <4>2. CASE session.saves # "yes"
        BY <1>5, <4>2, Wizards
      <4> QED BY <4>1, <4>2
    <3>2. Mine = 0 /\ Mine' = 0
      BY <1>1, <2>3, <3>1 DEF Mine, SessionFrame
    <3>3. TypedWizard'
      BY <1>1, <3>1, Wizards DEF TypedWizard, SessionFrame, Sessions, Defective
    <3>4. Goes(call)'
      BY <1>1, <1>5, <2>1, <3>1, Wizards DEF Goes, SessionFrame
    <3>5. session.saves = "no" => Free(call)
      BY <1>1, PollingIs, Wizards DEF Free, Goes
    <3>6. Books(call)'
      BY <1>1, <1>2, <1>5, <2>1, <3>1, <3>2, <3>5, Wizards DEF Books, YesNo
    <3>7. DoneIsDone'
      BY <2>1 DEF DoneIsDone
    <3> QED BY <1>1, <1>5, <2>1, <3>3, <3>4, <3>6, <3>7, Wizards, SessionEnds
  <2> QED BY <2>2, <2>3
<1>6. CASE call.snap # None
  BY <1>3, <1>6 DEF PollFailed
<1>7. CASE call.snap = None /\ call.tool = "status"
  BY <1>4, <1>7, Wizards DEF PollFailed, YesNo
<1>8. CASE call.snap = None /\ call.tool = "build"
  BY <1>5, <1>8 DEF PollFailed
<1> QED BY <1>1, <1>6, <1>7, <1>8, PollingIs

LEMMA GiveUpKeeps ==
  ASSUME Inv, GiveUp, UNCHANGED <<execVars, deployVars>>
  PROVE  Inv'
<1>1. SessionFrame /\ Polling /\ UNCHANGED <<stored, flaws, calls, trouble>> /\ UNCHANGED sessionVars
  BY DEF GiveUp, SessionFrame, Answered
<1>2. /\ call' = NoCall /\ call'.tool = "none" /\ call'.pc = "idle" /\ said'.tool = call.tool /\ said'.is = "building"
      /\ known' = "session"
  BY NothingIs DEF GiveUp, Return
<1>3. TypedWizard' /\ Goes(call)'
  BY <1>1, <1>2, PollingIs, Wizards DEF TypedWizard, Goes, SessionFrame, Sessions, Defective, sessionVars
<1>4. Mine' = Mine /\ (Free(call)' => Free(call))
  BY <1>1, <1>2, PollingIs DEF Mine, Free, SessionFrame, sessionVars
<1>5. Books(call)'
  BY <1>1, <1>2, <1>4, Wizards DEF Books, sessionVars
<1>6. DoneIsDone' /\ said'.tool \notin {"run", "verify"}
  BY <1>1, <1>2, PollingIs DEF DoneIsDone
<1> QED BY <1>1, <1>2, <1>3, <1>5, <1>6, Wizards, SessionEnds

-----------------------------------------------------------------------------
(* The calls of the tools that build one.                                    *)

LEMMA BuildBegins ==
  ASSUME Inv, Build, UNCHANGED <<execVars, deployVars>>
  PROVE  Inv'
<1>1. PICK saves \in YesNo : Begin([tool |-> "build", pc |-> "post", saves |-> saves, snap |-> None])
  BY DEF Build, YesNo
<1>2. /\ SessionFrame /\ Answered /\ known = "nothing" /\ calls' = calls + 1
      /\ UNCHANGED <<stored, flaws, known>> /\ UNCHANGED <<session, unseen, lapses, art>>
  BY <1>1 DEF Build, Begin, SessionFrame, Answered, sessionVars
<1>3. call = NoCall /\ call.tool = "none" /\ call.pc = "idle"
  BY <1>1, IdleIs, NothingIs DEF Begin
<1>4. call' \in Builds /\ call'.tool = "build" /\ call'.pc = "post" /\ said' = None
  BY <1>1 DEF Begin, Builds
<1>5. Shape(call)' /\ Silent' /\ DoneIsDone'
  BY <1>4 DEF Shape, Silent, DoneIsDone
<1>6. TypedWizard'
  BY <1>2, Wizards DEF TypedWizard, SessionFrame, Sessions, Defective
<1>7. Goes(call)'
  BY <1>2, <1>4, Wizards DEF Goes, SessionFrame
<1>8. Mine' = Mine /\ Mine \in {0, 1} /\ Free(call)
  BY <1>2, <1>3 DEF Mine, Free, SessionFrame
<1>9. Books(call)'
  BY <1>2, <1>3, <1>4, <1>8, Wizards DEF Books, Answered
<1> QED BY <1>2, <1>4, <1>5, <1>6, <1>7, <1>9, Wizards, SessionKeeps

LEMMA StatusBegins ==
  ASSUME Inv, Status, UNCHANGED <<execVars, deployVars>>
  PROVE  Inv'
<1>1. Begin([tool |-> "status", pc |-> "poll", snap |-> None])
  BY DEF Status
<1>2. /\ SessionFrame /\ Answered /\ known = "session" /\ calls' = calls + 1
      /\ UNCHANGED <<stored, flaws, known>> /\ UNCHANGED <<session, unseen, lapses, art>>
  BY <1>1 DEF Status, Begin, SessionFrame, Answered, sessionVars
<1>3. call = NoCall /\ call.tool = "none" /\ call.pc = "idle"
  BY <1>1, IdleIs, NothingIs DEF Begin
<1>4. call' \in Lookups /\ call'.tool = "status" /\ call'.pc = "poll" /\ said' = None
  BY <1>1 DEF Begin, Lookups
<1>5. Shape(call)' /\ Silent' /\ DoneIsDone'
  BY <1>4 DEF Shape, Silent, DoneIsDone
<1>6. TypedWizard'
  BY <1>2, Wizards DEF TypedWizard, SessionFrame, Sessions, Defective
<1>7. Goes(call)'
  BY <1>2, <1>4, Wizards DEF Goes, SessionFrame
<1>8. Mine' = Mine /\ Mine \in {0, 1} /\ (Free(call)' => Free(call))
  BY <1>2, <1>4 DEF Mine, Free, SessionFrame
<1>9. Books(call)'
  BY <1>2, <1>3, <1>4, <1>8, Wizards DEF Books, Answered
<1> QED BY <1>2, <1>4, <1>5, <1>6, <1>7, <1>9, Wizards, SessionKeeps

(* A call that is answered in one step, and stores nothing.                  *)
LEMMA AsidesKeep ==
  ASSUME Inv, Idle, call' = call, SessionFrame, UNCHANGED <<stored, flaws, known>>, UNCHANGED <<session, unseen, lapses>>,
         art' \in Defective(kind), said'.is # "built", said'.tool \notin {"run", "verify"}
  PROVE  Inv'
<1>1. call = NoCall /\ call.tool = "none" /\ call' = NoCall
  BY IdleIs, NothingIs
<1>2. TypedWizard'
  BY Wizards DEF TypedWizard, SessionFrame, Sessions, Defective
<1>3. Goes(call)'
  BY Wizards DEF Goes, SessionFrame
<1>4. Mine' = Mine /\ Mine \in {0, 1} /\ (Free(call)' <=> Free(call))
  BY DEF Mine, Free, SessionFrame
<1>5. trouble' \in Nat /\ trouble' >= trouble /\ calls' \in Nat /\ calls' >= calls
  BY Wizards, Requested DEF SessionFrame, Trouble, Answered
<1>6. Books(call)'
  BY <1>1, <1>4, <1>5, Wizards DEF Books
<1>7. DoneIsDone' /\ TypedStudio
  BY DEF DoneIsDone, Inv, Typed
<1> QED BY <1>1, <1>2, <1>3, <1>6, <1>7, Wizards, SessionEnds DEF TypedStudio

LEMMA AsksKeep ==
  ASSUME Inv, Steer \/ Validate \/ Refine, UNCHANGED <<execVars, deployVars>>
  PROVE  Inv'
<1>1. CASE Steer
  <2>1. /\ Idle /\ call' = call /\ SessionFrame /\ UNCHANGED <<stored, flaws, known>> /\ UNCHANGED <<session, unseen, lapses, art>>
        /\ said'.tool = "steer" /\ said'.is \in {"accepted", "inactive"}
    BY <1>1 DEF Steer, SessionFrame, Answered, sessionVars
  <2> QED BY <2>1, Wizards, AsidesKeep
<1>2. CASE Validate
  <2>1. /\ Idle /\ call' = call /\ SessionFrame /\ UNCHANGED <<stored, flaws, known>> /\ UNCHANGED <<session, unseen, lapses, art>>
        /\ said'.tool = "validate" /\ said'.is = "report"
    BY <1>2 DEF Validate, SessionFrame, Answered, sessionVars
  <2> QED BY <2>1, Wizards, AsidesKeep
<1>3. CASE Refine
  <2>1. /\ Idle /\ call' = call /\ SessionFrame /\ UNCHANGED <<stored, flaws, known>> /\ UNCHANGED <<session, unseen, lapses>>
        /\ said'.tool = "refine" /\ said'.is \in {"refined", "error"} /\ (art' = art \/ art' \in Defective(kind))
    BY <1>3 DEF Refine, SessionFrame
  <2> QED BY <2>1, Wizards, AsidesKeep
<1> QED BY <1>1, <1>2, <1>3

LEMMA CheckListKeeps ==
  ASSUME Inv, CheckList, UNCHANGED <<execVars, deployVars>>
  PROVE  Inv'
<1>1. /\ SessionFrame /\ Answered /\ Idle /\ known = "unsure" /\ known' = (IF stored > 0 THEN "id" ELSE "nothing")
      /\ UNCHANGED <<calls, stored, flaws, call, said>> /\ UNCHANGED <<session, unseen, lapses, art>>
  BY DEF CheckList, SessionFrame, Answered, sessionVars
<1>2. call = NoCall /\ call.tool = "none" /\ call.pc = "idle" /\ call' = NoCall
  BY <1>1, IdleIs, NothingIs
<1>3. session.is # "running"
  BY <1>1, Wizards DEF Goes
<1>4. TypedWizard'
  BY <1>1, Wizards DEF TypedWizard, SessionFrame, Sessions, Defective
<1>5. Goes(call)'
  BY <1>1, <1>2, <1>3, Wizards DEF Goes, SessionFrame
<1>6. Mine' = 0 /\ Mine = 0 /\ (Free(call)' => stored = 0)
  BY <1>1, <1>2, <1>3, Wizards DEF Mine, Free, SessionFrame
<1>7. Books(call)'
  BY <1>1, <1>2, <1>6, Wizards DEF Books, Answered
<1>8. DoneIsDone'
  BY <1>1, Wizards DEF DoneIsDone, SessionFrame
<1> QED BY <1>1, <1>2, <1>4, <1>5, <1>7, <1>8, Wizards, SessionEnds

(* An artifact without an id is created by hand, once.                       *)
LEMMA CreateKeeps ==
  ASSUME Inv, Create, UNCHANGED <<execVars, deployVars>>
  PROVE  Inv'
<1>1. /\ SessionFrame /\ Idle /\ known = "artifact" /\ calls' = calls + 1
      /\ UNCHANGED <<call, art>> /\ UNCHANGED <<session, unseen>>
  BY DEF Create, SessionFrame
<1>2. call = NoCall /\ call.tool = "none" /\ call.pc = "idle" /\ call' = NoCall
  BY <1>1, IdleIs, NothingIs
<1>3. session.is # "running" /\ Free(call) /\ Mine = 0 /\ Mine' = 0
  <2>1. session.is # "running"
    BY <1>1, Wizards DEF Goes
  <2> QED BY <1>1, <1>2, <2>1 DEF Free, Mine, SessionFrame
<1>4. PICK n \in {0, 1}, m \in {0, 1} :
        /\ stored' = stored + n /\ lapses' = lapses + m /\ flaws' \in {flaws, art} /\ known' \in {known, "id"}
        /\ n = 1 /\ m = 0 => known' = "id"
        /\ m = 1 => trouble' = trouble + 1
        /\ said'.tool = "create" /\ said'.is # "built"
  <2>1. CASE /\ Answered /\ stored' = stored + 1 /\ flaws' = art /\ known' = "id"
             /\ said' = [tool |-> "create", is |-> "created"] /\ UNCHANGED lapses
    BY <2>1, Wizards
  <2>2. CASE /\ said' = [tool |-> "create", is |-> "VALIDATION_FAILED"] /\ UNCHANGED <<stored, flaws, known, lapses>>
    BY <2>2, Wizards
  <2>3. CASE /\ Trouble /\ said' = [tool |-> "create", is |-> "error"]
             /\ \/ stored' = stored + 1 /\ Lapse(TRUE)
                \/ UNCHANGED <<stored, lapses>>
             /\ UNCHANGED <<flaws, known>>
    BY <2>3, Wizards DEF Lapse, Trouble
  <2> QED BY <2>1, <2>2, <2>3 DEF Create
<1>5. TypedWizard' /\ stored' \in Nat /\ flaws' \in Defective(kind)
  BY <1>1, <1>4, Wizards DEF TypedWizard, SessionFrame, Sessions, Defective
<1>6. Goes(call)'
  BY <1>1, <1>2, <1>3, <1>4, Wizards DEF Goes, SessionFrame
<1>7. trouble' \in Nat /\ trouble' >= trouble
  BY <1>1, Wizards, Requested DEF SessionFrame, Trouble, Answered
<1>8. Free(call)' => known' = "artifact"
  BY <1>1, <1>2, <1>4 DEF Free
<1>9. Books(call)'
  BY <1>1, <1>2, <1>3, <1>4, <1>7, <1>8, Wizards DEF Books
<1>10. DoneIsDone'
  BY <1>4 DEF DoneIsDone
<1> QED BY <1>1, <1>2, <1>4, <1>5, <1>6, <1>9, <1>10, Wizards, SessionEnds

-----------------------------------------------------------------------------
(* Every step.                                                               *)

LEMMA SessionStepKeeps ==
  ASSUME Inv, SessionStep \/ SessionCall \/ SessionPlatform, UNCHANGED <<execVars, deployVars>>
  PROVE  Inv'
<1>1. CASE SessionStep
  BY <1>1, BuildsKeep, BuildModuleKeeps, BuildMcpKeeps, PolledKeeps, PollFailedKeeps, GiveUpKeeps DEF SessionStep
<1>2. CASE SessionCall
  BY <1>2, BuildBegins, StatusBegins, AsksKeep, CheckListKeeps, CreateKeeps DEF SessionCall
<1>3. CASE SessionPlatform
  BY <1>3, WizardEndsKeeps, SweepKeeps, ExpireKeeps, UnseenEndsKeeps DEF SessionPlatform
<1> QED BY <1>1, <1>2, <1>3

(* A stuttering step.                                                        *)
LEMMA NothingMoves ==
  ASSUME Inv, UNCHANGED vars
  PROVE  Inv'
<1> USE DEF vars, studio, sessionVars, execVars, deployVars
<1>1. Typed'
  BY DEF Inv, Typed, TypedStudio, TypedWizard, TypedRuns, TypedDeploys
<1>2. Shape(call)'
  BY DEF Inv, Shape, VerifyCalls, Defective
<1>3. Goes(call)' /\ Books(call)' /\ Starts(call)'
  BY DEF Inv, Goes, Books, Free, Mine, Starts, Fresh, Again
<1>4. Weighs(call)' /\ Clears(call)'
  BY DEF Inv, Weighs, Doubts, Clears
<1>5. Silent' /\ DoneIsDone' /\ RunReportIsTrue' /\ VerifiedIsSound'
  BY DEF Inv, Silent, Idle, DoneIsDone, RunReportIsTrue, VerifiedIsSound
<1> QED BY <1>1, <1>2, <1>3, <1>4, <1>5 DEF Inv

(* Inv is inductive.                                                         *)
LEMMA StepKeeps ==
  ASSUME Inv, [Next]_vars
  PROVE  Inv'
<1>1. CASE ServerStep
  BY <1>1, SessionStepKeeps, ExecStepKeeps, DeployStepKeeps, VerifyStepKeeps DEF ServerStep
<1>2. CASE Caller
  BY <1>2, SessionStepKeeps, RunBegins, DeployBegins, PreviewKeeps, VerifyBegins DEF Caller
<1>3. CASE World
  BY <1>3, SessionStepKeeps, ExecuteKeeps, PersonsKeep, DepMovesKeeps DEF World
<1>4. CASE UNCHANGED vars
  BY <1>4, NothingMoves
<1> QED BY <1>1, <1>2, <1>3, <1>4 DEF Next

(* Inv holds to begin with.                                                  *)
LEMMA InitInv ==
  ASSUME Init
  PROVE  Inv
<1>1. /\ task \in Tasks /\ kind \in Kinds /\ stored \in {0, 1} /\ known \in {"nothing", "id"}
      /\ trouble = 0 /\ edits = 0 /\ calls = 0 /\ call = NoCall /\ said = None
      /\ session = NoSession /\ unseen = 0 /\ lapses = 0 /\ art = {}
      /\ known = "nothing" => stored = 0
  BY DEF Init, SessionInit
<1>2. flaws \in Defective(kind) /\ standing \in {"draft", "published", "disabled"}
  BY DEF Init, Defective
<1>3. MaxTrouble[task] \in Nat /\ MaxCalls[task] \in Nat /\ MaxEdits[task] \in Nat
  BY <1>1, BoundsAssumption
<1>4. TypedStudio
  BY <1>1, <1>2, <1>3 DEF TypedStudio
<1>5. session.is = "none" /\ session.kept = "no" /\ session.saves = "no" /\ session \in Sessions(kind)
  BY <1>1 DEF NoSession, Sessions, YesNo, Defective
<1>6. TypedWizard
  BY <1>1, <1>5 DEF TypedWizard, Defective
<1>7. TypedRuns /\ started <= 1 + shed
  BY DEF Init, ExecInit, NoExec, TypedRuns, ExecStates
<1>8. TypedDeploys
  BY DEF Init, TypedDeploys, NoDep, Dark, DepStates, Widgets, YesNo
<1>9. call.tool = "none" /\ call.pc = "idle"
  BY <1>1, NothingIs
<1>10. Goes(call) /\ Books(call)
  BY <1>1, <1>5, <1>9 DEF Goes, Books, Free, Mine
<1>11. Shape(call) /\ Starts(call) /\ Weighs(call) /\ Clears(call) /\ Silent
  BY <1>1, <1>7, <1>9 DEF Shape, Starts, Weighs, Clears, Silent, Idle
<1>12. DoneIsDone /\ RunReportIsTrue /\ VerifiedIsSound
  BY <1>1 DEF DoneIsDone, RunReportIsTrue, VerifiedIsSound
<1> QED BY <1>4, <1>6, <1>7, <1>8, <1>10, <1>11, <1>12 DEF Inv, Typed

(* Inv holds of every behaviour.                                             *)
LEMMA Always == Spec => []Inv
<1>1. Init => Inv
  BY InitInv
<1>2. Inv /\ [Next]_vars => Inv'
  BY StepKeeps
<1> QED BY <1>1, <1>2, PTL DEF Spec

-----------------------------------------------------------------------------
(* What is reported of a deployment.                                         *)

(* Nothing is said that a deployment would report.                           *)
Elsewhere == said' = said \/ said' = None \/ said'.tool # "deploy" \/ said'.is # "reported"

LEMMA RunsSayNothing ==
  ASSUME ExecStep
  PROVE  Elsewhere /\ dep' = dep
<1>1. call.tool \in {"run", "verify"} /\ dep' = dep
  BY DEF ExecStep, missingConnections, executeAndPoll, Watched, WatchFailed, WatchOver, chatOnce, Search, Infer,
         Starting, Watching, At
<1>2. ASSUME NEW r, Ran(r)
      PROVE  Elsewhere
  BY <1>2 DEF Ran, Return, Elsewhere
<1>3. ASSUME Return(Thrown)
      PROVE  Elsewhere
  BY <1>1, <1>3 DEF Return, Thrown, Elsewhere
<1>4. ASSUME Broke
      PROVE  Elsewhere
  BY <1>2, <1>3, <1>4 DEF Broke
<1>5. ASSUME NEW err, Caught(err)
      PROVE  Elsewhere
  BY <1>4, <1>5 DEF Caught, Elsewhere
<1>6. CASE missingConnections
  <2>1. CASE Goto("start")
    BY <1>1, <2>1 DEF Goto, Elsewhere
  <2>2. CASE \E m : Return([tool |-> "run", is |-> "MISSING_CONNECTIONS", missing |-> m])
    BY <1>1, <2>2 DEF Return, Elsewhere
  <2> QED BY <1>6, <2>1, <2>2 DEF missingConnections
<1>7. CASE executeAndPoll
  BY <1>2, <1>4, <1>5, <1>7 DEF executeAndPoll, Elsewhere
<1>8. CASE Watched \/ WatchOver
  BY <1>2, <1>8 DEF Watched, WatchOver, Elsewhere
<1>9. CASE WatchFailed
  BY <1>5, <1>9 DEF WatchFailed
<1>10. CASE chatOnce
  BY <1>2, <1>3, <1>4, <1>10 DEF chatOnce, Elsewhere
<1>11. CASE Search \/ Infer
  BY <1>2, <1>4, <1>11 DEF Search, Infer
<1> QED BY <1>1, <1>6, <1>7, <1>8, <1>9, <1>10, <1>11 DEF ExecStep

LEMMA BuildsSayNothing ==
  ASSUME SessionStep
  PROVE  Elsewhere
<1>1. call.tool \in {"build", "status"}
  <2>1. CASE BuildWorkflow \/ BuildAgent \/ BuildChatflow \/ BuildWidget \/ BuildApplication
    BY <2>1 DEF BuildWorkflow, BuildAgent, BuildChatflow, BuildWidget, BuildApplication, PostWizard, At
  <2>2. CASE BuildModule \/ BuildMcp
    <3>1. At("build", "post") \/ At("build", "build")
      BY <2>2, Zenon DEF BuildModule, BuildMcp
    <3> QED BY <3>1 DEF At
  <2>3. CASE Polled \/ PollFailed \/ GiveUp
    BY <2>3 DEF Polled, PollFailed, GiveUp, Polling
  <2> QED BY <2>1, <2>2, <2>3 DEF SessionStep
<1>2. ASSUME Return(Thrown)
      PROVE  Elsewhere
  BY <1>1, <1>2 DEF Return, Thrown, Elsewhere
<1>3. ASSUME NEW saves, PostWizard(saves)
      PROVE  Elsewhere
  BY <1>2, <1>3 DEF PostWizard, Elsewhere
<1>4. CASE BuildWorkflow \/ BuildAgent \/ BuildChatflow \/ BuildWidget \/ BuildApplication
  BY <1>3, <1>4 DEF BuildWorkflow, BuildAgent, BuildChatflow, BuildWidget, BuildApplication
<1>5. CASE BuildModule \/ BuildMcp
  <2>1. CASE Goto("build") \/ Goto("poll")
    BY <2>1 DEF Goto, Elsewhere
  <2>2. Goto("build") \/ Goto("poll") \/ Return(Thrown)
    BY <1>5, Zenon DEF BuildModule, BuildMcp
  <2> QED BY <1>2, <2>1, <2>2
<1>6. CASE Polled \/ PollFailed \/ GiveUp
  BY <1>2, <1>6 DEF Polled, PollFailed, GiveUp, terminalPayload, Return, Elsewhere
<1> QED BY <1>4, <1>5, <1>6 DEF SessionStep

(* Only a deployment reports one.                                            *)
LEMMA OthersSayNothing ==
  ASSUME Inv, Next, ~DeployStep
  PROVE  Elsewhere
<1>1. CASE ServerStep
  <2>1. CASE VerifyStep
    BY <2>1 DEF VerifyStep, ReadRecord, Ask, AskRun, JudgeRun, Report, Return, Elsewhere
  <2> QED BY <1>1, <2>1, RunsSayNothing, BuildsSayNothing DEF ServerStep
<1>2. CASE Caller
  <2>1. CASE SessionCall
    <3>1. CASE Build \/ Status
      BY <3>1 DEF Build, Status, Begin, Elsewhere
    <3>2. CASE Steer \/ CheckList
      BY <3>2 DEF Steer, CheckList, Elsewhere
    <3>3. CASE Validate
      BY <3>3 DEF Validate, Elsewhere
    <3>4. CASE Refine
      BY <3>4 DEF Refine, Elsewhere
    <3>5. CASE Create
      <4>1. \E is \in {"created", "VALIDATION_FAILED", "error"} : said' = [tool |-> "create", is |-> is]
        BY <3>5, Zenon DEF Create
      <4> QED BY <4>1 DEF Elsewhere
    <3> QED BY <2>1, <3>1, <3>2, <3>3, <3>4, <3>5 DEF SessionCall
  <2>2. CASE Run \/ Verify
    BY <2>2 DEF Run, Verify, Begin, Elsewhere
  <2>3. CASE Deploy
    BY <2>3 DEF Deploy, Begin, Refusal, Elsewhere
  <2>4. CASE Preview \/ Teardown
    BY <2>4 DEF Preview, Teardown, Elsewhere
  <2> QED BY <1>2, <2>1, <2>2, <2>3, <2>4 DEF Caller
<1>3. CASE World
  <2>1. CASE SessionPlatform
    <3>1. said' = said
      BY <2>1, Zenon DEF SessionPlatform, WizardEnds, Sweep, Expire, UnseenEnds, studio
    <3> QED BY <3>1 DEF Elsewhere
  <2>2. CASE Execute \/ Resume \/ DepMoves \/ Others \/ Person
    BY <2>2 DEF Execute, Resume, DepMoves, Others, Person, studio, Elsewhere
  <2> QED BY <1>3, <2>1, <2>2 DEF World
<1> QED BY <1>1, <1>2, <1>3 DEF Next

(* What a deployment reports is so.                                          *)
LEMMA DeploysReport ==
  ASSUME Inv, DeployStep
  PROVE  \/ Elsewhere
         \/ /\ said'.phase # "LIVE"
            /\ said'.id = "yes" /\ said'.timedOut = "no" => Settled
         \/ /\ kind = "widget"
            /\ said'.phase = "LIVE" /\ said'.touched = "no" => dep.is = "running" /\ widget = [active |-> "yes", points |-> "ours"]
<1>1. call.tool = "deploy" /\ TypedDeploys
  BY DEF Inv, Typed, DeployStep, UnsupportedOption, Gate, DeployWorkflow, DeployApplication, DeployModel, PostDeploy, WatchDeploy,
         WatchDeployFailed, WatchDeployOver, EnableWidget, PostWidget, ReadSaved, ReadPublic, DeployMcp, At
<1>2. ASSUME Return(Thrown)
      PROVE  Elsewhere
  BY <1>1, <1>2 DEF Return, Thrown, Elsewhere
<1>3. CASE UnsupportedOption \/ Gate
  BY <1>2, <1>3 DEF UnsupportedOption, Gate, Goto, Return, Elsewhere
<1>4. CASE DeployWorkflow \/ DeployApplication \/ DeployModel
  <2>1. CASE Return(Thrown) \/ Goto("watch")
    BY <1>2, <2>1 DEF Goto, Elsewhere
  <2>2. CASE Queued
    BY <2>2 DEF Queued, Return
  <2> QED BY <1>4, <2>1, <2>2 DEF DeployWorkflow, DeployApplication, DeployModel, PostDeploy
<1>5. CASE WatchDeploy
  <2>1. CASE ~deployIsTerminal(Shown)
    BY <1>5, <2>1 DEF WatchDeploy, Elsewhere
  <2>2. CASE deployIsTerminal(Shown)
    <3>1. said'.phase = Shown.phase
      BY <1>5, <2>2 DEF WatchDeploy, Return
    <3>2. Shown.phase # "LIVE"
      BY <1>1, ShownIs DEF Phases
    <3>3. CASE kind = "workflow"
      BY <2>2, <3>1, <3>2, <3>3, WordAssumption DEF deployIsTerminal, Shown
    <3>4. CASE kind # "workflow"
      BY <1>1, <2>2, <3>1, <3>2, <3>4
         DEF deployIsTerminal, Shown, Phase, TERMINAL_DEPLOY_PHASES, Settled, TypedDeploys, DepStates
    <3> QED BY <3>3, <3>4
  <2> QED BY <2>1, <2>2
<1>6. CASE WatchDeployFailed
  BY <1>2, <1>6 DEF WatchDeployFailed
<1>7. CASE WatchDeployOver
  <2>1. call \in DeployCalls /\ call.snap # None
    BY <1>1, <1>7, Deploying DEF WatchDeployOver, At
  <2>2. call.snap # "LIVE"
    BY <2>1 DEF DeployCalls, Phases
  <2> QED BY <1>7, <2>2 DEF WatchDeployOver, Return
<1>8. CASE EnableWidget \/ PostWidget \/ ReadSaved
  BY <1>2, <1>8 DEF EnableWidget, PostWidget, ReadSaved, Goto, Elsewhere
<1>9. CASE ReadPublic
  <2>1. kind = "widget" /\ dep.is = call.snap.live /\ (call.edits = edits => call.snap.saved \in {None, widget})
    BY <1>1, <1>9 DEF Inv, Clears, ReadPublic, At
  <2>2. PICK public \in {widget.active = "yes", FALSE} :
          Return([tool |-> "deploy", is |-> "reported", phase |-> IF Live(public) THEN "LIVE" ELSE "UNVERIFIED",
                  id |-> "yes", timedOut |-> "no", touched |-> IF call.edits = edits THEN "no" ELSE "yes"])
    BY <1>9 DEF ReadPublic
  <2>3. said'.phase = "LIVE" /\ said'.touched = "no" => Live(public) /\ call.edits = edits
    BY <2>2 DEF Return
  <2>4. Live(public) /\ call.edits = edits => dep.is = "running" /\ widget.active = "yes" /\ widget.points = "ours"
    BY <2>1 DEF Live
  <2>5. widget = [active |-> widget.active, points |-> widget.points]
    BY <1>1 DEF TypedDeploys, Widgets
  <2> QED BY <2>1, <2>3, <2>4, <2>5
<1>10. CASE DeployMcp
  <2>1. CASE Return(Thrown) \/ Goto("post")
    BY <1>2, <2>1 DEF Goto, Elsewhere
  <2>2. CASE Provisions("router") /\ Return([tool |-> "deploy", is |-> "reported", phase |-> Phase[dep'.is], id |-> "yes", timedOut |-> "unsaid"])
    BY <2>2 DEF Provisions, Return, Phase
  <2> QED BY <1>10, <2>1, <2>2 DEF DeployMcp
<1> QED BY <1>3, <1>4, <1>5, <1>6, <1>7, <1>8, <1>9, <1>10 DEF DeployStep

(* The one step that asks for a deployment of a workflow.                    *)
LEMMA OnlyPosts ==
  ASSUME Inv, Next, kind = "workflow", dep' # dep, dep'.is = "provisioning", call.tool = "deploy"
  PROVE  call.pc = "post"
<1>1. CASE ServerStep
  <2>1. CASE DeployStep
    BY <2>1 DEF DeployStep, UnsupportedOption, Gate, DeployWorkflow, DeployApplication, DeployModel, PostDeploy, WatchDeploy,
         WatchDeployFailed, WatchDeployOver, EnableWidget, PostWidget, ReadSaved, ReadPublic, DeployMcp, deployVars, At
  <2>2. CASE VerifyStep
    BY <2>2 DEF VerifyStep, ReadRecord, Ask, AskRun, JudgeRun, Report, deployVars
  <2> QED BY <1>1, <2>1, <2>2, RunsSayNothing DEF ServerStep, deployVars
<1>2. CASE Caller
  BY <1>2 DEF Caller, SessionCall, Run, Deploy, Preview, Teardown, Verify, Idle, deployVars
<1>3. CASE World
  <2>1. TypedDeploys
    BY DEF Inv, Typed
  <2>2. CASE DepMoves \/ Others
    BY <2>1, <2>2 DEF TypedDeploys, DepMoves, Others
  <2>3. CASE Execute \/ Resume
    BY <2>3 DEF Execute, Resume
  <2> QED BY <1>3, <2>2, <2>3 DEF World, deployVars
<1> QED BY <1>1, <1>2, <1>3 DEF Next

(* Every step deploys, and reports a deployment, as it should.               *)
LEMMA StepDeploys ==
  ASSUME Inv, [Next]_vars
  PROVE  [GatedDeploy /\ DeployedIsSettled /\ WidgetLive]_<<studio, deployVars>>
<1>1. CASE UNCHANGED vars
  BY <1>1 DEF vars
<1>2. CASE Next
  <2>1. GatedDeploy
    <3> SUFFICES ASSUME kind = "workflow", dep' # dep, dep'.is = "provisioning", call.tool = "deploy", flaws \cap GateFinds # {}
                 PROVE  call.skip = "yes" \/ call.force = "yes" \/ call.hole = "yes" \/ call.edits # edits
      BY DEF GatedDeploy
    <3>1. call.pc = "post"
      BY <1>2, OnlyPosts
    <3>2. call \in DeployCalls
      BY <3>1, Deploying
    <3>3. call.skip \in YesNo /\ call.force \in YesNo /\ call.hole \in YesNo
      BY <3>2 DEF DeployCalls
    <3> QED BY <3>1, <3>3 DEF Inv, Clears, YesNo
  <2>2. DeployedIsSettled /\ WidgetLive
    <3>1. CASE Elsewhere
      BY <3>1 DEF Elsewhere, DeployedIsSettled, WidgetLive, Reports
    <3>2. CASE ~Elsewhere
      BY <1>2, <3>2, OthersSayNothing, DeploysReport DEF DeployedIsSettled, WidgetLive
    <3> QED BY <3>1, <3>2
  <2> QED BY <2>1, <2>2
<1> QED BY <1>1, <1>2

-----------------------------------------------------------------------------
(* What follows for every behaviour.                                         *)

(* The books give what is stored.                                            *)
LEMMA KeptOnce ==
  ASSUME Inv
  PROVE  SessionInv
<1>1. unseen <= lapses /\ lapses <= MaxCalls[task] + MaxTrouble[task]
  BY Counted DEF Inv, Books
<1>2. session.is \in {"none", "running", "done", "failed"} /\ session.kept \in YesNo /\ session.saves \in YesNo
      /\ session.flaws \in Defective(kind) /\ art \in Defective(kind)
  BY Wizards
<1>3. known \in {"nothing", "session", "artifact", "id", "unsure"}
  BY DEF Inv, Typed, TypedStudio
<1>4. SessionTypeOK
  BY <1>1, <1>2, <1>3 DEF SessionTypeOK, YesNo
<1>5. StoredOnce
  BY Counted, Wizards DEF Books, StoredOnce
<1> QED BY <1>4, <1>5 DEF SessionInv, Inv

(* The types of Shipping, and what is started, are parts of Inv.             *)
LEMMA RanOnce ==
  ASSUME Inv
  PROVE  RunInv
<1>1. SessionTypeOK
  BY KeptOnce DEF SessionInv
<1>2. ExecTypeOK
  BY DEF Inv, Typed, TypedRuns, ExecStates, ExecTypeOK
<1>3. DeployTypeOK
  BY DEF Inv, Typed, TypedDeploys, DepStates, Widgets, YesNo, DeployTypeOK
<1>4. TypeOK
  BY <1>1, <1>2, <1>3 DEF Inv, Typed, TypedStudio, TypeOK
<1>5. OnePerCall
  BY DEF Inv, Starts, OnePerCall
<1> QED BY <1>4, <1>5 DEF RunInv, Inv

(* However answers are lost and waits run out, a caller that goes by what    *)
(* swfte_build, _build_status and _create tell it stores what it wants once, *)
(* but for what a lapse accounts for; and a build that is reported as done   *)
(* has ended, persisted exactly where an artifact is stored.                 *)
(* pollToTerminal and terminalPayload, the adapters' build.                  *)
THEOREM OneIsStored == Spec => []SessionInv
<1>1. Inv => SessionInv
  BY KeptOnce
<1> QED BY <1>1, Always, PTL

(* One call of swfte_run, swfte_verify or swfte_deploy starts one execution, *)
(* one turn or one deployment, and one more only for an answer that looked   *)
(* like an overloaded platform; a run reported as ok has succeeded.          *)
(* executeAndPoll, chatOnce, the adapters' run and deploy.                   *)
THEOREM RunOnce == Spec => []RunInv
<1>1. Inv => RunInv
  BY RanOnce
<1> QED BY <1>1, Always, PTL

(* A verification that passes has looked for every defect the artifact had   *)
(* all along, or says of the check that it was left open.  The adapters'     *)
(* verify.                                                                   *)
THEOREM VerifyLooks == Spec => []VerifiedIsSound
<1>1. Inv => VerifiedIsSound
  BY DEF Inv
<1> QED BY <1>1, Always, PTL

(* A workflow with a defect that preflight finds is deployed only where the  *)
(* gate was skipped, overridden or unable to read, or the workflow edited    *)
(* after it; what is reported as over has stopped moving; and a widget       *)
(* reported as LIVE is live, unless somebody changed it since.               *)
(* swfte_deploy, deployIsTerminal, the adapters' deploy.                     *)
THEOREM DeploysAreSo == Spec => DeploysHold
<1>1. Inv /\ [Next]_vars => [GatedDeploy /\ DeployedIsSettled /\ WidgetLive]_<<studio, deployVars>>
  BY StepDeploys
<1> QED BY <1>1, Always, PTL DEF Spec, DeploysHold
=============================================================================
