---------------------------- MODULE BuildSession -----------------------------
(***************************************************************************)
(* From a description to a stored artifact: swfte_build, _build_status,    *)
(* _build_steer, _validate, _refine and _create (src/src/tools/ship.ts)    *)
(* over the wizards of the platform, whose sessions are swept.             *)
(***************************************************************************)
EXTENDS Studio

VARIABLES
  session,  \* the wizard's run that the caller started last
  unseen,   \* runs that will store an artifact and that nobody holds an id of
  lapses,   \* times the caller lost track of what may have been stored
  art       \* what is wrong with the generated artifact in the caller's hands

sessionVars == <<session, unseen, lapses, art>>

NoSession == [is |-> "none", kept |-> "no", saves |-> "no", flaws |-> {}]

SessionInit == session = NoSession /\ unseen = 0 /\ lapses = 0 /\ art = {}

SessionTypeOK ==
  /\ session.is \in {"none", "running", "done", "failed"}
  /\ {session.kept, session.saves} \subseteq {"yes", "no"}
  /\ session.flaws \in Defective(kind) /\ art \in Defective(kind)
  /\ unseen <= lapses /\ lapses <= MaxCalls[task] + MaxTrouble[task]
  /\ known \in {"nothing", "session", "artifact", "id", "unsure"}

(* The caller has lost track of a run, or of a record, that may be stored.   *)
Lapse(may) == lapses' = lapses + (IF may THEN 1 ELSE 0)

(* Nobody holds the id of a run that will store, or has stored, its result.  *)
LoseSight ==
  /\ Lapse(TRUE)
  /\ IF session.is = "running" /\ kind # "module" THEN unseen' = unseen + 1 /\ session' = NoSession ELSE UNCHANGED <<session, unseen>>

Build ==
  /\ known = "nothing" /\ requireVerb("build")
  /\ \E saves \in {"yes", "no"} : Begin([tool |-> "build", pc |-> "post", saves |-> saves, snap |-> None])
  /\ UNCHANGED <<task, kind, stored, flaws, standing, trouble, edits, known, sessionVars>>

Started(saves) == [is |-> "running", kept |-> "yes", saves |-> saves, flaws |-> {}]

(* The generator is started, once: a start is never repeated.                *)
PostWizard(saves) ==
  /\ At("build", "post")
  /\ \/ /\ Answered /\ session' = Started(saves)
        /\ call' = [call EXCEPT !.pc = "poll", !.saves = saves] /\ UNCHANGED <<said, unseen, lapses>>
     \/ /\ Trouble /\ Return(Thrown)
        /\ \/ unseen' = unseen + (IF saves = "yes" THEN 1 ELSE 0) /\ Lapse(saves = "yes")
           \/ UNCHANGED <<unseen, lapses>>
        /\ UNCHANGED session
  /\ UNCHANGED <<task, kind, stored, flaws, standing, edits, calls, known, art>>

(* Two wizards store their result when they are asked to, two always do; an  *)
(* application is always created by hand.                                    *)
BuildWorkflow == kind = "workflow" /\ PostWizard(call.saves)
BuildAgent == kind = "agent" /\ PostWizard(call.saves)
BuildChatflow == kind = "chatflow" /\ PostWizard("yes")
BuildWidget == kind = "widget" /\ PostWizard("yes")
BuildApplication == kind = "application" /\ PostWizard("no")

(* A module is stored first, and its build started then; a build that is     *)
(* running already (409) is as good.                                         *)
BuildModule ==
  /\ kind = "module"
  /\ \/ /\ At("build", "post")
        /\ \/ Answered /\ stored' = stored + 1 /\ flaws' \in {{"never-built"}, {"no-resources"}} /\ Goto("build") /\ UNCHANGED lapses
           \/ /\ Trouble /\ Return(Thrown)
              /\ \/ stored' = stored + 1 /\ Lapse(TRUE)
                 \/ UNCHANGED <<stored, lapses>>
              /\ UNCHANGED flaws
        /\ UNCHANGED session
     \/ /\ At("build", "build")
        /\ \/ Answered /\ session' = Started("yes") /\ Goto("poll") /\ UNCHANGED lapses
           \/ Trouble /\ Return(Thrown) /\ Lapse(TRUE) /\ UNCHANGED session
        /\ UNCHANGED <<stored, flaws>>
  /\ UNCHANGED <<task, kind, standing, edits, calls, known, unseen, art>>

(* An MCP server is generated in one request; the session is only kept in    *)
(* this process.                                                             *)
BuildMcp ==
  /\ At("build", "post") /\ kind = "mcpServer"
  /\ \/ /\ Answered
        /\ \E found \in Defective(kind), is \in {"done", "failed"} :
             /\ session' = [Started(call.saves) EXCEPT !.is = is, !.flaws = found,
                                                       !.saves = IF is = "done" THEN @ ELSE "no"]
             /\ IF session'.saves = "yes" THEN stored' = stored + 1 /\ flaws' = found ELSE UNCHANGED <<stored, flaws>>
        /\ Goto("poll") /\ UNCHANGED lapses
     \/ /\ Trouble /\ Return(Thrown)
        /\ \/ call.saves = "yes" /\ stored' = stored + 1 /\ Lapse(TRUE)
           \/ UNCHANGED <<stored, lapses>>
        /\ UNCHANGED <<session, flaws>>
  /\ UNCHANGED <<task, kind, standing, edits, calls, known, unseen, art>>

(* The last poll that was answered is what counts; `done` is the platform's  *)
(* own word, not read off a stage label.                                     *)
toSnapshot ==
  [done |-> IF session.is = "running" THEN "no" ELSE "yes", failed |-> session.is = "failed",
   id |-> IF session.is = "done" /\ session.saves = "yes" THEN "yes" ELSE "no"]

(* The session of a module is the module.                                    *)
moduleSnapshot == [toSnapshot EXCEPT !.id = "yes"]

(* What a finished build returns, failed or not, and what is done next: an   *)
(* id is used, an artifact without one is created.                           *)
terminalPayload(snap) ==
  /\ Return([tool |-> call.tool, is |-> "built", done |-> "yes", persisted |-> snap.id])
  /\ known' = IF snap.id = "yes" THEN "id" ELSE IF snap.failed THEN "nothing" ELSE "artifact"
  /\ art' = session.flaws

Polling == call.tool \in {"build", "status"} /\ call.pc = "poll"

Polled ==
  /\ Polling /\ session.kept = "yes" /\ Answered
  /\ LET snap == IF kind = "module" THEN moduleSnapshot ELSE toSnapshot
     IN IF snap.done = "yes" THEN terminalPayload(snap)
        ELSE call' = [call EXCEPT !.snap = snap] /\ UNCHANGED <<said, known, art>>
  /\ UNCHANGED <<task, kind, stored, flaws, standing, edits, calls, session, unseen, lapses>>

(* Mutant: a session that is not found is a build that failed.               *)
PollFailedIsFailure ==
  /\ Polling /\ kind # "mcpServer"
  /\ IF session.kept = "yes" THEN Trouble ELSE Answered
  /\ IF call.snap # None THEN UNCHANGED <<call, said, known, session, unseen, lapses>>
     ELSE /\ Return(Thrown)
          /\ known' = IF call.tool = "build" \/ session.kept = "no" THEN "nothing" ELSE known
          /\ IF call.tool = "build" /\ session.saves = "yes"
             THEN LoseSight ELSE UNCHANGED <<session, unseen, lapses>>
  /\ UNCHANGED <<task, kind, stored, flaws, standing, edits, calls, art>>

(* A poll fails, or the session has been swept (404).  The first one ends    *)
(* the call: swfte_build_status says that the session is gone, swfte_build   *)
(* throws, and the id of the session with it.  Later ones are passed over.   *)
PollFailed ==
  /\ Polling /\ kind # "mcpServer"
  /\ IF session.kept = "yes" THEN Trouble ELSE Answered
  /\ IF call.snap # None THEN UNCHANGED <<call, said, known, session, unseen, lapses>>
     ELSE IF call.tool = "status"
     THEN /\ IF session.kept = "yes" THEN Return(Thrown) /\ UNCHANGED known
             ELSE Return([tool |-> "status", is |-> "SESSION_NOT_FOUND"]) /\ known' = "unsure"
          /\ UNCHANGED <<session, unseen, lapses>>
     ELSE /\ Return(Thrown) /\ known' = "nothing"
          /\ IF session.saves = "yes"
             THEN LoseSight ELSE UNCHANGED <<session, unseen, lapses>>
  /\ UNCHANGED <<task, kind, stored, flaws, standing, edits, calls, art>>

(* Mutant: the end of the wait is taken for the end of the build.            *)
GiveUpIsDone ==
  /\ Polling /\ call.snap # None
  /\ terminalPayload(call.snap)
  /\ UNCHANGED <<task, kind, stored, flaws, standing, trouble, edits, calls, session, unseen, lapses>>

(* The wait has outrun waitMs: the caller gets the session to resume.        *)
GiveUp ==
  /\ Polling /\ call.snap # None
  /\ Return([tool |-> call.tool, is |-> "building", done |-> "no"])
  /\ known' = "session"
  /\ UNCHANGED <<task, kind, stored, flaws, standing, trouble, edits, calls, sessionVars>>

Status ==
  /\ known = "session"
  /\ Begin([tool |-> "status", pc |-> "poll", snap |-> None])
  /\ UNCHANGED <<task, kind, stored, flaws, standing, trouble, edits, known, sessionVars>>

(* A steer that comes too late says so.                                      *)
Steer ==
  /\ known = "session" /\ requireVerb("steer")
  /\ Idle /\ calls < MaxCalls[task] /\ "steer" \in Callable[task]
  /\ said' = [tool |-> "steer", is |-> IF session.is = "running" THEN "accepted" ELSE "inactive"]
  /\ calls' = calls + 1
  /\ UNCHANGED <<task, kind, stored, flaws, standing, trouble, edits, known, call, sessionVars>>

(* A session that is gone: the list is looked at before anything is built.   *)
CheckList ==
  /\ Idle /\ known = "unsure"
  /\ known' = IF stored > 0 THEN "id" ELSE "nothing"
  /\ UNCHANGED <<task, kind, stored, flaws, standing, trouble, edits, calls, call, said, sessionVars>>

(* A node without an edge, an edge to a node that is not there, no node.     *)
analyseGraph(found) == found \cap {"orphan", "dangling", "no-nodes"} = {}

(* Of a workflow the graph is looked at here as well.                        *)
workflowValid(reviewed) == IF reviewed = "yes" /\ analyseGraph(art) THEN "yes" ELSE "no"

(* The reviewer of the platform finds some things, and not an unwired node.  *)
Validate ==
  /\ known = "artifact" /\ requireVerb("validate")
  /\ Idle /\ calls < MaxCalls[task] /\ "validate" \in Callable[task]
  /\ \E reviewed \in {"yes"} \cup (IF art = {} THEN {} ELSE {"no"}) :
       said' = [tool |-> "validate", is |-> "report",
                valid |-> IF kind = "workflow" THEN workflowValid(reviewed) ELSE reviewed]
  /\ calls' = calls + 1
  /\ UNCHANGED <<task, kind, stored, flaws, standing, trouble, edits, known, call, sessionVars>>

(* A refined artifact is another one.                                        *)
Refine ==
  /\ known = "artifact" /\ requireVerb("refine")
  /\ Idle /\ calls < MaxCalls[task] /\ "refine" \in Callable[task]
  /\ \/ Answered /\ art' \in Defective(kind) /\ said' = [tool |-> "refine", is |-> "refined"]
     \/ Trouble /\ UNCHANGED art /\ said' = [tool |-> "refine", is |-> "error"]
  /\ calls' = calls + 1
  /\ UNCHANGED <<task, kind, stored, flaws, standing, edits, known, call, session, unseen, lapses>>

(* The artifact is stored, or found wanting (422), or the answer is lost.    *)
Create ==
  /\ known = "artifact" /\ requireVerb("create")
  /\ Idle /\ calls < MaxCalls[task] /\ "create" \in Callable[task]
  /\ \/ /\ Answered /\ stored' = stored + 1 /\ flaws' = art /\ known' = "id"
        /\ said' = [tool |-> "create", is |-> "created"] /\ UNCHANGED lapses
     \/ /\ Answered /\ art # {} /\ said' = [tool |-> "create", is |-> "VALIDATION_FAILED"]
        /\ UNCHANGED <<stored, flaws, known, lapses>>
     \/ /\ Trouble /\ said' = [tool |-> "create", is |-> "error"]
        /\ \/ stored' = stored + 1 /\ Lapse(TRUE)
           \/ UNCHANGED <<stored, lapses>>
        /\ UNCHANGED <<flaws, known>>
  /\ calls' = calls + 1
  /\ UNCHANGED <<task, kind, standing, edits, call, session, unseen, art>>

(* --- the platform ---------------------------------------------------------*)

(* A run comes to an end, and stores its result when it was to.              *)
WizardEnds ==
  /\ session.is = "running"
  /\ \E found \in Defective(kind), is \in {"done", "failed"} :
       /\ session' = [session EXCEPT !.is = is, !.flaws = IF is = "done" THEN found ELSE {}]
       /\ CASE is = "done" /\ kind = "module" -> flaws' = flaws \ {"never-built"} /\ UNCHANGED stored
            [] is = "done" /\ kind # "module" /\ session.saves = "yes" -> stored' = stored + 1 /\ flaws' = found
            [] OTHER -> UNCHANGED <<stored, flaws>>
  /\ UNCHANGED <<task, kind, standing, trouble, edits, calls, known, call, said, unseen, lapses, art>>

(* The run store sweeps what has ended; a module is no session and stays.    *)
Sweep ==
  /\ session.is \in {"done", "failed"} /\ session.kept = "yes" /\ kind \notin {"module", "mcpServer"}
  /\ session' = [session EXCEPT !.kept = "no"]
  /\ UNCHANGED <<studio, unseen, lapses, art>>

(* A run that takes longer than the store keeps it runs on, unseen.          *)
Expire ==
  /\ session.is = "running" /\ session.kept = "yes" /\ kind # "module" /\ Trouble
  /\ session' = [session EXCEPT !.is = "failed", !.kept = "no", !.saves = "no"]
  /\ IF session.saves = "yes" THEN Lapse(TRUE) /\ unseen' = unseen + 1 ELSE UNCHANGED <<unseen, lapses>>
  /\ UNCHANGED <<task, kind, stored, flaws, standing, edits, calls, known, call, said, art>>

UnseenEnds ==
  /\ unseen > 0
  /\ unseen' = unseen - 1
  /\ stored' \in {stored, stored + 1}
  /\ UNCHANGED <<task, kind, flaws, standing, trouble, edits, calls, known, call, said, session, lapses, art>>

SessionStep ==
  \/ BuildWorkflow \/ BuildAgent \/ BuildChatflow \/ BuildWidget \/ BuildApplication \/ BuildModule \/ BuildMcp
  \/ Polled \/ PollFailed \/ GiveUp
SessionCall == Build \/ Status \/ Steer \/ CheckList \/ Validate \/ Refine \/ Create
SessionPlatform == WizardEnds \/ Sweep \/ Expire \/ UnseenEnds

(* However the answers come, a caller that does what the results say stores  *)
(* the artifact once; a second one is there only where an answer was lost,   *)
(* or a call broke off, after something may have been stored.                *)
(* swfte_build, swfte_build_status, swfte_create.                            *)
StoredOnce == stored + unseen <= 1 + lapses

(* A build that is reported as done has ended, and is persisted exactly when *)
(* an artifact is stored: nobody is sent to create what is there, or told to *)
(* use what is not.  pollToTerminal, terminalPayload.                        *)
DoneIsDone ==
  (said # None /\ said.is = "built") =>
    /\ session.is # "running"
    /\ said.persisted = "yes" <=> (kind = "module" \/ (session.is = "done" /\ session.saves = "yes"))
    /\ said.persisted = "yes" => stored > 0

(* What a caller makes of a build is what has become of it.                  *)
SessionInv == SessionTypeOK /\ StoredOnce /\ DoneIsDone
=============================================================================
