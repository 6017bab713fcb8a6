------------------------------ MODULE Execution ------------------------------
(***************************************************************************)
(* swfte_run: a workflow is executed and its execution polled, an agent is *)
(* sent a turn, a module is searched, a model is prompted                  *)
(* (src/src/kinds, src/src/connections.ts).  swfte_verify runs them too.   *)
(***************************************************************************)
EXTENDS Studio

CONSTANTS
  Providers,  \* what a node may need to be signed in to, as the catalog spells it
  Accounts,   \* what people have signed in to, as the accounts are spelled
  Plain       \* the function that takes case, spaces and dashes out of a spelling

VARIABLES
  exec,     \* the execution that was started last
  shed      \* answers after which this call starts again: of an overloaded platform, or a
            \* conflict while an execution is watched

execVars == <<exec, started, shed>>

NoExec == [is |-> "none", nodes |-> "fine"]

ExecInit == exec = NoExec /\ started = 0 /\ shed = 0

ExecTypeOK ==
  /\ exec.is \in {"none", "running", "paused", "succeeded", "failed"}
  /\ exec.nodes \in {"fine", "one-fails"}
  /\ started \in 0 .. 3 /\ shed \in 0 .. 3

(* --- sign-in ---------------------------------------------------------------*)

normaliseProvider(p) == Plain[p]

connectedProviders(accounts) == {normaliseProvider(a) : a \in accounts \ {"Unknown"}}

(* A node may name its provider; else the catalog does, by the node's type.  *)
providerByNodeType(type, catalog) == IF type \in DOMAIN catalog THEN catalog[type] ELSE None

requiredConnections(nodes, catalog, accounts) ==
  LET needs(n) == IF n.names # None THEN n.names ELSE providerByNodeType(n.type, catalog)
      required == {needs(n) : n \in nodes} \ {None}
  IN {p \in required : normaliseProvider(p) \notin connectedProviders(accounts)}

(* The nodes that are tried: of a type that the catalog has, or a generic    *)
(* one, that names its provider or does not.                                 *)
Nodes == [names : Providers \cup {None}, type : {"known", "generic"}]

Run ==
  /\ known = "id" /\ requireVerb("run")
  /\ \E force \in IF kind = "workflow" THEN {"yes", "no"} ELSE {"yes"} :
       Begin([tool |-> "run", pc |-> IF force = "yes" THEN "start" ELSE "connections",
              route |-> "invoke", attempt |-> 0, snap |-> None])
  /\ started' = 0 /\ shed' = 0
  /\ UNCHANGED <<task, kind, stored, flaws, standing, trouble, edits, known, exec, dep>>

(* A workflow that needs a provider nobody has signed in to is not run.  If  *)
(* the workflow, the catalog or the accounts cannot be read it is.           *)
missingConnections ==
  /\ At("run", "connections")
  /\ \/ Trouble /\ Goto("start")
     \/ stored = 0 /\ Answered /\ Goto("start")
     \/ /\ stored > 0 /\ Answered
        /\ \E node \in Nodes, accounts \in SUBSET Accounts, p \in Providers :
             LET missing == requiredConnections({node}, [t \in {"known"} |-> p], accounts)
             IN IF missing = {} THEN Goto("start")
                ELSE Return([tool |-> "run", is |-> "MISSING_CONNECTIONS", missing |-> missing])
  /\ UNCHANGED <<task, kind, stored, flaws, standing, edits, calls, known, execVars, dep>>

(* --- what a run comes to ---------------------------------------------------*)

(* A run is over: swfte_run returns it, swfte_verify goes on with it.        *)
Ran(result) ==
  IF call.tool = "run"
  THEN Return([tool |-> "run", is |-> result.is, ok |-> result.ok])
  ELSE call' = [call EXCEPT !.pc = "asks", !.ran = result] /\ UNCHANGED said

Outcome(is, ok, degraded, nodes) == [is |-> is, ok |-> ok, degraded |-> degraded, nodes |-> nodes, route |-> call.route]

(* What a run that swfte_verify has asked for can have come to.              *)
Outcomes ==
  [is : {"error", "ended", "waits-for-a-person", "still-running", "NO_EXECUTION_ID", "NO_RESULTS", "NOT_SERVING",
         "OK", "EMPTY_RESPONSE", "EMPTY_SHED", "HTTP_504", "TIMEOUT"},
   ok : {"yes", "no"}, degraded : {"yes", "no"}, nodes : {"none", "fine", "one-fails"},
   route : {"invoke", "execute", "test"}]

ASSUME NoneAssumption == None \notin Outcomes

(* An error that a run throws: of the verifications the workflow's catches it. *)
Broke ==
  IF call.tool = "verify" /\ kind = "workflow" THEN Ran(Outcome("error", "no", "no", "none")) ELSE Return(Thrown)

(* --- a workflow ------------------------------------------------------------*)

(* Mutant: whose 404 it is does not matter.                                  *)
isNoPublishedSnapshotAnywhere(err) == err.status \in {404, 409}

(* There is no published snapshot to invoke, which the 409 of a start says   *)
(* in its code, or no /invoke at all.  Of anything else both are errors.     *)
isNoPublishedSnapshot(err) == err.status \in {404, 409} /\ err.path = "invoke"

(* An error is taken for "not published" and the next way is tried: the      *)
(* released snapshot, the record, the draft test.  After the record's start  *)
(* any 409 is taken so, whatever it answers.                                 *)
Caught(err) ==
  CASE call.route = "invoke" /\ isNoPublishedSnapshot(err) -> call' = [call EXCEPT !.route = "execute", !.pc = "start"] /\ UNCHANGED said
    [] call.route = "execute" /\ err.status = 409 -> call' = [call EXCEPT !.route = "test", !.pc = "start"] /\ UNCHANGED said
    [] OTHER -> Broke

Refusals ==
  IF stored = 0 THEN {404}
  ELSE (IF call.route = "invoke" THEN {404} ELSE {}) \cup IF call.route = "test" \/ standing = "published" THEN {} ELSE {409}

Serves ==
  /\ stored # 0
  /\ call.route = "invoke" => standing = "published"
  /\ call.route = "execute" => standing # "draft"

(* The released snapshot may be another than the record.                     *)
MayFail ==
  IF call.route = "invoke" THEN {"fine", "one-fails"}
  ELSE {IF "node-fails" \in flaws THEN "one-fails" ELSE "fine"}

Starting == call.tool \in {"run", "verify"} /\ call.pc = "start"

(* An execution is started, and a start is never repeated.                   *)
executeAndPoll ==
  /\ Starting /\ kind = "workflow"
  /\ \/ /\ Answered /\ UNCHANGED <<started, exec>>
        /\ \E status \in Refusals : Caught([status |-> status, path |-> call.route])
     \/ /\ Serves /\ Answered
        /\ started' = started + 1
        /\ \E nodes \in MayFail : exec' = [is |-> "running", nodes |-> nodes]
        /\ \/ call' = [call EXCEPT !.pc = "watch", !.snap = None] /\ UNCHANGED said
           \/ Ran(Outcome("NO_EXECUTION_ID", "no", "no", "none"))
     \/ /\ Trouble /\ Broke
        /\ \/ UNCHANGED <<started, exec>>
           \/ Serves /\ started' = started + 1 /\ \E nodes \in MayFail : exec' = [is |-> "running", nodes |-> nodes]
  /\ UNCHANGED <<task, kind, stored, flaws, standing, edits, calls, known, shed, dep>>

Watching == call.tool \in {"run", "verify"} /\ call.pc = "watch"

(* Mutant: an execution that waits for a person has succeeded.               *)
WatchedPausedIsOver ==
  /\ Watching /\ Answered
  /\ CASE exec.is \in {"succeeded", "failed", "paused"} ->
            Ran(Outcome("ended", IF exec.is = "failed" THEN "no" ELSE "yes", "no", exec.nodes))
       [] OTHER -> call' = [call EXCEPT !.snap = exec.is] /\ UNCHANGED said
  /\ UNCHANGED <<task, kind, stored, flaws, standing, edits, calls, known, execVars, dep>>

(* The execution is polled until it has ended, or waits for a person.        *)
Watched ==
  /\ Watching /\ Answered
  /\ CASE exec.is \in {"succeeded", "failed"} ->
            Ran(Outcome("ended", IF exec.is = "succeeded" THEN "yes" ELSE "no", "no", exec.nodes))
       [] exec.is = "paused" -> Ran(Outcome("waits-for-a-person", "no", "no", "none"))
       [] OTHER -> call' = [call EXCEPT !.snap = exec.is] /\ UNCHANGED said
  /\ UNCHANGED <<task, kind, stored, flaws, standing, edits, calls, known, execVars, dep>>

(* The first look may fail, with a 404 where the execution cannot be read    *)
(* yet, or with a conflict; later ones are passed over.                      *)
WatchFailed ==
  /\ Watching /\ call.snap = None /\ Trouble
  /\ \E status \in {404, 409, 500} :
       /\ Caught([status |-> status, path |-> "executions"])
       /\ shed' = shed + IF status = 409 /\ call.route = "execute" THEN 1 ELSE 0
  /\ UNCHANGED <<task, kind, stored, flaws, standing, edits, calls, known, exec, started, dep>>

(* Mutant: the wait is as long as the execution.                             *)
WatchOverAtItsEnd ==
  /\ Watching /\ call.snap # None /\ exec.is # "running"
  /\ Ran(Outcome("still-running", "no", "no", "none"))
  /\ UNCHANGED <<task, kind, stored, flaws, standing, trouble, edits, calls, known, execVars, dep>>

WatchOver ==
  /\ Watching /\ call.snap # None
  /\ Ran(Outcome("still-running", "no", "no", "none"))
  /\ UNCHANGED <<task, kind, stored, flaws, standing, trouble, edits, calls, known, execVars, dep>>

(* --- an agent, a module, a model -------------------------------------------*)

(* An empty reply that has cost no tokens, a gateway's 502, 503 or 504, or a *)
(* request that timed out: the platform is overloaded, and it is tried again. *)
Degraded == {"EMPTY_SHED", "HTTP_504", "TIMEOUT"}

(* Mutant: one attempt more.                                                 *)
RetriesAndOne == 3

Retries == 2

(* One turn, and what it looks like from here.                               *)
chatOnce ==
  /\ Starting /\ kind = "agent"
  /\ IF stored = 0 THEN Answered /\ Return(Thrown) /\ UNCHANGED <<started, shed>>
     ELSE \E is \in {"OK", "EMPTY_RESPONSE", "EMPTY_SHED", "HTTP_504", "TIMEOUT", "error"} :
       /\ IF is \in {"OK", "EMPTY_RESPONSE"} THEN Answered ELSE Trouble
       /\ started' \in {started + 1} \cup IF is \in {"HTTP_504", "TIMEOUT", "error"} THEN {started} ELSE {}
       /\ shed' = shed + IF is \in {"EMPTY_SHED", "HTTP_504", "TIMEOUT"} THEN 1 ELSE 0
       /\ CASE is = "error" -> Broke
            [] is \in Degraded /\ call.attempt < Retries -> call' = [call EXCEPT !.attempt = @ + 1] /\ UNCHANGED said
            [] OTHER -> Ran(Outcome(is, IF is = "OK" THEN "yes" ELSE "no", IF is \in Degraded THEN "yes" ELSE "no", "none"))
  /\ UNCHANGED <<task, kind, stored, flaws, standing, edits, calls, known, exec, dep>>

(* A module that has nothing in it finds nothing.                            *)
Search ==
  /\ Starting /\ kind = "module"
  /\ \/ Answered /\ Ran(IF flaws = {} /\ stored > 0 THEN Outcome("OK", "yes", "no", "none") ELSE Outcome("NO_RESULTS", "no", "no", "none"))
     \/ Answered /\ call.tool = "run" /\ Ran(Outcome("NO_QUERY", "no", "no", "none"))
     \/ Trouble /\ Broke
  /\ UNCHANGED <<task, kind, stored, flaws, standing, edits, calls, known, execVars, dep>>

(* A model that is not deployed is not serving, which is no error.           *)
Infer ==
  /\ Starting /\ kind = "model"
  /\ \/ /\ Answered
        /\ IF dep.is = "running" THEN started' = started + 1 /\ Ran(Outcome("OK", "yes", "no", "none"))
           ELSE UNCHANGED started /\ Ran(Outcome("NOT_SERVING", "no", "no", "none"))
     \/ /\ Trouble
        /\ started' \in {started, started + 1}
        /\ Broke \/ Ran(Outcome("NOT_SERVING", "no", "no", "none"))
  /\ UNCHANGED <<task, kind, stored, flaws, standing, edits, calls, known, exec, shed, dep>>

(* --- the platform ----------------------------------------------------------*)

Execute ==
  /\ exec.is = "running"
  /\ \E is \in {"paused", "failed"} \cup {"succeeded"} : exec' = [exec EXCEPT !.is = is]
  /\ UNCHANGED <<studio, started, shed, dep>>

(* A person gives what a paused execution waits for.                         *)
Resume ==
  /\ exec.is = "paused" /\ edits < MaxEdits[task]
  /\ edits' = edits + 1
  /\ exec' = [exec EXCEPT !.is = "running"]
  /\ UNCHANGED <<task, kind, stored, flaws, standing, trouble, calls, known, call, said, started, shed, dep>>

ExecStep ==
  missingConnections \/ executeAndPoll \/ Watched \/ WatchFailed \/ WatchOver \/ chatOnce \/ Search \/ Infer

(* One call starts one execution, one turn or one deployment, whatever is    *)
(* published, taken back or lost meanwhile.  A turn is sent again only after *)
(* an answer that said, or looked like, an overloaded platform, and an       *)
(* execution followed by a test run only when looking at it was answered     *)
(* with a 409.                                                               *)
(* executeAndPoll, chatOnce, the adapters' deploy.                           *)
OnePerCall == started <= 1 + shed

(* A run that is reported as ok was started and has ended well: a paused     *)
(* execution, a wait that ran out and an empty reply are not successes.      *)
(* executeAndPoll.                                                           *)
RunReportIsTrue ==
  (said # None /\ said.tool = "run" /\ "ok" \in DOMAIN said /\ said.ok = "yes" /\ kind = "workflow") =>
    started > 0 /\ exec.is = "succeeded"
=============================================================================
