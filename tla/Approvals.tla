------------------------------ MODULE Approvals --------------------------------
(***************************************************************************)
(* Actions that a person has to approve: proposed, approved in Studio, and *)
(* executed from here (src/src/actions.ts, src/src/tools/actions.ts), and  *)
(* the tools that wire an application's code with what the action gave     *)
(* (src/src/tools/wire.ts).                                                *)
(***************************************************************************)
EXTENDS Errand

CONSTANTS
  Wishes,     \* what the caller wants enabled, <<application, capability>>
  MaxActions  \* bound: action requests of a behaviour

ASSUME ActionsAssumption == MaxActions \in Nat

VARIABLES
  actions,  \* the platform's action requests, in the order they came
  plan,     \* what the caller goes by: an action it was told of, or to propose one, or to stop
  code      \* what the project's code is wired for

approvalVars == <<actions, plan, code>>

Propose == 0
Stop == MaxActions + 1

ApprovalInit == actions = << >> /\ plan = [w \in Wishes |-> Propose] /\ code = {}

ApprovalTypeOK ==
  /\ Len(actions) <= MaxActions
  /\ \A i \in DOMAIN actions :
       /\ actions[i].wish \in Wishes /\ actions[i].by \in {"nobody", "person"}
       /\ actions[i].status \in {"PROPOSED", "APPROVED", "REJECTED", "EXECUTED", "FAILED", "EXPIRED"}
       /\ actions[i].stray \in {"no", "untold", "lost"}
  /\ \A w \in Wishes : plan[w] \in {Propose, Stop} \cup DOMAIN actions
  /\ code \subseteq Wishes

Held == {plan[w] : w \in Wishes} \ {Propose, Stop}

(* What the instructions of an action tell its holder: to see to it, to ask  *)
(* for a fresh approval, or to leave it.  One that failed may be retried,    *)
(* which is either of the first two.                                         *)
approvalInstructions(status, id) ==
  CASE status \in {"PROPOSED", "APPROVED", "EXECUTED"} -> {id}
    [] status = "EXPIRED" -> {Propose}
    [] status = "FAILED" -> {id, Propose}
    [] OTHER -> {Stop}

(* The caller goes by one of the instructions it is given.                   *)
Heeds(w, instructions) == \E next \in instructions : plan' = [plan EXCEPT ![w] = next]

(* --- the calls --------------------------------------------------------------*)

RequestApproval ==
  /\ \E w \in Wishes : plan[w] = Propose /\ Begin([tool |-> "request", pc |-> "propose", wish |-> w])
  /\ UNCHANGED approvalVars

ExecuteApproved ==
  /\ \E w \in Wishes : plan[w] \in Held /\ Begin([tool |-> "execute", pc |-> "execute", wish |-> w, id |-> plan[w]])
  /\ UNCHANGED approvalVars

GetActionStatus ==
  /\ \E w \in Wishes : plan[w] \in Held /\ Begin([tool |-> "status", pc |-> "read", wish |-> w, id |-> plan[w]])
  /\ UNCHANGED approvalVars

(* An application is named by its reference or by its name; the action is a  *)
(* new one or one that the caller holds, not always the right one.           *)
Wire ==
  /\ \E w \in Wishes, named \in {"ref", "name"} :
       /\ named = "name" => w[2] = "analytics.enable"
       /\ \E id \in IF plan[w] = Propose THEN {None} \cup Held ELSE Held :
            Begin([tool |-> "wire", pc |-> IF named = "name" THEN "resolve" ELSE IF id = None THEN "propose" ELSE "read",
                   wish |-> w, id |-> id])
  /\ UNCHANGED approvalVars

(* One application has exactly this name, or the caller is told that none or *)
(* several have.                                                             *)
resolveApplication ==
  /\ At("wire", "resolve")
  /\ \/ Answered /\ (To(IF call.id = None THEN "propose" ELSE "read") \/ Return(Thrown))
     \/ Trouble /\ Return(Thrown)
  /\ UNCHANGED approvalVars

(* The platform's policy decides whether an action needs a person.  Of one   *)
(* whose answer was lost the caller never learns, and of one that a wiring   *)
(* tool goes on to execute it learns by what the tool returns.               *)
Proposed(w, needs, stray) == [wish |-> w, needs |-> needs, status |-> "PROPOSED", by |-> "nobody", key |-> "none", stray |-> stray]

Pending == [is |-> "pending"]

(* The action of the call is named in what is returned: after is what has    *)
(* become of the actions, of which this one is now known.                    *)
Tells(after, instructions) ==
  /\ actions' = [after EXCEPT ![call.id].stray = "no"]
  /\ Heeds(call.wish, instructions)

(* It is proposed once: a second proposal would be a second item in          *)
(* somebody's queue.  A wiring tool runs what needs no approval right away.  *)
proposeAction ==
  /\ call.tool \in {"request", "wire"} /\ call.pc = "propose" /\ Len(actions) < MaxActions
  /\ \E needs \in {"yes", "no"} :
       LET id == Len(actions) + 1
           runs == call.tool = "wire" /\ needs = "no"
           with(stray) == Append(actions, Proposed(call.wish, needs, stray))
       IN \/ Answered /\ ~runs /\ actions' = with("no") /\ Heeds(call.wish, {id}) /\ Return(Pending)
          \/ Answered /\ runs /\ actions' = with("untold") /\ UNCHANGED plan /\ Goto([call EXCEPT !.pc = "execute", !.id = id])
          \/ Trouble /\ actions' \in {actions, with("lost")} /\ UNCHANGED plan /\ Return(Thrown)
  /\ UNCHANGED code

(* Mutant: the action that is passed is taken as it comes.                   *)
MatchesAny(id) == TRUE

(* The action that is passed is one of this tool, for this application.      *)
Matches(id) == actions[id].wish = call.wish

Runnable(id) == actions[id].status = "APPROVED" \/ (actions[id].status = "PROPOSED" /\ actions[id].needs = "no")

(* An action goes as far as policy allows without a person.                  *)
advance ==
  /\ call.pc = "read" /\ call.tool \in {"wire", "status"}
  /\ \/ /\ Answered
        /\ \/ call.tool = "status" /\ Return(Pending) /\ Heeds(call.wish, approvalInstructions(actions[call.id].status, call.id))
           \/ call.tool = "wire" /\ ~Matches(call.id) /\ Return(Thrown) /\ UNCHANGED plan
           \/ /\ call.tool = "wire" /\ Matches(call.id)
              /\ CASE Runnable(call.id) -> To("execute") /\ UNCHANGED plan
                   [] actions[call.id].status = "EXECUTED" -> To("write") /\ UNCHANGED plan
                   [] OTHER -> Return(Pending) /\ Heeds(call.wish, approvalInstructions(actions[call.id].status, call.id))
     \/ Trouble /\ Return(Thrown) /\ UNCHANGED plan
  /\ UNCHANGED <<actions, code>>

(* The platform runs an action that may be run, and refuses any other: what  *)
(* has expired with 410, the rest with 409.                                  *)
Runs(id) ==
  {[actions EXCEPT ![id].status = status, ![id].key = key] :
     status \in {"EXECUTED", "FAILED"}, key \in {"publishable", "secret", "none"}}

Refusal(id) == IF actions[id].status = "EXPIRED" THEN 410 ELSE 409

(* Mutant: an action that is refused has expired.                            *)
ExpiredIfRefused(status) == status \in {409, 410}

Expired(status) == status = 410

(* An execution is asked for once.  What a 409 means is read again.  Of an   *)
(* action that has expired the wiring tools tell both: to request a fresh    *)
(* approval, and, from the action as it was read before, to call again.      *)
(* What is thrown names no action.                                           *)
executeAction ==
  /\ call.pc = "execute"
  /\ \/ /\ Answered /\ Runnable(call.id)
        /\ \E after \in Runs(call.id) :
             LET status == after[call.id].status
             IN IF call.tool = "wire" /\ status = "EXECUTED"
                THEN actions' = after /\ To("write") /\ UNCHANGED plan
                ELSE Tells(after, approvalInstructions(status, call.id)) /\ Return(Pending)
     \/ /\ Answered /\ ~Runnable(call.id)
        /\ IF Expired(Refusal(call.id))
           THEN Tells(actions, {Propose} \cup IF call.tool = "wire" THEN {call.id} ELSE {}) /\ Return(Pending)
           ELSE To("reread") /\ UNCHANGED <<actions, plan>>
     \/ /\ Trouble /\ Return(Thrown) /\ UNCHANGED plan
        /\ actions' \in {actions} \cup IF Runnable(call.id) THEN Runs(call.id) ELSE {}
  /\ UNCHANGED code

(* Whatever is not executed, rejected or unreadable is said to wait for a    *)
(* person; the action, when it could be read, brings its own instructions.   *)
refused ==
  /\ call.pc = "reread"
  /\ LET status == actions[call.id].status
     IN \/ Answered /\ Tells(actions, (IF status = "REJECTED" THEN {} ELSE {call.id}) \cup approvalInstructions(status, call.id))
        \/ Trouble /\ Tells(actions, {call.id})
  /\ Return(Pending)
  /\ UNCHANGED code

(* What was executed is written into the project, unless there is no key, or *)
(* one that is not publishable, or a file of another content in the way:     *)
(* then the tool throws, and what it says names the files alone.             *)
wireCode ==
  /\ At("wire", "write") /\ Answered
  /\ \/ /\ call.wish[2] = "analytics.enable" => actions[call.id].key = "publishable"
        /\ code' = code \cup {call.wish} /\ Return([is |-> "wired"]) /\ Tells(actions, {call.id})
     \/ /\ call.wish[2] = "analytics.enable" /\ actions[call.id].key # "publishable"
        /\ Return([is |-> "refused"]) /\ Tells(actions, {call.id}) /\ UNCHANGED code
     \/ Return(Thrown) /\ UNCHANGED approvalVars

(* --- in Studio ----------------------------------------------------------------*)

Review ==
  /\ Moves
  /\ \E i \in DOMAIN actions :
       \/ /\ actions[i].status = "PROPOSED" /\ actions[i].needs = "yes"
          /\ \E status \in {"APPROVED", "REJECTED"} : actions' = [actions EXCEPT ![i].status = status, ![i].by = "person"]
       \/ actions[i].status \in {"PROPOSED", "APPROVED"} /\ actions' = [actions EXCEPT ![i].status = "EXPIRED"]
       \/ Runnable(i) /\ actions' \in Runs(i)
  /\ UNCHANGED <<plan, code>>

ApprovalCall == RequestApproval \/ ExecuteApproved \/ GetActionStatus \/ Wire
ApprovalStep == resolveApplication \/ proposeAction \/ advance \/ executeAction \/ refused \/ wireCode

(* The code of an application is wired only for what was executed for this   *)
(* application, by a person's approval or where none is needed; an analytics *)
(* key that is written is a publishable one.  advance, swfte_wire_analytics. *)
WiredIsApproved ==
  \A w \in code : \E i \in DOMAIN actions :
    /\ actions[i].wish = w /\ actions[i].status = "EXECUTED"
    /\ actions[i].needs = "yes" => actions[i].by = "person"
    /\ w[2] = "analytics.enable" => actions[i].key = "publishable"

(* A caller that does as it is told has one action in the queue, or one      *)
(* executed, for what it wants, however often it calls.  Besides there may   *)
(* be those that it was never told of: a proposal whose answer was lost,     *)
(* and, where no approval is needed, one that a wiring tool proposed and ran *)
(* before it threw - so nobody is asked twice, but what needs no approval    *)
(* may be run twice.  executeAction, proposeAction, OverwriteRefusedError.   *)
Forgotten(a) == a.stray = "lost" \/ (a.stray = "untold" /\ a.needs = "no")

ProposedOnce ==
  \A w \in Wishes :
    Cardinality({i \in DOMAIN actions : actions[i].wish = w /\ ~Forgotten(actions[i])
                                          /\ actions[i].status \in {"PROPOSED", "APPROVED", "EXECUTED"}}) <= 1

(* Nothing is done that was not approved, and nobody is asked twice, but     *)
(* where an answer was lost.                                                 *)
ApprovalInv == ErrandTypeOK /\ ApprovalTypeOK /\ WiredIsApproved /\ ProposedOnce
================================================================================
