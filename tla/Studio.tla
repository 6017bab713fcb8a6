------------------------------- MODULE Studio --------------------------------
(***************************************************************************)
(* What the tools that build, run, deploy and verify an artifact share     *)
(* (src/src/tools/ship.ts, src/src/kinds): one artifact of some kind on    *)
(* the platform, and a caller that uses the tools one at a time and goes   *)
(* by what they return.                                                    *)
(***************************************************************************)
EXTENDS Naturals, FiniteSets, Sequences, TLC

CONSTANTS
  None,
  Kinds,       \* the kinds of artifact looked at
  Tasks,       \* what a caller may be at
  Callable,    \* the tools that the caller uses, by task
  MaxCalls,    \* bound, by task: calls of a behaviour
  MaxTrouble,  \* bound, by task: requests that fail or whose answer is lost
  MaxEdits     \* bound, by task: what persons do meanwhile

ASSUME BoundsAssumption ==
  \A t \in Tasks : MaxCalls[t] \in Nat /\ MaxTrouble[t] \in Nat /\ MaxEdits[t] \in Nat

VARIABLES
  task,      \* what the caller is at
  kind,      \* the kind of the artifact
  stored,    \* how many the platform has stored of what the caller wants one of
  flaws,     \* what is wrong with the stored one
  standing,  \* "draft", "published" or "disabled"
  trouble, edits, calls,
  started,   \* executions, turns and deployments that the last call has started
  dep,       \* what is deployed of the artifact, and how it was asked for
  known,     \* what the caller goes by: nothing, a session, an artifact, an id
  call,      \* the call being answered
  said       \* what the last call returned

studio == <<task, kind, stored, flaws, standing, trouble, edits, calls, known, call, said>>

(* The registry of the adapters, and the verbs each of them has.             *)
ADAPTERS ==
  [workflow |-> {"build", "steer", "validate", "create", "refine", "run", "preview", "deploy", "teardown"},
   agent |-> {"build", "steer", "validate", "create", "refine", "run"},
   chatflow |-> {"build", "steer", "validate", "refine"},
   widget |-> {"build", "deploy", "teardown"},
   application |-> {"build", "create", "deploy", "teardown"},
   module |-> {"build", "run"},
   model |-> {"run", "preview", "deploy", "teardown"},
   mcpServer |-> {"build", "steer", "validate", "deploy", "teardown"}]

ASSUME KindsAssumption == Kinds \subseteq DOMAIN ADAPTERS

(* A tool that needs a verb which the adapter lacks refuses before it does   *)
(* anything.                                                                 *)
requireVerb(verb) == verb \in ADAPTERS[kind]

(* What may be wrong with a record of each kind.                             *)
FlawsOf ==
  [workflow |-> {"orphan", "dangling", "no-nodes", "plain-secret", "node-fails"},
   agent |-> {"half-created", "role-plays-tools", "no-memory", "no-prompt"},
   chatflow |-> {"no-fields"},
   widget |-> {"no-brain", "foreign-data"},
   application |-> {"dead-url"},
   module |-> {"no-resources", "never-built"},
   model |-> {"not-uploaded"},
   mcpServer |-> {"no-tools", "invalid", "does-not-compile"}]

(* Most of the defects are looked at one at a time.                          *)
Defective(k) == {{}} \cup {{f} : f \in FlawsOf[k]}

Idle == call.tool = "none"
NoCall == [tool |-> "none", pc |-> "idle"]

(* The caller makes its next call when it has the answer to the last one.    *)
Begin(c) ==
  /\ Idle /\ calls < MaxCalls[task] /\ c.tool \in Callable[task]
  /\ call' = c
  /\ calls' = calls + 1
  /\ said' = None

At(tool, pc) == call.tool = tool /\ call.pc = pc

Goto(pc) == call' = [call EXCEPT !.pc = pc] /\ UNCHANGED said

(* The call is over: with a result, or with the error that was thrown.       *)
Return(result) == call' = NoCall /\ said' = result
Thrown == [tool |-> call.tool, is |-> "error"]

(* A request is answered, or fails for good after its retries: then it was   *)
(* not served, or it was and the answer did not come back.                   *)
Answered == UNCHANGED trouble
Trouble == trouble < MaxTrouble[task] /\ trouble' = trouble + 1

(* Others edit the record, and publish it and take it back.                  *)
Person ==
  /\ stored > 0 /\ edits < MaxEdits[task]
  /\ edits' = edits + 1
  /\ \/ flaws' \in Defective(kind) /\ UNCHANGED standing
     \/ kind \in {"workflow", "chatflow"} /\ standing' \in {"draft", "published", "disabled"} \ {standing} /\ UNCHANGED flaws
  /\ UNCHANGED <<task, kind, stored, trouble, calls, known, call, said>>
=============================================================================
