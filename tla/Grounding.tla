----------------------------- MODULE Grounding ------------------------------
(***************************************************************************)
(* Knowledge from a description to an agent that reads it:                 *)
(* swfte_knowledge_build (KnowledgeBuild) and then the tools that write    *)
(* references (WireWrite), on one platform.                                *)
(***************************************************************************)
EXTENDS WireWrite, KnowledgeBuild

vars == <<exists, wireVars, knowledgeVars>>

CONSTANTS
  Exists0,  \* the artifacts there are before
  Overlap   \* bound: are references written while knowledge is built?

ASSUME OverlapAssumption == Overlap \in BOOLEAN

(* The dataset is still to be made, and the records refer to what there is.  *)
ASSUME Exists0Assumption ==
  /\ Exists0 \subseteq Things \ {Dataset}
  /\ Dataset \in Things /\ Kind[Dataset] = "dataset"
  /\ \A s \in Sources : UNION {Refs0[s][f] : f \in Fields} \subseteq Exists0

Init ==
  /\ exists = Exists0
  /\ WireInit
  /\ KnowledgeInit

(* The tools are called side by side; the two meet in the dataset alone.     *)
Build ==
  /\ Overlap \/ \A c \in Calls : ~Begun(c)
  /\ Ask \/ BuildStep \/ (kb.pc \notin Over /\ Index)
  /\ UNCHANGED wireVars

Connect ==
  /\ WireNext
  /\ \/ Overlap \/ kb.pc = "idle"
     \/ kb.pc = "ready" /\ \A c \in Calls : Begun(c)' => c = 1 /\ call'[c].job.to = Dataset
  /\ UNCHANGED knowledgeVars

Next == Build \/ Connect

Spec == Init /\ [][Next]_vars
(* Every call that was made is answered, and every build that was asked for, *)
(* whatever the index does: attempts are counted, a write that another call  *)
(* has overwritten is reported and not repeated, and the wait has an end.    *)
(* (Calls are made once each, so that "in the end, all" is each of them.)    *)
CallsReport ==
  <>[]((\A c \in Calls : Begun(c) => Reported(c)) /\ kb.pc \in Over \cup {"idle"})

FairSpec == Spec /\ WireFairness /\ KnowledgeFairness
=============================================================================
