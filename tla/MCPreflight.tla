---------------------------- MODULE MCPreflight -----------------------------
(* Instances of Preflight for TLC.                                           *)
EXTENDS Preflight

MCModes == {"written", "seed", "registry", "spec", "deploy", "skipped"}
(* One mistake, or two of which one is among these.                          *)
MCOthers ==
  {"rows from a returned array", "table undeclared", "node failed", "agent ungrounded",
   "indexed to nothing", "DASHBOARD brain"}
MCStarts == {{}} \cup {{d} : d \in AllMistakes} \cup {{d, e} : d \in AllMistakes, e \in MCOthers}
MCEdits == {"draft", "AGENT node dropped", "indexed to nothing", "free variable"}
=============================================================================
