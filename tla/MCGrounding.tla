---------------------------- MODULE MCGrounding -----------------------------
(* Instances of Grounding for TLC: an agent, a chatflow and a widget, and    *)
(* what they may be made to refer to; two calls at a time.                   *)
EXTENDS Grounding

MCThings == {"agent", "agent2", "agent3", "flow", "widget", "module", "minted", "ghost", "dataset", "built"}
MCSources == {"agent", "flow", "widget"}

MCKind ==
  [t \in MCThings |->
    CASE t \in {"agent", "agent2", "agent3"} -> "agent"
      [] t = "flow" -> "chatflow"
      [] t = "widget" -> "widget"
      [] t \in {"module", "minted", "ghost"} -> "module"
      [] OTHER -> "dataset"]

MCDatasetOf == [t \in {"module", "minted", "ghost"} |-> IF t = "minted" THEN "built" ELSE "dataset"]

MCRefs0 ==
  [s \in MCSources |->
    [f \in Fields |-> IF s = "agent" /\ f = "linkedAgents" THEN {"agent3"} ELSE {}]]

MCExists0 == MCThings \ {"minted", "ghost", "built"}

Wire(from, relation, to) == [tool |-> "wire", from |-> from, relation |-> relation, to |-> to, dry |-> FALSE]

MCJobs ==
  { Wire("agent", "grounds", "module"),
    Wire("agent", "grounds", "ghost"),
    Wire("agent", "grounds", "dataset"),
    Wire("agent", "invokes", "agent2"),
    Wire("flow", "hands-off-to", "agent"),
    Wire("flow", "hands-off-to", "agent2"),
    Wire("widget", "binds", "agent"),
    Wire("widget", "binds", "flow"),
    Wire("widget", "binds", "module"),
    [Wire("agent", "invokes", "agent2") EXCEPT !.dry = TRUE],
    [tool |-> "ground", from |-> "agent", relation |-> "grounds", to |-> "built", dry |-> FALSE] }

MCTier == <<"AGENTIC">> @@ (0 :> "CONVERSATIONAL")

MCDocLists ==
  {<<"text">>, <<"text", "file">>, <<"text", "empty file">>, <<"text", "outside">>}
=============================================================================
