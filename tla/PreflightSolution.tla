------------------------- MODULE PreflightSolution --------------------------
(***************************************************************************)
(* The solution that preflight's own controls use: one that is correct in  *)
(* every respect (src/src/preflight/fixture.mjs, with a CHATFLOW_TURN node *)
(* added) and the mistakes that each rule must notice                      *)
(* (src/src/preflight/mutation.mjs).  A component's id is its key.         *)
(***************************************************************************)
EXTENDS PreflightRules

KindOf == [flow |-> "workflow", screener |-> "agent", intake |-> "chatflow",
           front |-> "widget", rules |-> "dataset", module |-> "module"]
NoRows == [form |-> "absent", tokens |-> {}]

Node(type) ==
  [type |-> type, operation |-> "insert", table |-> "", rows |-> NoRows, match |-> {}, tokens |-> {},
   condition |-> {}, returns |-> {}, bans |-> {}, holes |-> {}, ids |-> {}]

RowsJson == [form |-> "bare", tokens |-> {<<"shape", "result", "rowsJson">>}]

CleanNodes ==
  [trigger |-> Node("MANUAL_TRIGGER"),
   fetch |-> Node("HTTP_REQUEST"),
   shape |-> [Node("JAVASCRIPT") EXCEPT !.returns = {<<"rowsJson", "json-text">>, <<"count", "unknown">>}],
   gate |-> [Node("IF_ELSE") EXCEPT !.tokens = {<<"shape", "result", "count">>}],
   persist |-> [Node("DATA_TABLE") EXCEPT !.table = "cf_records", !.rows = RowsJson],
   ground |-> [Node("KNOWLEDGE_RETRIEVAL") EXCEPT !.ids = {<<"datasetId", "rules">>}],
   callAgent |-> [Node("AGENT") EXCEPT !.ids = {<<"agentId", "screener">>}],
   turn |-> [Node("CHATFLOW_TURN") EXCEPT !.ids = {<<"chatFlowId", "intake">>}],
   review |-> Node("HUMAN_INPUT")]

Edge(from, out, to) == [from |-> from, to |-> to, out |-> out, in |-> "in"]

CleanEdges ==
  {Edge("trigger", "out", "fetch"), Edge("fetch", "out", "shape"), Edge("shape", "out", "gate"),
   Edge("gate", "true", "persist"), Edge("persist", "out", "ground"), Edge("ground", "out", "callAgent"),
   Edge("callAgent", "out", "turn"), Edge("turn", "out", "review")}

Trace(type, status, size) == [type |-> type, status |-> status, size |-> size]

CleanRun ==
  [header |-> "SUCCEEDED", envelope |-> "SUCCEEDED", marked |-> "no",
   traces |-> {Trace("JAVASCRIPT", "COMPLETED", "small"), Trace("DATA_TABLE", "COMPLETED", "small")},
   pool |-> {[operation |-> "insert", rows |-> 2]}]

(* What the platform, and the build directory, hold of the solution.         *)
Clean ==
  [comp |->
     [flow |-> [nodes |-> CleanNodes, edges |-> CleanEdges, state |-> "live"],
      screener |-> [capabilityTier |-> "AGENTIC", knowledgeModuleIds |-> {"module"}, knowledgeSources |-> "",
                    tools |-> {"search_knowledge"}, prompt |-> {"ref", "score"}],
      intake |-> [agentId |-> "screener", defaultAgentId |-> "screener", boundAgentId |-> None,
                  fields |-> {"ref", "score"}],
      front |-> [brain |-> [kind |-> "CHATFLOW", id |-> "intake"], agentId |-> None, customDomain |-> ""],
      rules |-> [name |-> "rules"],
      module |-> [datasetId |-> "rules"]],
   runs |-> <<CleanRun>>,
   tables |-> ("cf_records" :> 42),
   modules |-> ("module" :> "rules"),
   datasets |-> {"rules"},
   docs |-> ("rules" :> {[status |-> "COMPLETED", totalSegments |-> 12]}),
   sources |-> {"patch"}]

(* MUTATIONS: what is wrong with a solution, by the rule that must notice.   *)
Mistakes ==
  [rule \in
     {"DT-CODE-RESULT-ROOT", "DT-ROWS-NOT-STRING", "DT-ROWS-BARE-REF", "DT-FILTER-SET-TEMPLATED",
      "DT-TABLE-NAME", "DT-TABLE-LIVE", "GEN-UNRESOLVED-PLACEHOLDER", "GEN-UNDECLARED-INTEGRATION",
      "GEN-UNDECLARED-OUTBOUND", "GEN-UNPARSEABLE-CONDITION", "GEN-SANDBOX-CRYPTO", "WF-GRAPH-SOUND",
      "REF-UNRESOLVABLE-HEAD", "REF-UNDECLARED-OUTPUT-KEY", "WF-EDGE-PORT-UNDEFINED",
      "DT-BRANCHES-WRITE-SAME-SOURCE", "RUN-HEADER-VS-TRACES", "RUN-WROTE-NOTHING",
      "RUN-VARIABLE-POOL-TRIMMED", "API-WORKFLOW-PUT", "AGENT-KNOWLEDGE-EFFECTIVE",
      "AGENT-GROUNDED-ON-EMPTY-KNOWLEDGE", "WIDGET-BRAIN-EFFECTIVE", "CHATFLOW-DOWNSTREAM-EFFECTIVE",
      "KNOWLEDGE-RETRIEVABLE", "WF-PUBLISHED", "WIRE-RESOLVES", "COVERAGE"} |->
   CASE rule = "DT-CODE-RESULT-ROOT" -> {"result root left out", "result root left out in a condition"}
     [] rule = "DT-ROWS-NOT-STRING" -> {"rows as an array"}
     [] rule = "DT-ROWS-BARE-REF" -> {"rows from a returned array", "rows from an unread node"}
     [] rule = "DT-FILTER-SET-TEMPLATED" -> {"filter templated"}
     [] rule = "DT-TABLE-NAME" -> {"table name mistyped", "table undeclared", "table templated", "table blank"}
     [] rule = "DT-TABLE-LIVE" -> {"table never created", "table holds its seed", "stray table"}
     [] rule = "GEN-UNRESOLVED-PLACEHOLDER" -> {"placeholder left"}
     [] rule = "GEN-UNDECLARED-INTEGRATION" -> {"integration added"}
     [] rule = "GEN-UNDECLARED-OUTBOUND" -> {"EMAIL_SEND added"}
     [] rule = "GEN-UNPARSEABLE-CONDITION" -> {"regex in a condition"}
     [] rule = "GEN-SANDBOX-CRYPTO" -> {"crypto required"}
     [] rule = "WF-GRAPH-SOUND" -> {"edge dangling", "node unwired", "entry point gone"}
     [] rule = "REF-UNRESOLVABLE-HEAD" -> {"free variable", "rows from a renamed node"}
     [] rule = "REF-UNDECLARED-OUTPUT-KEY" -> {"rows of an insert"}
     [] rule = "WF-EDGE-PORT-UNDEFINED" -> {"port undefined", "branch by label", "port blank"}
     [] rule = "DT-BRANCHES-WRITE-SAME-SOURCE" -> {"both branches write the same"}
     [] rule = "RUN-HEADER-VS-TRACES" -> {"node failed", "header failed", "envelope failed", "no traces"}
     [] rule = "RUN-WROTE-NOTHING" -> {"insert wrote nothing"}
     [] rule = "RUN-VARIABLE-POOL-TRIMMED" -> {"output over the limit", "run marked truncated"}
     [] rule = "API-WORKFLOW-PUT" -> {"PUT in the build"}
     [] rule = "AGENT-KNOWLEDGE-EFFECTIVE" ->
          {"id in knowledgeSources", "dataset for a module", "module unknown", "module without dataset",
           "tier below AGENTIC"}
     [] rule = "AGENT-GROUNDED-ON-EMPTY-KNOWLEDGE" -> {"indexed to nothing"}
     [] rule = "WIDGET-BRAIN-EFFECTIVE" -> {"widget without brain", "DASHBOARD brain", "customDomain promised"}
     [] rule = "CHATFLOW-DOWNSTREAM-EFFECTIVE" -> {"no hand-off"}
     [] rule = "KNOWLEDGE-RETRIEVABLE" -> {"no documents"}
     [] rule = "WF-PUBLISHED" -> {"draft", "disabled"}
     [] rule = "WIRE-RESOLVES" ->
          {"agent ungrounded", "AGENT node dropped", "KNOWLEDGE_RETRIEVAL node dropped", "chatflowId"}
     [] rule = "COVERAGE" -> {"half the fields", "prompt names none"}]

AllMistakes == UNION {Mistakes[r] : r \in DOMAIN Mistakes}
RuleOf(d) == CHOOSE r \in DOMAIN Mistakes : d \in Mistakes[r]

Set(s, n, field, v) == [s EXCEPT !.comp["flow"].nodes[n] = [@ EXCEPT ![field] = v]]
AddNode(s, n, node) == [s EXCEPT !.comp["flow"].nodes = (n :> node) @@ @]
Without(f, x) == [y \in DOMAIN f \ {x} |-> f[y]]
SetAgent(s, field, v) == [s EXCEPT !.comp["screener"] = [@ EXCEPT ![field] = v]]
Rows(form, path) == [form |-> form, tokens |-> {path}]

(* The solution with one mistake made in its workflow.                       *)
BreakFlow(s, d) ==
  CASE d = "result root left out" -> Set(s, "persist", "rows", Rows("text", <<"shape", "count">>))
    [] d = "result root left out in a condition" -> Set(s, "gate", "tokens", {<<"shape", "rowsJson">>})
    [] d = "rows as an array" -> Set(s, "persist", "rows", Rows("data", <<"shape", "result", "rowsJson">>))
    [] d = "rows from a returned array" ->
         Set(Set(s, "shape", "returns", {<<"rows", "not-text">>, <<"count", "unknown">>}),
             "persist", "rows", Rows("bare", <<"shape", "result", "rows">>))
    [] d = "rows from an unread node" -> Set(s, "persist", "rows", Rows("bare", <<"fetch", "body", "items">>))
    [] d = "filter templated" -> Set(s, "persist", "match", {<<"shape", "result", "ref">>})
    [] d = "table name mistyped" ->
         AddNode(s, "persist2", [Node("DATA_TABLE") EXCEPT !.table = "cf_record"])
    [] d = "table undeclared" -> Set(s, "persist", "table", "cf_scratch")
    [] d = "table templated" -> Set(s, "persist", "table", "templated")
    [] d = "table blank" -> Set(s, "persist", "table", "")
    [] d = "placeholder left" -> Set(s, "fetch", "holes", {"TODO"})
    [] d = "integration added" -> AddNode(s, "drive", Node("GOOGLE_DRIVE"))
    [] d = "EMAIL_SEND added" -> AddNode(s, "mail", Node("EMAIL_SEND"))
    [] d = "regex in a condition" -> Set(s, "gate", "condition", {"alternation"})
    [] d = "crypto required" -> Set(s, "shape", "bans", {"crypto"})
    [] d = "edge dangling" -> [s EXCEPT !.comp["flow"].edges = @ \cup {Edge("shape", "out", "ghost")}]
    [] d = "node unwired" -> AddNode(s, "orphan", Node("NOOP"))
    [] d = "entry point gone" -> [s EXCEPT !.comp["flow"].edges = @ \cup {Edge("review", "out", "trigger")}]
    [] d = "free variable" -> Set(s, "fetch", "tokens", {<<"summary_report_endpoint">>})
    [] d = "rows from a renamed node" ->
         Set(s, "persist", "rows", Rows("bare", <<"normaliseNode", "result", "rowsJson">>))
    [] d = "rows of an insert" -> Set(s, "review", "tokens", {<<"persist", "rows">>})
    [] d = "port undefined" ->
         [s EXCEPT !.comp["flow"].edges = @ \cup {[Edge("shape", "out", "gate") EXCEPT !.in = "undefined"]}]
    [] d = "branch by label" -> [s EXCEPT !.comp["flow"].edges = @ \cup {Edge("gate", "", "persist")}]
    [] d = "port blank" -> [s EXCEPT !.comp["flow"].edges = @ \cup {Edge("trigger", "", "fetch")}]
    [] d = "both branches write the same" ->
         [AddNode(s, "persistX", [Node("DATA_TABLE") EXCEPT !.table = "cf_records_bad",
                                                            !.rows = s.comp["flow"].nodes["persist"].rows])
            EXCEPT !.comp["flow"].edges = @ \cup {Edge("gate", "false", "persistX")}]
    [] d = "draft" -> [s EXCEPT !.comp["flow"].state = "draft"]
    [] d = "disabled" -> [s EXCEPT !.comp["flow"].state = "disabled"]
    [] d = "AGENT node dropped" -> [s EXCEPT !.comp["flow"].nodes = Without(@, "callAgent")]
    [] d = "KNOWLEDGE_RETRIEVAL node dropped" -> [s EXCEPT !.comp["flow"].nodes = Without(@, "ground")]
    [] d = "chatflowId" -> Set(s, "turn", "ids", {<<"chatflowId", "intake">>})

(* The solution with one mistake made elsewhere.                             *)
BreakRest(s, d) ==
  CASE d = "table never created" -> [s EXCEPT !.tables = << >>]
    [] d = "table holds its seed" -> [s EXCEPT !.tables = ("cf_records" :> 1) @@ @]
    [] d = "stray table" -> [s EXCEPT !.tables = @ @@ ("cf_record" :> 0)]
    [] d = "node failed" -> [s EXCEPT !.runs[1].traces = @ \cup {Trace("HTTP_REQUEST", "FAILED", "small")}]
    [] d = "header failed" -> [s EXCEPT !.runs[1].header = "FAILED", !.runs[1].envelope = "FAILED"]
    [] d = "envelope failed" -> [s EXCEPT !.runs[1].envelope = "FAILED"]
    [] d = "no traces" -> [s EXCEPT !.runs[1].traces = {}]
    [] d = "insert wrote nothing" -> [s EXCEPT !.runs[1].pool = {[operation |-> "insert", rows |-> 0]}]
    [] d = "output over the limit" ->
         [s EXCEPT !.runs[1].traces = @ \cup {Trace("JAVASCRIPT", "COMPLETED", "over the limit")}]
    [] d = "run marked truncated" -> [s EXCEPT !.runs[1].marked = "yes"]
    [] d = "PUT in the build" -> [s EXCEPT !.sources = @ \cup {"put"}]
    [] d = "id in knowledgeSources" ->
         SetAgent(SetAgent(s, "knowledgeSources", "module"), "knowledgeModuleIds", {})
    [] d = "dataset for a module" -> SetAgent(s, "knowledgeModuleIds", {"rules"})
    [] d = "module unknown" -> SetAgent(s, "knowledgeModuleIds", {"ghost"})
    [] d = "module without dataset" -> [s EXCEPT !.modules["module"] = None]
    [] d = "tier below AGENTIC" -> SetAgent(s, "capabilityTier", "CONVERSATIONAL")
    [] d = "indexed to nothing" -> [s EXCEPT !.docs["rules"] = {[status |-> "COMPLETED", totalSegments |-> 0]}]
    [] d = "widget without brain" -> [s EXCEPT !.comp["front"].brain = None]
    [] d = "DASHBOARD brain" -> [s EXCEPT !.comp["front"].brain = [kind |-> "DASHBOARD", id |-> "intake"]]
    [] d = "customDomain promised" -> [s EXCEPT !.comp["front"].customDomain = "set"]
    [] d = "no hand-off" ->
         [s EXCEPT !.comp["intake"].agentId = None, !.comp["intake"].defaultAgentId = None]
    [] d = "no documents" -> [s EXCEPT !.docs["rules"] = {}]
    [] d = "agent ungrounded" -> SetAgent(s, "knowledgeModuleIds", {})
    [] d = "half the fields" -> [s EXCEPT !.comp["intake"].fields = {"ref"}]
    [] d = "prompt names none" -> SetAgent(s, "prompt", {})

(* The rules whose subject is the workflow's own record.                     *)
FlowRules ==
  {"DT-CODE-RESULT-ROOT", "DT-ROWS-NOT-STRING", "DT-ROWS-BARE-REF", "DT-FILTER-SET-TEMPLATED",
   "DT-TABLE-NAME", "GEN-UNRESOLVED-PLACEHOLDER", "GEN-UNDECLARED-INTEGRATION",
   "GEN-UNDECLARED-OUTBOUND", "GEN-UNPARSEABLE-CONDITION", "GEN-SANDBOX-CRYPTO", "WF-GRAPH-SOUND",
   "REF-UNRESOLVABLE-HEAD", "REF-UNDECLARED-OUTPUT-KEY", "WF-EDGE-PORT-UNDEFINED",
   "DT-BRANCHES-WRITE-SAME-SOURCE", "WF-PUBLISHED"}

InFlow(d) ==
  RuleOf(d) \in FlowRules \/ d \in {"AGENT node dropped", "KNOWLEDGE_RETRIEVAL node dropped", "chatflowId"}

Break(s, d) == IF InFlow(d) THEN BreakFlow(s, d) ELSE BreakRest(s, d)

(* A mistake is there when making it changes nothing.                        *)
Present(s, d) == Break(s, d) = s

=============================================================================
