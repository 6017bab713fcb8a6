--------------------------- MODULE PreflightRules ---------------------------
(***************************************************************************)
(* The rules of the preflight check (src/src/preflight/lib/rules.mjs) over *)
(* one snapshot of a solution.  A workflow's nodes keep what the rules     *)
(* tell apart: a template token is the path it names, code is what it      *)
(* returns and what it reaches for, a table is its name and its row count. *)
(***************************************************************************)
EXTENDS Integers, Sequences, FiniteSets, TLC

CONSTANTS
  None,
  Envelope  \* a listing that came as an envelope around the list

CORE == {"MANUAL_TRIGGER", "HTTP_REQUEST", "JAVASCRIPT", "IF_ELSE", "DATA_TABLE", "HUMAN_INPUT",
         "KNOWLEDGE_RETRIEVAL", "AGENT", "CHATFLOW_TURN", "SUBWORKFLOW", "NOOP"}
OUTBOUND == {"EMAIL_SEND", "SLACK", "NOTIFICATION"}

classify(type) ==
  CASE type \in OUTBOUND -> "outbound" [] type \in CORE -> "core" [] OTHER -> "integration"

ResultRooted == {"CODE", "JAVASCRIPT", "PYTHON", "FUNCTION", "FUNCTION_ITEM"}
Branching == {"IF_ELSE", "SWITCH", "FILTER", "CONDITION"}
ContextRoots == {"inputs", "trigger", "env", "secrets", "context", "item", "TODO"}

(* A finding blocks or warns; a rule that cannot run says so, or throws.     *)
Block(rule) == [rule |-> rule, is |-> "block"]
Warn(rule) == [rule |-> rule, is |-> "warn"]
Skip(rule) == {[rule |-> rule, is |-> "skip"]}
Throws(rule) == {[rule |-> rule, is |-> "error"]}
When(condition, finding) == IF condition THEN {finding} ELSE {}

(* The records that could be read, by kind; allNodes is empty without one.   *)
Read(s, key) == key \in DOMAIN s.comp /\ s.comp[key] # None
Nodes(s) == IF Read(s, "flow") THEN s.comp["flow"].nodes ELSE << >>
Edges(s) == IF Read(s, "flow") THEN s.comp["flow"].edges ELSE {}
OfType(s, types) == {n \in DOMAIN Nodes(s) : Nodes(s)[n].type \in types}
Tables(s) == {Nodes(s)[n] : n \in OfType(s, {"DATA_TABLE"})}
(* Mutant: what is in the rows of a table node is not read.                  *)
TokensOutsideRows(node) == node.tokens \cup node.match
Tokens(node) == node.tokens \cup node.rows.tokens \cup node.match
AllTokens(s) == UNION {Tokens(Nodes(s)[n]) : n \in DOMAIN Nodes(s)}
Keys(node) == {r[1] : r \in node.returns}

(* {{node.field}} where the executor files that field under .result.         *)
CodeResultRoot(s) ==
  When(\E t \in AllTokens(s) :
         /\ Len(t) >= 2 /\ t[1] \in OfType(s, ResultRooted)
         /\ t[2] # "result" /\ t[2] \in Keys(Nodes(s)[t[1]]),
       Block("DT-CODE-RESULT-ROOT"))

RowsNotString(s) ==
  When(\E n \in Tables(s) : n.rows.form = "data" /\ n.rows.tokens # {}, Block("DT-ROWS-NOT-STRING"))

(* Mutant: what a code node returns is not looked at.                        *)
emitsUnknown(s, t) == "unknown"

(* Does {{head.result.key}} resolve to JSON text?                            *)
emitsJsonText(s, t) ==
  IF t[1] \in OfType(s, ResultRooted) /\ Len(t) = 3 /\ t[2] = "result"
       /\ t[3] \in Keys(Nodes(s)[t[1]])
  THEN (CHOOSE r \in Nodes(s)[t[1]].returns : r[1] = t[3])[2]
  ELSE "unknown"

RowsBareRef(s) ==
  UNION {LET text == {emitsJsonText(s, t) : t \in n.rows.tokens}
         IN When("not-text" \in text, Block("DT-ROWS-BARE-REF"))
              \cup When("unknown" \in text, Warn("DT-ROWS-BARE-REF"))
         : n \in {m \in Tables(s) : m.rows.form = "bare"}}

FilterSetTemplated(s) == When(\E n \in Tables(s) : n.match # {}, Block("DT-FILTER-SET-TEMPLATED"))

(* editDistance: the names that are one or two characters apart.             *)
Near == {{"cf_records", "cf_record"}}

Literal(table) == table \notin {"", "templated"}
Named(s) == {n.table : n \in {m \in Tables(s) : Literal(m.table)}}

TableName(s) ==
  When(\/ \E n \in Tables(s) : ~Literal(n.table)
       \/ s.manifest.dataTables # {} /\ ~(Named(s) \subseteq s.manifest.dataTables)
       \/ \E pair \in Near : pair \subseteq Named(s),
       Block("DT-TABLE-NAME"))

(* What the live listing holds of the declared tables; a stray one that has  *)
(* the solution's prefix.  A listing that is not a list makes the rule throw.*)
TableLive(s) ==
  IF s.tables = None \/ s.manifest.dataTables = {} THEN Skip("DT-TABLE-LIVE")
  ELSE IF s.tables = Envelope THEN Throws("DT-TABLE-LIVE")
  ELSE When(\/ \E t \in s.manifest.dataTables : t \notin DOMAIN s.tables \/ s.tables[t] <= 1
            \/ s.manifest.prefixed = "yes" /\ ~(DOMAIN s.tables \subseteq s.manifest.dataTables),
            Warn("DT-TABLE-LIVE"))

UnresolvedPlaceholder(s) ==
  When(\E n \in DOMAIN Nodes(s) : Nodes(s)[n].holes # {}, Block("GEN-UNRESOLVED-PLACEHOLDER"))

Undeclared(s, class, allowed) ==
  \E n \in DOMAIN Nodes(s) : classify(Nodes(s)[n].type) = class /\ Nodes(s)[n].type \notin allowed

UndeclaredIntegration(s) ==
  When(Undeclared(s, "integration", s.manifest.allowedIntegrations), Block("GEN-UNDECLARED-INTEGRATION"))
UndeclaredOutbound(s) ==
  When(Undeclared(s, "outbound", s.manifest.allowedOutbound), Block("GEN-UNDECLARED-OUTBOUND"))

UnparseableCondition(s) ==
  When(\E n \in OfType(s, Branching \cup {"LOOP", "ITERATION"}) : Nodes(s)[n].condition # {},
       Block("GEN-UNPARSEABLE-CONDITION"))

SandboxCrypto(s) ==
  When(\E n \in OfType(s, ResultRooted) : Nodes(s)[n].bans # {}, Block("GEN-SANDBOX-CRYPTO"))

(* Dangling edges, unwired nodes, no entry point.                            *)
GraphSound(s) ==
  LET ids == DOMAIN Nodes(s)
      touched == UNION {{e.from, e.to} : e \in Edges(s)}
  IN When(/\ Read(s, "flow")
          /\ \/ ids = {}
             \/ ~(touched \subseteq ids)
             \/ Cardinality(ids) > 1 /\ ~(ids \subseteq touched)
             \/ ids \subseteq {e.to : e \in Edges(s)},
          Block("WF-GRAPH-SOUND"))

UnresolvableHead(s) ==
  When(\E t \in AllTokens(s) : t[1] \notin DOMAIN Nodes(s) \cup ContextRoots,
       Block("REF-UNRESOLVABLE-HEAD"))

(* The outputs of a DATA_TABLE node differ per operation.                    *)
DeclaredOutputs(operation) ==
  {"operation", "scope", "tableName", "tableId", "success", "error", "rowCount"} \cup
  CASE operation = "insert" -> {"inserted", "rowIds"}
    [] operation = "upsert" -> {"written"}
    [] operation = "query" -> {"rows"}
    [] operation = "update" -> {"updated"}
    [] OTHER -> {}

UndeclaredOutputKey(s) ==
  When(\E t \in AllTokens(s) :
         /\ Len(t) >= 2 /\ t[1] \in OfType(s, {"DATA_TABLE"})
         /\ t[2] \notin DeclaredOutputs(Nodes(s)[t[1]].operation),
       Block("REF-UNDECLARED-OUTPUT-KEY"))

(* A port that was serialised as the text "undefined", one that is absent    *)
(* where a branch leaves, or absent elsewhere: three severities.             *)
EdgePort(s) ==
  When(\E e \in Edges(s) :
         \/ "undefined" \in {e.out, e.in}
         \/ (e.out = "" /\ e.from \in OfType(s, Branching)),
       Block("WF-EDGE-PORT-UNDEFINED"))
    \cup
  When(\E e \in Edges(s) : e.in = "" \/ (e.out = "" /\ e.from \notin OfType(s, Branching)),
       Warn("WF-EDGE-PORT-UNDEFINED"))

sharesExclusiveBranch(s, a, b) ==
  \E ea, eb \in Edges(s) : ea.to = a /\ eb.to = b /\ ea.from = eb.from /\ ea.out # eb.out

Writes(s) ==
  {n \in OfType(s, {"DATA_TABLE"}) :
     Nodes(s)[n].operation \in {"insert", "upsert"} /\ Nodes(s)[n].rows.form # "absent"}

BranchesWriteSameSource(s) ==
  When(\E a, b, c, d \in Writes(s) :
         /\ Cardinality({Nodes(s)[n].rows : n \in {a, b, c, d}}) = 1
         /\ Nodes(s)[a].table # Nodes(s)[b].table
         /\ c # d /\ sharesExclusiveBranch(s, c, d),
       Block("DT-BRANCHES-WRITE-SAME-SOURCE"))

Completed == {"COMPLETED", "SUCCEEDED", "SUCCESS"}
Failed == {"FAILED", "ERROR"}
Halted == {"PAUSED", "CANCELLED"}

(* The status in a run's header, in its trace envelope and in its nodes.     *)
HeaderAgainst(run) ==
  LET statuses == {t.status : t \in run.traces}
      cancelledHumanPause ==
        /\ run.header \in Failed /\ run.envelope = "CANCELLED"
        /\ \E t \in run.traces : t.type = "HUMAN_INPUT" /\ t.status \in Halted
        /\ statuses \subseteq Completed \cup Halted \cup {"SKIPPED"}
  IN IF run.traces = {} THEN {Block("RUN-HEADER-VS-TRACES")}
     ELSE When(\/ run.header \in Completed /\ statuses \cap Failed # {}
               \/ run.header \in Failed /\ statuses \subseteq Completed
               \/ ~cancelledHumanPause /\ run.envelope \notin {"", run.header},
               Block("RUN-HEADER-VS-TRACES"))
          \cup When(cancelledHumanPause, Warn("RUN-HEADER-VS-TRACES"))

RunsOf(s) == {s.runs[i] : i \in DOMAIN s.runs}

HeaderVsTraces(s) ==
  IF s.runs = << >> THEN Skip("RUN-HEADER-VS-TRACES") ELSE UNION {HeaderAgainst(r) : r \in RunsOf(s)}

(* A write that wrote no row: in the latest run it blocks, before it warns.  *)
WroteNothing(s) ==
  LET empty(i) == s.runs[i].pool # None /\ \E w \in s.runs[i].pool : w.rows = 0
  IN IF \A r \in RunsOf(s) : r.pool = None THEN Skip("RUN-WROTE-NOTHING")
     ELSE When(s.runs # << >> /\ empty(1), Block("RUN-WROTE-NOTHING"))
            \cup When(\E i \in DOMAIN s.runs \ {1} : empty(i), Warn("RUN-WROTE-NOTHING"))

PoolTrimmed(s) ==
  IF s.runs = << >> THEN Skip("RUN-VARIABLE-POOL-TRIMMED")
  ELSE When(\E r \in RunsOf(s) : r.marked = "yes" \/ \E t \in r.traces : t.size = "over the limit",
            Warn("RUN-VARIABLE-POOL-TRIMMED"))

WorkflowPut(s) ==
  IF s.sources = None THEN Skip("API-WORKFLOW-PUT")
  ELSE When("put" \in s.sources, Block("API-WORKFLOW-PUT"))

Tools(tier) == tier \in {"AGENTIC", "AUTONOMOUS"}

(* Modules by id, each over a dataset, and a tier that registers the tools.  *)
AgentKnowledge(s) ==
  CASE ~Read(s, "screener") \/ s.modules = None -> Skip("AGENT-KNOWLEDGE-EFFECTIVE")
    [] OTHER ->
         LET a == s.comp["screener"]
         IN When(\/ a.knowledgeSources # "" /\ a.knowledgeModuleIds = {}
                 \/ \E m \in a.knowledgeModuleIds : m \notin DOMAIN s.modules \/ s.modules[m] = None
                 \/ (a.knowledgeModuleIds # {} \/ a.tools # {}) /\ ~Tools(a.capabilityTier),
                 Block("AGENT-KNOWLEDGE-EFFECTIVE"))

(* A dataset whose documents are not known is not guessed about.             *)
EmptyDataset(s, m) ==
  /\ m \in DOMAIN s.modules /\ s.modules[m] \in DOMAIN s.docs /\ s.docs[s.modules[m]] # None
  /\ \A d \in s.docs[s.modules[m]] : d.totalSegments = 0

GroundedOnEmpty(s) ==
  CASE ~Read(s, "screener") \/ s.modules = None -> Skip("AGENT-GROUNDED-ON-EMPTY-KNOWLEDGE")
    [] OTHER ->
         LET a == s.comp["screener"]
         IN When(/\ a.knowledgeModuleIds # {} /\ Tools(a.capabilityTier)
                 /\ \A m \in a.knowledgeModuleIds : EmptyDataset(s, m),
                 Block("AGENT-GROUNDED-ON-EMPTY-KNOWLEDGE"))

WidgetBrain(s) ==
  IF ~Read(s, "front") THEN Skip("WIDGET-BRAIN-EFFECTIVE")
  ELSE LET w == s.comp["front"]
       IN When(IF w.brain = None THEN w.agentId = None ELSE w.brain.kind = "DASHBOARD",
               Block("WIDGET-BRAIN-EFFECTIVE"))
            \cup When(w.customDomain = "set", Warn("WIDGET-BRAIN-EFFECTIVE"))

Effective(chatflow) ==
  IF chatflow.defaultAgentId # None THEN chatflow.defaultAgentId ELSE chatflow.agentId

ChatflowDownstream(s) ==
  IF ~Read(s, "intake") THEN Skip("CHATFLOW-DOWNSTREAM-EFFECTIVE")
  ELSE LET declared == {w \in s.manifest.wires : w.from = "intake" /\ w.relation = "hands-off-to"}
       IN When(/\ declared # {}
               /\ \/ s.comp["intake"].boundAgentId # None
                  \/ \E w \in declared : w.to \in DOMAIN s.comp /\ Effective(s.comp["intake"]) # w.to,
               Block("CHATFLOW-DOWNSTREAM-EFFECTIVE"))

(* Documents that were not listed are passed over.                           *)
KnowledgeRetrievable(s) ==
  IF DOMAIN s.docs = {} THEN Skip("KNOWLEDGE-RETRIEVABLE")
  ELSE When(\E ds \in DOMAIN s.docs :
              /\ s.docs[ds] # None
              /\ s.docs[ds] = {} \/ \E d \in s.docs[ds] : d.status = "COMPLETED" /\ d.totalSegments = 0,
            Block("KNOWLEDGE-RETRIEVABLE"))

Published(s) ==
  IF s.manifest.expectLive = "no" THEN Skip("WF-PUBLISHED")
  ELSE When(Read(s, "flow") /\ s.comp["flow"].state # "live", Block("WF-PUBLISHED"))

(* resolveWire: the one field that the runtime consults, by relation.  A     *)
(* relation without a resolver is reported, and so is an id that is only     *)
(* where nothing reads it.                                                   *)
Connected(s, w) ==
  LET r == s.comp[w.from]
      carries(field) == \E n \in DOMAIN r.nodes : <<field, w.to>> \in r.nodes[n].ids
  IN CASE w.relation = "grounds-on" -> w.to \in r.knowledgeModuleIds
       [] w.relation = "hands-off-to" -> Effective(r) = w.to
       [] w.relation = "answers-through" -> (r.brain # None /\ r.brain.id = w.to) \/ r.agentId = w.to
       [] w.relation = "invokes-agent" -> carries("agentId")
       [] w.relation = "reads-knowledge" -> carries("datasetId") \/ carries("datasetIds")
       [] w.relation = "calls-workflow" -> carries("workflowId")
       [] w.relation = "calls-chatflow" -> carries("chatFlowId")
       [] w.relation = "writes-table" ->
            \E n \in DOMAIN r.nodes : r.nodes[n].type = "DATA_TABLE" /\ r.nodes[n].table = w.to
       [] OTHER -> FALSE

WireResolves(s) ==
  IF s.manifest.wires = {} THEN Skip("WIRE-RESOLVES")
  ELSE When(\E w \in s.manifest.wires :
              ~Read(s, w.from) \/ w.to \notin DOMAIN s.comp \/ ~Connected(s, w),
            Block("WIRE-RESOLVES"))

(* project: what a selector finds on a record; nothing is not coverage.      *)
project(record, selector) == record[selector]

Coverage(s) ==
  IF s.manifest.coverage = {} THEN Skip("COVERAGE")
  ELSE When(\E c \in s.manifest.coverage :
              ~Read(s, c.component) \/ ~(c.of \subseteq project(s.comp[c.component], c.in)),
            Block("COVERAGE"))

(* Every rule over one snapshot.                                             *)
runRules(s) ==
  UNION {CodeResultRoot(s), RowsNotString(s), RowsBareRef(s), FilterSetTemplated(s), TableName(s),
         TableLive(s), UnresolvedPlaceholder(s), UndeclaredIntegration(s), UndeclaredOutbound(s),
         UnparseableCondition(s), SandboxCrypto(s), GraphSound(s), UnresolvableHead(s),
         UndeclaredOutputKey(s), EdgePort(s), BranchesWriteSameSource(s), HeaderVsTraces(s),
         WroteNothing(s), PoolTrimmed(s), WorkflowPut(s), AgentKnowledge(s), GroundedOnEmpty(s),
         WidgetBrain(s), ChatflowDownstream(s), KnowledgeRetrievable(s), Published(s),
         WireResolves(s), Coverage(s)}

=============================================================================
