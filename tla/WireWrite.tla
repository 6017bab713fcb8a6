----------------------------- MODULE WireWrite ------------------------------
(***************************************************************************)
(* Writing a reference from one artifact to another: writeWire             *)
(* (src/src/wiring.ts) and swfte_agent_ground (src/src/tools/              *)
(* orchestrate.ts), called side by side while people edit the same         *)
(* records.  A record is what its effective fields refer to, and an        *)
(* edition that stands for all the rest of it, the capability tier too.    *)
(***************************************************************************)
EXTENDS Platform

CONSTANTS
  MaxCalls,    \* bound: tool calls, each made once, numbered as they are made
  Jobs,        \* what a call may ask for
  Sources,     \* the records that are written to
  Kind,        \* the kind of each artifact
  DatasetOf,   \* the dataset of each knowledge module
  Refs0,       \* the references each record starts with
  Tier,        \* the capability tier in each edition of a record
  Apart,       \* bound: are calls on different records made side by side?
  MaxEdits     \* bound: edits of the rest of one record

ASSUME BoundsAssumption == MaxCalls \in Nat /\ MaxEdits \in Nat
ASSUME SourcesAssumption == Sources \subseteq Things

VARIABLES
  rec,     \* the platform's records
  flying,  \* writes that the client has given up and the platform has not
  call,    \* the calls
  first,   \* history: what the record held when the call began
  met      \* history: what it has held since

wireVars == <<rec, flying, call, first, met>>

Calls == 1..MaxCalls

ListFields == {"knowledgeModuleIds", "linkedAgents", "linkedWorkflows"}
Fields == ListFields \cup {"brain", "agentId"}
NoField == "no field"
Records == [refs : [Fields -> SUBSET Things], edition : 0..MaxEdits]

ASSUME NoneAssumption == None \notin Things /\ None \notin Records

BrainKinds == {"agent", "chatflow", "workflow"}

(* NEEDS_BACKEND: relations that no record can express.                      *)
Blocked(from, relation, to) ==
  \/ Kind[from] = "workflow" /\ relation = "writes" /\ Kind[to] = "dataset"
  \/ Kind[from] = "agent" /\ relation = "grounds" /\ Kind[to] = "dataset"
  \/ Kind[from] = "application" /\ relation = "reads"

(* pickWriter, verifyField: the one field that the runtime consults.         *)
Field(from, relation, to) ==
  CASE Kind[from] = "widget" /\ relation = "binds" -> "brain"
    [] Kind[from] = "chatflow" /\ relation = "hands-off-to" /\ Kind[to] = "agent" -> "agentId"
    [] Kind[from] = "agent" /\ relation = "grounds" /\ Kind[to] = "module" -> "knowledgeModuleIds"
    [] Kind[from] = "agent" /\ relation = "invokes" ->
         IF Kind[to] = "agent" THEN "linkedAgents" ELSE "linkedWorkflows"
    [] OTHER -> NoField

(* What the two tools may be asked for.                                      *)
ASSUME JobsAssumption ==
  Jobs \subseteq [tool : {"wire", "ground"}, from : Sources, relation : STRING, to : Things, dry : BOOLEAN]

(* A record starts with references that a writer could have put there.       *)
ASSUME Refs0Assumption ==
  /\ Refs0 \in [Sources -> [Fields -> SUBSET Things]]
  /\ \A s \in Sources : \A t \in Refs0[s]["knowledgeModuleIds"] : Kind[t] = "module"

NoJob == [tool |-> "none"]

CallStates ==
  [pc : {"idle", "mint", "target", "before", "list", "merge", "bind", "put", "after", "tier", "done"},
   job : Jobs \cup {NoJob},
   to : Things \cup {None},
   list : SUBSET Things,
   body : Records \cup {None},
   retries : {0, 1},
   state : {"none", "connected", "already-connected", "write-not-reflected", "target-missing",
            "needs-backend", "failed", "module-create-failed"},
   wrote : {"no", "yes"},
   grounded : {"no", "yes", "threw"}]

Idle ==
  [pc |-> "idle", job |-> NoJob, to |-> None, list |-> {}, body |-> None, retries |-> 0,
   state |-> "none", wrote |-> "no", grounded |-> "no"]

(* What can be lost of a record: references, and editions of the rest.       *)
Marks(r) ==
  {m \in Fields \X Things : m[2] \in r.refs[m[1]]} \cup {<<"edition", n>> : n \in 1..r.edition}

WireTypeOK ==
  /\ exists \subseteq Things
  /\ rec \in [Sources -> Records]
  /\ flying \subseteq [src : Sources, body : Records \cup {None}, to : Things]
  /\ call \in [Calls -> CallStates]

WireInit ==
  /\ rec = [s \in Sources |-> [refs |-> Refs0[s], edition |-> 0]]
  /\ flying = {}
  /\ call = [c \in Calls |-> Idle]
  /\ first = [c \in Calls |-> {}]
  /\ met = [c \in Calls |-> {}]

Begun(c) == call[c].pc # "idle"
From(c) == call[c].job.from
FieldOf(c) == Field(From(c), call[c].job.relation, call[c].to)
Holds(r, c) == call[c].to \in r.refs[FieldOf(c)]

Goto(c, q) == call' = [call EXCEPT ![c] = q]
At(c, pc) == call[c].pc = pc

(* The platform's record of s becomes r; the calls on s meet it.             *)
Store(s, r) ==
  /\ rec' = [rec EXCEPT ![s] = r]
  /\ met' = [c \in Calls |-> IF Begun(c) /\ From(c) = s THEN met[c] \cup Marks(r) ELSE met[c]]
  /\ UNCHANGED first

Unchanged == UNCHANGED <<rec, first, met>>

(* The result of writeWire; swfte_agent_ground goes on to look at the tier.  *)
Ended(q, state) == [q EXCEPT !.pc = IF q.job.tool = "ground" THEN "tier" ELSE "done", !.state = state]
Ends(c, state) == Goto(c, Ended(call[c], state))

(* Before any call to the platform: is there a field, and may it be written? *)
Route(from, relation, to) ==
  IF Blocked(from, relation, to) \/ Kind[from] = "workflow" \/ Field(from, relation, to) = NoField
  THEN "needs-backend" ELSE "target"

Routed(q, to) ==
  LET r == Route(q.job.from, q.job.relation, to)
  IN IF r = "target" THEN [q EXCEPT !.pc = "target", !.to = to] ELSE Ended([q EXCEPT !.to = to], r)

(* The call: a ground of a dataset first needs a module over it.             *)
Begin(c) ==
  \E job \in Jobs :
    /\ At(c, "idle") /\ (c > 1 => Begun(c - 1))
    /\ Apart \/ \A d \in Calls : Begun(d) => From(d) = job.from
    /\ Goto(c, IF job.tool = "ground" /\ Kind[job.to] = "dataset"
               THEN [call[c] EXCEPT !.pc = "mint", !.job = job]
               ELSE Routed([call[c] EXCEPT !.job = job], job.to))
    /\ first' = [first EXCEPT ![c] = Marks(rec[job.from])]
    /\ met' = [met EXCEPT ![c] = Marks(rec[job.from])]
    /\ UNCHANGED <<exists, rec, flying>>

(* moduleForDataset: a POST that is never repeated; an answer without an id  *)
(* is a failure like a refusal or a lost answer.  A module that was made all *)
(* the same is left behind.                                                  *)
Mint(c) ==
  \E made \in BOOLEAN, o \in Outcomes, id \in BOOLEAN :
    /\ At(c, "mint")
    /\ o = "answered" => made
    /\ o = "refused" => ~made
    /\ \E m \in {t \in Things \ exists : Kind[t] = "module" /\ DatasetOf[t] = call[c].job.to} \cup {None} :
         /\ made <=> m # None
         /\ exists' = IF made THEN exists \cup {m} ELSE exists
         /\ Goto(c, IF o = "answered" /\ id THEN Routed(call[c], m)
                    ELSE [call[c] EXCEPT !.pc = "done", !.state = "module-create-failed"])
    /\ Unchanged /\ UNCHANGED flying

(* Mutant: no pre-flight of the target. *)
ReadTargetNot(c) ==
  /\ At(c, "target")
  /\ Goto(c, [call[c] EXCEPT !.pc = "before"])
  /\ Unchanged /\ UNCHANGED <<exists, flying>>

(* Pre-flight: a target that does not read back is not written.              *)
ReadTarget(c) ==
  \E read \in ({call[c].to} \cap exists) \cup {None} :
    /\ At(c, "target")
    /\ IF read = None THEN Ends(c, "target-missing") ELSE Goto(c, [call[c] EXCEPT !.pc = "before"])
    /\ Unchanged /\ UNCHANGED <<exists, flying>>

(* The first step of each writer.                                            *)
Writer(c) ==
  CASE FieldOf(c) = "brain" -> "merge"
    [] FieldOf(c) = "agentId" -> "bind"
    [] OTHER -> "list"

(* Mutant: a dry run goes on to write. *)
ReadBeforeDryLast(c) ==
  \E read \in BOOLEAN :
    /\ At(c, "before")
    /\ IF read /\ Holds(rec[From(c)], c) THEN Ends(c, "already-connected")
       ELSE Goto(c, [call[c] EXCEPT !.pc = Writer(c)])
    /\ Unchanged /\ UNCHANGED <<exists, flying>>

(* What is there already is left alone; a dry run ends here.  A source that  *)
(* does not read back is left to the write.                                  *)
ReadBefore(c) ==
  \E read \in BOOLEAN :
    /\ At(c, "before")
    /\ CASE read /\ Holds(rec[From(c)], c) -> Ends(c, "already-connected")
         [] ~(read /\ Holds(rec[From(c)], c)) /\ call[c].job.dry -> Ends(c, "connected")
         [] ~(read /\ Holds(rec[From(c)], c)) /\ ~call[c].job.dry ->
              IF FieldOf(c) = "brain" /\ Kind[call[c].to] \notin BrainKinds
              THEN Ends(c, "failed") ELSE Goto(c, [call[c] EXCEPT !.pc = Writer(c)])
    /\ Unchanged /\ UNCHANGED <<exists, flying>>

(* agentGrounds, agentInvokes: the list as it stands, to be added to.        *)
ReadList(c) ==
  \E read \in BOOLEAN :
    /\ At(c, "list")
    /\ CASE ~read -> Ends(c, "failed")
         [] read /\ Holds(rec[From(c)], c) -> Goto(c, [call[c] EXCEPT !.pc = "after"])
         [] OTHER -> Goto(c, [call[c] EXCEPT !.pc = "merge", !.list = rec[From(c)].refs[FieldOf(c)]])
    /\ Unchanged /\ UNCHANGED <<exists, flying>>

(* Mutant: the list is replaced. *)
NewRefsAlone(c) == {call[c].to}

(* The value that a writer puts into its field.                              *)
NewRefs(c) == IF FieldOf(c) = "brain" THEN {call[c].to} ELSE call[c].list \cup {call[c].to}

(* mergePut reads the whole record again and overlays the one field.         *)
Overlaid(c) ==
  [rec[From(c)] EXCEPT !.refs[FieldOf(c)] = NewRefs(c)]

MergeGet(c) ==
  \E read \in BOOLEAN :
    /\ At(c, "merge")
    /\ IF read THEN Goto(c, [call[c] EXCEPT !.pc = "put", !.body = Overlaid(c), !.list = {}, !.retries = 1])
       ELSE Ends(c, "failed")
    /\ Unchanged /\ UNCHANGED <<exists, flying>>

(* How a write is served, at once or late: the body replaces the record, or, *)
(* for bind-agent, the agent is bound unless another one is.                 *)
Served(w) ==
  CASE w.body # None -> w.body
    [] w.body = None /\ rec[w.src].refs["agentId"] \subseteq {w.to} ->
         [rec[w.src] EXCEPT !.refs["agentId"] = {w.to}]
    [] OTHER -> rec[w.src]

Write(c) == [src |-> From(c), body |-> call[c].body, to |-> call[c].to]

Fate(w, fate) ==
  CASE fate = "served" -> Store(w.src, Served(w)) /\ UNCHANGED flying
    [] fate = "flying" -> flying' = flying \cup {w} /\ Unchanged
    [] fate = "dropped" -> Unchanged /\ UNCHANGED flying

(* The PUT, repeated once with the same body when its effect is not known.   *)
Put(c) ==
  \E o \in Outcomes : \E fate \in Fates(o) :
    /\ At(c, "put")
    /\ Fate(Write(c), fate)
    /\ CASE o = "answered" -> Goto(c, [call[c] EXCEPT !.pc = "after", !.wrote = "yes", !.body = None])
         [] Again(o, call[c].retries) -> Goto(c, [call[c] EXCEPT !.retries = @ - 1, !.wrote = "yes"])
         [] OTHER -> Goto(c, Ended([call[c] EXCEPT !.body = None, !.wrote = "yes"], "failed"))
    /\ UNCHANGED exists

(* POST bind-agent, not repeated: a 409 is an answer like a 200.             *)
Bind(c) ==
  \E o \in Outcomes : \E fate \in Fates(o) :
    /\ At(c, "bind")
    /\ Fate(Write(c), fate)
    /\ Goto(c, IF o = "answered" THEN [call[c] EXCEPT !.pc = "after", !.wrote = "yes"]
               ELSE Ended([call[c] EXCEPT !.wrote = "yes"], "failed"))
    /\ UNCHANGED exists

(* Mutant: what the write has answered is believed. *)
ReadAfterTrusting(c) ==
  \E read \in BOOLEAN :
    /\ At(c, "after")
    /\ Ends(c, "connected")
    /\ Unchanged /\ UNCHANGED <<exists, flying>>

(* Mutant: the write is repeated until it is reflected. *)
ReadAfterAndRepeat(c) ==
  \E read \in BOOLEAN :
    /\ At(c, "after")
    /\ IF read /\ Holds(rec[From(c)], c) THEN Ends(c, "connected") ELSE Goto(c, [call[c] EXCEPT !.pc = Writer(c)])
    /\ Unchanged /\ UNCHANGED <<exists, flying>>

(* Post-verify: only what reads back from the effective field is connected.  *)
ReadAfter(c) ==
  \E read \in BOOLEAN :
    /\ At(c, "after")
    /\ Ends(c, IF read /\ Holds(rec[From(c)], c) THEN "connected" ELSE "write-not-reflected")
    /\ Unchanged /\ UNCHANGED <<exists, flying>>

Ok(state) == state \in {"connected", "already-connected"}

(* checkGroundingIsUsable: below AGENTIC the linked knowledge is never read. *)
TierOk(tier) == tier \in {"AGENTIC", "AUTONOMOUS"}

(* A record that does not read back here fails the whole call.               *)
ReadTier(c) ==
  \E read \in BOOLEAN :
    /\ At(c, "tier")
    /\ Goto(c, [call[c] EXCEPT
                 !.pc = "done",
                 !.grounded = CASE ~read -> "threw"
                                [] read /\ Ok(call[c].state) /\ TierOk(Tier[rec[From(c)].edition]) -> "yes"
                                [] OTHER -> "no"])
    /\ Unchanged /\ UNCHANGED <<exists, flying>>

(* The environment: a write that was given up is served, a person edits.     *)
Land ==
  \E w \in flying :
    /\ Store(w.src, Served(w))
    /\ flying' = flying \ {w}
    /\ UNCHANGED <<exists, call>>

Edit ==
  \E s \in Sources :
    /\ rec[s].edition < MaxEdits
    /\ \E c \in Calls : Begun(c) /\ From(c) = s
    /\ Store(s, [rec[s] EXCEPT !.edition = @ + 1])
    /\ UNCHANGED <<exists, flying, call>>

Step(c) ==
  \/ Mint(c) \/ ReadTarget(c) \/ ReadBefore(c) \/ ReadList(c) \/ MergeGet(c) \/ Put(c) \/ Bind(c)
  \/ ReadAfter(c) \/ ReadTier(c)

WireNext == (\E c \in Calls : Begin(c) \/ Step(c)) \/ Land \/ Edit

WireFairness == \A c \in Calls : WF_<<exists, wireVars>>(Step(c))

----------------------------------------------------------------------------
(* The properties. *)

Reported(c) == At(c, "done")

(* "connected" and "already-connected" are said of a reference that the      *)
(* runtime's own field held at some moment of the call, although other       *)
(* writers replace the whole record between the calls of this one; grounded  *)
(* is said of a module over the dataset that was asked for.                  *)
ConnectedWasThere ==
  \A c \in Calls :
    /\ Reported(c) /\ Ok(call[c].state) /\ ~call[c].job.dry => <<FieldOf(c), call[c].to>> \in met[c]
    /\ call[c].grounded = "yes" /\ Kind[call[c].job.to] = "dataset" =>
         DatasetOf[call[c].to] = call[c].job.to

(* No record refers to an artifact that does not exist, and knowledge is     *)
(* never a bare dataset, which the retrieval would skip without a word, even *)
(* when the module could not be made.                                        *)
NothingDangles ==
  \A s \in Sources :
    /\ UNION {rec[s].refs[f] : f \in Fields} \subseteq exists
    /\ \A t \in rec[s].refs["knowledgeModuleIds"] : Kind[t] = "module"

(* The results that say so have written nothing: a call that found its       *)
(* target missing, had nothing to do, or was a dry run.                      *)
NothingWasWritten ==
  \A c \in Calls :
    call[c].state \in {"target-missing", "needs-backend", "already-connected"}
      \/ (Begun(c) /\ call[c].job.dry) => call[c].wrote = "no"

(* What a wiring tool reports is so, and what it wrote leads somewhere.       *)
WireInv == WireTypeOK /\ ConnectedWasThere /\ NothingDangles /\ NothingWasWritten

(* A reference in a list, a hand-off or an edit of the rest of the record is *)
(* lost only if it came while some call on that record was under way: what a *)
(* call found when it began, it keeps, be its PUT repeated or served late.   *)
LostOnlyToOverlap ==
  [][\A s \in Sources :
       {k \in Marks(rec[s]) \ Marks(rec'[s]) : k[1] # "brain"}
         \subseteq UNION {met[c] \ first[c] : c \in {d \in Calls : Begun(d) /\ From(d) = s}}]_rec

=============================================================================
