--------------------------- MODULE KnowledgeBuild ---------------------------
(***************************************************************************)
(* Knowledge that can be retrieved: buildKnowledge (src/src/knowledge.ts). *)
(* A build creates a dataset, uploads and attaches its documents one at a  *)
(* time, waits for the index and judges by segments and by a retrieval     *)
(* probe, since the platform calls a document COMPLETED with nothing in    *)
(* it, and attaches a file that it never kept.                             *)
(***************************************************************************)
EXTENDS Platform, Sequences

CONSTANTS
  Dataset,    \* the id that the build's dataset gets
  DocLists    \* the documents a build may be asked for: sequences of kinds

DocKinds == {"text", "blank", "unsafe name", "file", "empty file", "outside"}

ASSUME DocListsAssumption == DocLists \subseteq Seq(DocKinds) \ {<<>>}

VARIABLES
  kb,     \* the build
  files,  \* of each document, whether the file store kept what was uploaded
  index   \* of each document, what the index made of it

knowledgeVars == <<kb, files, index>>

Statuses == {"INDEXING", "COMPLETED", "ERROR"}
Terminal == {"COMPLETED", "ERROR"}

NotAttached == [status |-> "none", segments |-> 0, vectors |-> 0]
Row == [status : Statuses, segments : {0, 1}, vectors : {0, 1}]

KnowledgeTypeOK ==
  /\ kb.pc \in {"idle", "create", "upload", "confirm", "attach", "poll", "probe", "ready", "unusable",
                "refused", "threw"}
  /\ kb.doc \in 1..Len(kb.docs) + 1
  /\ \A i \in DOMAIN files : files[i] \in {"none", "kept", "lost"}
  /\ \A i \in DOMAIN index : index[i] \in Row \cup {NotAttached}

NoBuild ==
  [pc |-> "idle", docs |-> <<>>, local |-> "yes", doc |-> 1, confirmed |-> "yes", rows |-> {},
   segmented |-> "no", probed |-> "no"]

KnowledgeInit ==
  /\ kb = NoBuild
  /\ files = <<>>
  /\ index = <<>>

(* Mutant: paths are looked at when they are read. *)
RefusedLate(doc, local) == doc \in {"blank", "unsafe name"}

(* checkKnowledgeDocs: a document that is refused before anything is made.   *)
Refused(doc, local) ==
  \/ doc \in {"blank", "unsafe name", "outside"}
  \/ doc \in {"file", "empty file"} /\ local = "no"

Ask ==
  \E docs \in DocLists, local \in {"yes", "no"} :
    /\ kb.pc = "idle"
    /\ kb' = [kb EXCEPT
                !.pc = IF \E i \in DOMAIN docs : Refused(docs[i], local) THEN "refused" ELSE "create",
                !.docs = docs, !.local = local]
    /\ files' = [i \in DOMAIN docs |-> "none"]
    /\ index' = [i \in DOMAIN docs |-> NotAttached]
    /\ UNCHANGED exists

(* The dataset: a POST that is never repeated, so that one that was made may *)
(* stay unknown.                                                             *)
CreateDataset ==
  \E o \in Outcomes, id \in BOOLEAN : \E fate \in Fates(o) \ {"flying"} :
    /\ kb.pc = "create"
    /\ kb' = [kb EXCEPT !.pc = IF o = "answered" /\ id THEN "upload" ELSE "threw"]
    /\ exists' = IF fate = "served" THEN exists \cup {Dataset} ELSE exists
    /\ UNCHANGED <<files, index>>

Doc == kb.docs[kb.doc]

(* A file of no bytes is found out only here, after the dataset was made.    *)
Upload ==
  \E o \in Outcomes, kept \in {"kept", "lost"} :
    /\ kb.pc = "upload"
    /\ IF Doc = "empty file"
       THEN kb' = [kb EXCEPT !.pc = "threw"] /\ UNCHANGED files
       ELSE /\ kb' = [kb EXCEPT !.pc = IF o = "answered" THEN "confirm" ELSE "threw"]
            /\ files' = IF o = "refused" THEN files ELSE [files EXCEPT ![kb.doc] = kept]
    /\ UNCHANGED <<exists, index>>

(* The uploaded file is read back; when it does not, the build goes on and   *)
(* will say so.                                                              *)
Confirm ==
  \E read \in BOOLEAN :
    /\ kb.pc = "confirm"
    /\ read => files[kb.doc] = "kept"
    /\ kb' = [kb EXCEPT !.pc = "attach", !.confirmed = IF read THEN @ ELSE "no"]
    /\ UNCHANGED <<exists, files, index>>

Attach ==
  \E o \in Outcomes : \E fate \in Fates(o) \ {"flying"} :
    /\ kb.pc = "attach"
    /\ index' = IF fate = "served" THEN [index EXCEPT ![kb.doc].status = "INDEXING"] ELSE index
    /\ kb' = IF o # "answered" THEN [kb EXCEPT !.pc = "threw"]
             ELSE [kb EXCEPT !.pc = IF kb.doc < Len(kb.docs) THEN "upload" ELSE "poll", !.doc = @ + 1]
    /\ UNCHANGED <<exists, files>>

Attached == {i \in DOMAIN index : index[i].status # "none"}

(* A row of the listing, as it stood when it was listed.                     *)
Listed(seen) == {[doc |-> i, row |-> index[i]] : i \in seen}

(* The wait for the index is over: every document is listed and none is      *)
(* pending, or the deadline has passed, whatever is listed then.             *)
WaitIsOver(rows, late) ==
  late \/ (Cardinality(rows) >= Len(kb.docs) /\ \A r \in rows : r.row.status \in Terminal)

(* Mutant: judged on status. *)
SegmentedByStatus(rows) == rows # {} /\ \A r \in rows : r.row.status = "COMPLETED"

(* Judged on segments, not on status, over the rows that are listed.         *)
Segmented(rows) == rows # {} /\ \A r \in rows : r.row.status = "COMPLETED" /\ r.row.segments > 0

(* The listing may lag behind the attachments.  A poll that sees no end      *)
(* changes nothing, and the next one follows.                                *)
Poll ==
  \E seen \in SUBSET Attached, late \in BOOLEAN :
    /\ kb.pc = "poll"
    /\ WaitIsOver(Listed(seen), late)
    /\ kb' = [kb EXCEPT !.pc = "probe", !.rows = Listed(seen),
                        !.segmented = IF Segmented(Listed(seen)) THEN "yes" ELSE "no"]
    /\ UNCHANGED <<exists, files, index>>

PollFails ==
  /\ kb.pc = "poll"
  /\ kb' = [kb EXCEPT !.pc = "threw"]
  /\ UNCHANGED <<exists, files, index>>

Vectors == {i \in DOMAIN index : index[i].vectors > 0}

(* ok: no check is false.  A probe that could not run is not a false check.  *)
Usable(segmented, probed) == kb.confirmed = "yes" /\ segmented = "yes" /\ probed # "nothing"

Probe ==
  \E probed \in {"retrieves", "nothing", "did not run"} :
    /\ kb.pc = "probe"
    /\ probed = "retrieves" => Vectors # {}
    /\ probed = "nothing" => Vectors = {}
    /\ kb' = [kb EXCEPT !.pc = IF Usable(kb.segmented, probed) THEN "ready" ELSE "unusable", !.probed = probed]
    /\ UNCHANGED <<exists, files, index>>

(* The index: a document whose file was lost completes with nothing in it,   *)
(* and the counter is not always written when the vectors are.               *)
Index ==
  \E i \in Attached, row \in Row :
    /\ index[i].status = "INDEXING"
    /\ row.status \in Terminal
    /\ row.status = "ERROR" \/ files[i] # "kept" => row.segments = 0 /\ row.vectors = 0
    /\ index' = [index EXCEPT ![i] = row]
    /\ UNCHANGED <<exists, kb, files>>

BuildStep == CreateDataset \/ Upload \/ Confirm \/ Attach \/ Poll \/ PollFails \/ Probe

(* Calls end, by a timeout if need be, and the clock reaches the deadline of *)
(* the wait; that a listing fails is not counted on.                         *)
KnowledgeFairness ==
  WF_<<exists, knowledgeVars>>(CreateDataset \/ Upload \/ Confirm \/ Attach \/ Poll \/ Probe)

Over == {"ready", "unusable", "refused", "threw"}

----------------------------------------------------------------------------
(* The properties. *)

(* A build that is ok, and whose probe ran, made a dataset that grounds:     *)
(* something in it is retrieved, every file was kept, and every document it  *)
(* judged has what it says, although the index calls empty ones COMPLETED.   *)
UsableIsRetrievable ==
  kb.pc = "ready" =>
    /\ kb.confirmed = "yes" /\ \A i \in DOMAIN files : files[i] = "kept"
    /\ \E i \in Attached : index[i].segments > 0
    /\ kb.probed # "did not run" => Vectors # {}
    /\ Cardinality(kb.rows) = Len(kb.docs) => \A i \in DOMAIN index : index[i].segments > 0

(* "so a refused path never leaves an empty dataset behind".                 *)
RefusedLeavesNothing ==
  Dataset \in exists =>
    \A i \in DOMAIN kb.docs :
      kb.docs[i] \in {"text", "file", "empty file"} /\ (kb.local = "no" => kb.docs[i] = "text")

(* What a build reports as usable is, and what it refuses it never began.    *)
KnowledgeInv == KnowledgeTypeOK /\ UsableIsRetrievable /\ RefusedLeavesNothing

=============================================================================
