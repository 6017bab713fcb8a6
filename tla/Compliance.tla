------------------------------ MODULE Compliance -------------------------------
(***************************************************************************)
(* What is said of an artifact's compliance (src/src/compliance.ts and     *)
(* src/src/tools/compliance.ts): an assessment by the platform's controls, *)
(* a scan of code that is collected here, and a record that a reviewer has *)
(* issued, which may be altered, revoked, past its date or of an earlier   *)
(* version.                                                                *)
(***************************************************************************)
EXTENDS Errand, FiniteSetsExt

CONSTANTS
  MaxFiles,    \* bound: files that a scan is asked for
  TotalFiles,  \* SCAN_LIMITS.totalFiles
  BatchFiles   \* SCAN_LIMITS.batchFiles

ASSUME FilesAssumption == MaxFiles \in Nat /\ TotalFiles \in Nat /\ BatchFiles \in Nat \ {0}

VARIABLES
  record,    \* the evidence record that was issued for it
  key        \* the signing key that is published

complianceVars == <<record, key>>

Controls == {"required", "optional"}
Verdicts == {"PASS", "PARTIAL", "FAIL", "UNAVAILABLE", "NOT_APPLICABLE"}

Flaws == {"altered", "revoked", "expired", "outdated"}
Sound == [flaw \in Flaws |-> "no"]

ComplianceTypeOK ==
  /\ record \in [Flaws -> {"yes", "no"}]
  /\ key \in {"published", "another", "withheld"}

(* One thing at most is wrong with the record to begin with.                 *)
ComplianceInit ==
  /\ record \in {Sound} \cup {[Sound EXCEPT ![flaw] = "yes"] : flaw \in Flaws}
  /\ key \in {"published", "withheld"}

Current == record = Sound

(* --- an assessment ------------------------------------------------------------*)

Assess ==
  /\ Begin([tool |-> "assess", pc |-> "post"])
  /\ UNCHANGED complianceVars

(* Mutant: what passes in part is listed nowhere.                            *)
FailingOnly(results) == {c \in Controls : results[c] = "FAIL"}

failing(results) == {c \in Controls : results[c] \in {"FAIL", "PARTIAL"}}

notChecked(results) == {c \in Controls : results[c] = "UNAVAILABLE"}

(* The platform says whether a record may be issued: a required control that *)
(* fails or was not checked blocks it; whether one that does not apply does  *)
(* is for the platform to say, which names what blocks.                      *)
recordEligible(results) ==
  CASE results["required"] = "PASS" -> {"yes"}
    [] results["required"] = "NOT_APPLICABLE" -> {"yes", "no"}
    [] OTHER -> {"no"}

(* What does not apply is in neither list.                                   *)
summarizeAssessment(results, eligible) ==
  [is |-> "assessed", ok |-> eligible, required |-> results["required"],
   listed |-> failing(results) \cup notChecked(results), blocking |-> IF eligible = "yes" THEN {} ELSE {"required"}]

Assessed ==
  /\ At("assess", "post")
  /\ \/ /\ Answered
        /\ \E results \in [Controls -> Verdicts] :
             \E eligible \in recordEligible(results) : Return(summarizeAssessment(results, eligible))
     \/ Trouble /\ Return(Thrown)
  /\ UNCHANGED complianceVars

(* --- a scan ---------------------------------------------------------------------*)

(* A file is named, is in a directory or matches a pattern, or is passed in  *)
(* the call; it holds nothing of note, a minor or a severe finding.  What is *)
(* closed or skipped is a directory: it cannot be listed, or its name is one *)
(* of SKIP_DIRS.                                                             *)
File ==
  [named : {"path", "walk"}, holds : 0 .. 2,
   nature : {"code", "credential", "link", "large", "binary", "ignored", "unreadable", "closed", "skipped"}]
    \cup [named : {"inline"}, holds : 0 .. 2, nature : {"code", "credential", "large"}]

(* A piece of code that is no file may come with the call.                   *)
Scan ==
  /\ \E snippet \in {<< >>} \cup {<<[nature |-> "code", holds |-> h]>> : h \in 0 .. 2} :
       Begin([tool |-> "scan", pc |-> "collect", asked |-> 0, inline |-> 0, files |-> << >>, snippet |-> snippet,
              complete |-> "yes", found |-> 0, missed |-> {}, sent |-> {}])
  /\ UNCHANGED complianceVars

(* What comes with the call has a count of its own.                          *)
Full(named) == TotalFiles <= IF named = "inline" THEN call.inline ELSE Len(call.files) - call.inline

(* Mutant: what the caller names itself is what the caller wants to be read. *)
addFileAsNamed(f) ==
  IF f.nature = "closed" THEN "passed over"
  ELSE IF f.nature \in {"link", "large", "binary"} \/ Full(f.named) THEN "reported"
  ELSE IF f.nature = "unreadable" THEN "thrown" ELSE "collected"

(* A file that the caller names.  .gitignore does not count; a file that     *)
(* cannot be read ends the call, a directory that cannot be listed does not. *)
addFile(f) ==
  IF f.nature = "closed" THEN "passed over"
  ELSE IF f.nature \in {"credential", "link", "large", "binary"} \/ Full(f.named) THEN "reported"
  ELSE IF f.nature = "unreadable" THEN "thrown" ELSE "collected"

(* Mutant: what is too large is passed over as well.                         *)
walkPastLarge(f) ==
  IF f.nature \in {"link", "closed", "skipped", "ignored", "large"} THEN "passed over"
  ELSE IF f.nature \in {"credential", "binary"} \/ Full(f.named) THEN "reported"
  ELSE IF f.nature = "unreadable" THEN "thrown" ELSE "collected"

(* A file that is come across: links, what git ignores and directories that  *)
(* cannot be listed, or have such a name, are passed over.                   *)
walk(f) ==
  IF f.nature \in {"link", "closed", "skipped", "ignored"} THEN "passed over"
  ELSE IF f.nature \in {"credential", "large", "binary"} \/ Full(f.named) THEN "reported"
  ELSE IF f.nature = "unreadable" THEN "thrown" ELSE "collected"

(* Content that comes with the call.                                         *)
collectInline(f) == IF f.nature \in {"credential", "large"} \/ Full(f.named) THEN "reported" ELSE "collected"

(* How a file that holds something goes unread: git ignores it, it is one of *)
(* the things that a walk passes over, or otherwise.                         *)
How(f) ==
  CASE f.named = "walk" /\ f.nature = "ignored" -> "ignored"
    [] f.nature = "closed" \/ (f.named = "walk" /\ f.nature \in {"link", "skipped"}) -> "passed over"
    [] OTHER -> "other"

Missing(f) == IF f.holds = 0 THEN {} ELSE {How(f)}
Unread(files) == IF \E f \in files : f.holds > 0 THEN {"other"} ELSE {}

Collected(f) ==
  CASE f.named = "path" -> addFile(f) [] f.named = "inline" -> collectInline(f) [] OTHER -> walk(f)

collectFiles ==
  /\ At("scan", "collect") /\ Answered
  /\ \/ /\ call.asked < MaxFiles
        /\ \E f \in File :
             LET c == [call EXCEPT !.asked = @ + 1]
             IN CASE Collected(f) = "collected" -> Goto([c EXCEPT !.files = Append(@, [nature |-> f.nature, holds |-> f.holds]),
                                                                  !.inline = @ + IF f.named = "inline" THEN 1 ELSE 0])
                  [] Collected(f) = "reported" -> Goto([c EXCEPT !.complete = "no", !.missed = @ \cup Missing(f)])
                  [] Collected(f) = "passed over" -> Goto([c EXCEPT !.missed = @ \cup Missing(f)])
                  [] OTHER -> Return(Thrown)
     \/ /\ call.asked > 0 \/ call.snippet # << >>
        /\ Goto([call EXCEPT !.pc = "send", !.complete = IF call.files = << >> /\ call.snippet = << >> THEN "no" ELSE @])
  /\ UNCHANGED complianceVars

(* The first batch of what is left; the snippet has a request of its own,    *)
(* the last.                                                                 *)
batch ==
  IF call.files = << >> THEN call.snippet
  ELSE SubSeq(call.files, 1, IF Len(call.files) < BatchFiles THEN Len(call.files) ELSE BatchFiles)
Worst(files) == Max({0} \cup {f.holds : f \in files})
Sent ==
  [call EXCEPT !.files = IF @ = << >> THEN @ ELSE SubSeq(@, Len(batch) + 1, Len(@)),
               !.snippet = IF call.files = << >> THEN << >> ELSE @,
               !.sent = @ \cup {batch[i].nature : i \in DOMAIN batch}]

(* A batch is answered, in whole or in part, or is not.                      *)
scanFiles ==
  /\ At("scan", "send") /\ batch # << >>
  /\ \/ /\ Answered
        /\ \E whole \in {"yes", "no"}, some \in SUBSET DOMAIN batch :
             /\ whole = "yes" => some = DOMAIN batch
             /\ Goto([Sent EXCEPT !.found = Worst({[holds |-> @]} \cup {batch[i] : i \in some}),
                                !.missed = @ \cup Unread({batch[i] : i \in DOMAIN batch \ some}),
                                !.complete = IF whole = "yes" THEN @ ELSE "no"])
     \/ Trouble /\ Goto([Sent EXCEPT !.complete = "no", !.missed = @ \cup Unread(Range(batch))])
  /\ UNCHANGED complianceVars

(* Mutant: where nothing was found everything is well.                       *)
scanVerdictOfFindings(found, complete) == CASE found = 2 -> "FAIL" [] found = 1 -> "PARTIAL" [] OTHER -> "PASS"

scanVerdict(found, complete) ==
  CASE found = 2 -> "FAIL" [] found = 1 -> "PARTIAL" [] OTHER -> IF complete = "yes" THEN "PASS" ELSE "UNAVAILABLE"

Scanned ==
  /\ At("scan", "send") /\ batch = << >> /\ Answered
  /\ LET verdict == scanVerdict(call.found, call.complete)
     IN Return([is |-> "scanned", verdict |-> verdict, missed |-> call.missed, complete |-> call.complete,
                ok |-> IF verdict \in {"PASS", "PARTIAL"} THEN "yes" ELSE "no"])
  /\ UNCHANGED complianceVars

(* --- an evidence record -----------------------------------------------------------*)

GetRecord ==
  /\ \E verify \in {"yes", "no"} :
       Begin([tool |-> "record", pc |-> "read", verify |-> verify, read |-> None, server |-> None, key |-> None,
              was |-> IF Current THEN "current" ELSE "not"])
  /\ UNCHANGED complianceVars

ReadEvidence ==
  /\ At("record", "read")
  /\ \/ /\ Answered
        /\ IF call.verify = "no" THEN Return([is |-> "NOT_VERIFIED"]) ELSE Goto([call EXCEPT !.pc = "verify", !.read = record])
     \/ Trouble /\ Return(Thrown)
  /\ UNCHANGED complianceVars

(* What the platform says of the record: one word, and whether the artifact  *)
(* is still what it was issued for, where it can read it.                    *)
ServerSays ==
  LET fresh == {IF record.outdated = "yes" THEN "no" ELSE "yes", "null"}
      word(f) == IF record.altered = "yes" THEN {"INVALID_SIGNATURE"}
                 ELSE IF record.revoked = "yes" THEN {"REVOKED"}
                 ELSE IF record.expired = "yes" THEN {"EXPIRED"}
                 ELSE IF f = "no" THEN {"STALE", "VALID"} ELSE {"VALID"}
  IN UNION {{[status |-> w, fresh |-> f] : w \in word(f)} : f \in fresh}

(* The two are asked for at once, and fail on their own.                     *)
AskServer ==
  /\ At("record", "verify") /\ call.server = None
  /\ \/ Answered /\ \E s \in ServerSays : Goto([call EXCEPT !.server = s])
     \/ Trouble /\ Goto([call EXCEPT !.server = [status |-> "error", fresh |-> "null"]])
  /\ UNCHANGED complianceVars

AskKey ==
  /\ At("record", "verify") /\ call.key = None
  /\ \/ Answered /\ Goto([call EXCEPT !.key = key])
     \/ Trouble /\ Goto([call EXCEPT !.key = "withheld"])
  /\ UNCHANGED complianceVars

(* The signature is checked here where the key is the one it was made with.  *)
localRecordCheck ==
  IF call.key # "published" THEN "not-possible" ELSE IF call.read.altered = "yes" THEN "invalid" ELSE "valid"

(* Mutant: what is not known to be stale is fresh.                           *)
FreshUnlessStale(s) == s.fresh # "no"

Fresh(s) == s.fresh = "yes"

conclusion ==
  LET s == call.server
  IN IF localRecordCheck = "invalid" \/ s.status = "INVALID_SIGNATURE" THEN "INVALID_SIGNATURE"
     ELSE IF s.status = "error"
          THEN IF localRecordCheck = "valid" THEN "SIGNATURE_VALID_FRESHNESS_UNKNOWN" ELSE "UNVERIFIABLE"
     ELSE IF s.status = "REVOKED" \/ call.read.revoked = "yes" THEN "REVOKED"
     ELSE IF s.status = "EXPIRED" \/ call.read.expired = "yes" THEN "EXPIRED"
     ELSE IF s.status = "STALE" \/ s.fresh = "no" THEN "STALE"
     ELSE IF s.status = "VALID" /\ Fresh(s) THEN "VALID_AND_CURRENT" ELSE "VALID_FRESHNESS_UNKNOWN"

Concluded ==
  /\ At("record", "verify") /\ call.server # None /\ call.key # None /\ Answered
  /\ Return([is |-> conclusion, was |-> call.was])
  /\ UNCHANGED complianceVars

(* The artifact is edited, the record is revoked, or expires, or the key is  *)
(* replaced.                                                                 *)
Ages ==
  /\ Moves
  /\ \/ \E flaw \in {"revoked", "expired", "outdated"} : record[flaw] = "no" /\ record' = [record EXCEPT ![flaw] = "yes"] /\ UNCHANGED key
     \/ key = "published" /\ key' = "another" /\ UNCHANGED record

ComplianceCall == Assess \/ Scan \/ GetRecord
ComplianceStep == Assessed \/ collectFiles \/ scanFiles \/ Scanned \/ ReadEvidence \/ AskServer \/ AskKey \/ Concluded

(* An artifact that may not have a record is told why: a required control    *)
(* that fails, passes in part or was not checked is listed, with its remedy. *)
(* One that does not apply is in no list: should the platform refuse on that *)
(* account, it is named among what blocks, and no more is said of it.        *)
(* summarizeAssessment.                                                      *)
RefusalIsExplained ==
  (said # None /\ said.is = "assessed" /\ said.ok = "no") =>
    "required" \in IF said.required = "NOT_APPLICABLE" THEN said.blocking ELSE said.listed

(* A scan does not pass when a file that holds something was left out of it, *)
(* however it came to be left out: by its nature, a limit, or a batch that   *)
(* failed or was answered in part.  Two things are excepted: what git        *)
(* ignores, as the tool says, and what a walk passes over without a word -   *)
(* links, directories it cannot list, and those of SKIP_DIRS - although the  *)
(* tool says that links are reported and that PASS means "everything         *)
(* checked" (tools/compliance.ts:74-77).                                     *)
(* collectLocalFiles, scanFiles, scanVerdict.                                *)
PassIsChecked ==
  (said # None /\ said.is = "scanned" /\ said.verdict = "PASS") =>
    said.missed \subseteq {"ignored", "passed over"} /\ said.complete = "yes"

(* A file of credentials is not sent, however it is asked for.               *)
(* isCredentialFile in addFile and collectInlineFiles.                       *)
CredentialsStay == call.tool = "scan" => "credential" \notin call.sent

(* A record that was altered, revoked, past its date or of an earlier        *)
(* version when it was asked for is not reported as current, whichever of    *)
(* the requests fail, and in whatever order they are answered.               *)
(* getEvidenceRecord.                                                        *)
CurrentWasCurrent == (said # None /\ said.is = "VALID_AND_CURRENT") => said.was = "current"

(* What is said of an artifact's compliance was looked at and is so.         *)
ComplianceInv ==
  ComplianceTypeOK /\ RefusalIsExplained /\ PassIsChecked /\ CredentialsStay /\ CurrentWasCurrent
================================================================================
