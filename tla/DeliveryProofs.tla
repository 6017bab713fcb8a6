--------------------------- MODULE DeliveryProofs ---------------------------
(***************************************************************************)
(* For any wishes, any number of calls and any failures: nothing is wired  *)
(* that was not approved, and nobody is asked twice; nothing is offered,   *)
(* or known to be published and priced, unconfirmed; what is said of       *)
(* compliance was looked at.                                               *)
(***************************************************************************)
EXTENDS Delivery, FiniteSetTheorems, SequenceTheorems, TLAPS

YesNo == {"yes", "no"}

(* What a call is made of. *)
Requests == [tool : {"request"}, pc : {"propose"}, wish : Wishes]
Executes == [tool : {"execute"}, pc : {"execute", "reread"}, wish : Wishes, id : Nat]
Statuses == [tool : {"status"}, pc : {"read"}, wish : Wishes, id : Nat]
Wires ==
  [tool : {"wire"}, pc : {"resolve", "propose", "read", "execute", "reread", "write"},
   wish : Wishes, id : Nat \cup {None}]

ApprovalCalls == Requests \cup Executes \cup Statuses \cup Wires

Reads == [tool : {"get", "list"}, pc : {"catalogue", "rows", "view"}, confirm : {"no"}, seen : YesNo]
Drafts == [tool : {"draft"}, pc : {"post", "untitled"}, confirm : {"no"}, source : {"source", "none"}]
Advances == [tool : {"submit", "archive", "publish"}, confirm : YesNo, pc : {"post", "unconfirmed", "view"}]
Prices ==
  [tool : {"price"}, pc : {"view", "put"}, confirm : YesNo,
   saw : {"none", "DRAFT", "PENDING_REVIEW", "PUBLISHED", "ARCHIVED"}]
Visibilities ==
  [tool : {"visibility"}, pc : {"unsupported", "view", "put"}, confirm : YesNo,
   mode : {"private", "internal", "marketplace"}]
Sellers ==
  [tool : {"seller"}, confirm : YesNo, does : {"status", "earnings", "onboard"},
   pc : {"refuse", "status", "earnings", "onboard"}]

ListingCalls == Reads \cup Drafts \cup Advances \cup Prices \cup Visibilities \cup Sellers

Read == [nature : {"code", "link", "large", "binary", "ignored", "unreadable", "closed", "skipped"},
         holds : 0 .. 2]
Ways == {"ignored", "passed over", "other"}
Evidence == [Flaws -> YesNo]
Says == [status : {"INVALID_SIGNATURE", "REVOKED", "EXPIRED", "STALE", "VALID", "error"}, fresh : YesNo \cup {"null"}]

Scans ==
  [tool : {"scan"}, pc : {"collect", "send"}, asked : Nat, inline : Nat, files : Seq(Read), snippet : Seq(Read),
   complete : YesNo, found : 0 .. 2, missed : SUBSET Ways, sent : SUBSET {r.nature : r \in Read}]

Looks ==
  [tool : {"record"}, pc : {"read", "verify"}, verify : YesNo, read : Evidence \cup {None},
   server : Says \cup {None}, key : {"published", "another", "withheld", None}, was : {"current", "not"}]

Assessments == [tool : {"assess"}, pc : {"post"}]

ComplianceCalls == Assessments \cup Scans \cup Looks

Attends ==
  \/ call = NoCall
  \/ task = "approvals" /\ call \in ApprovalCalls
  \/ task = "market" /\ call \in ListingCalls
  \/ task = "compliance" /\ call \in ComplianceCalls

(* What the platform holds of the approvals, and what the caller goes by.    *)
Action ==
  [wish : Wishes, needs : YesNo, status : {"PROPOSED", "APPROVED", "REJECTED", "EXECUTED", "FAILED", "EXPIRED"},
   by : {"nobody", "person"}, key : {"publishable", "secret", "none"}, stray : {"no", "untold", "lost"}]

Asked == 1 .. Len(actions)

Pends == {"PROPOSED", "APPROVED", "EXECUTED"}
Open(a) == a.status \in Pends /\ a.stray = "no"
Granted(a) == a.needs = "yes" /\ a.status \in {"APPROVED", "EXECUTED"} => a.by = "person"
Warrants(a, w) ==
  /\ a.wish = w /\ a.status = "EXECUTED"
  /\ a.needs = "yes" => a.by = "person"
  /\ w[2] = "analytics.enable" => a.key = "publishable"

Ledger ==
  /\ actions \in Seq(Action) /\ Len(actions) <= MaxActions
  /\ plan \in [Wishes -> Nat]
  /\ \A w \in Wishes : /\ plan[w] \in {Propose, Stop} \cup Asked
                       /\ plan[w] \in Asked => actions[plan[w]].wish = w
  /\ \A i \in Asked : /\ Granted(actions[i]) /\ (Open(actions[i]) => plan[actions[i].wish] = i)
                      /\ actions[i].stray = "untold" => actions[i].needs = "no"
  /\ code \subseteq Wishes /\ \A w \in code : \E i \in Asked : Warrants(actions[i], w)

(* What a call on an action goes by.                                         *)
Bears(c) ==
  /\ c.tool \in {"request", "wire"} /\ c.pc = "propose" => plan[c.wish] = Propose
  /\ c.tool = "wire" /\ c.pc \in {"resolve", "read"} =>
       IF c.id = None THEN c.pc = "resolve" /\ plan[c.wish] = Propose
       ELSE c.id \in Asked /\ \E w \in Wishes : plan[w] = c.id
  /\ c.tool = "status" => c.id \in Asked /\ plan[c.wish] = c.id
  /\ c.tool = "execute" \/ (c.tool = "wire" /\ c.pc \in {"execute", "reread", "write"}) =>
       c.id \in Asked /\ actions[c.id].wish = c.wish /\ plan[c.wish] \in {c.id, Propose}
  /\ c.tool = "wire" /\ c.pc = "write" => actions[c.id].status = "EXECUTED"

ApprovalSound == Ledger /\ Bears(call)

(* What a call on the listing has made sure of.                              *)
Assured(c) ==
  /\ c.tool = "draft" => ~There
  /\ c.tool \in {"archive", "publish"} /\ c.pc = "post" => c.confirm = "yes"
  /\ c.tool = "seller" /\ c.pc = "onboard" => c.confirm = "yes"
  /\ c.tool = "visibility" /\ c.pc = "put" /\ c.mode = "marketplace" => c.confirm = "yes"
  /\ c.tool = "price" /\ c.pc = "put" /\ c.confirm = "no" => c.saw # "PUBLISHED"

ListingSound == ListingTypeOK /\ Assured(call)

(* What a scan or a look at a record has found.                              *)
Finds(c) ==
  /\ c.tool = "scan" /\ "other" \in c.missed => c.complete = "no"
  /\ c.tool = "record" /\ c.was = "not" => ~Current
  /\ c.tool = "record" /\ c.server # None /\ c.server.status = "VALID" /\ c.server.fresh = "yes" => c.was = "current"

ComplianceSound == ComplianceTypeOK /\ Finds(call)

(* While a call is answered nothing is said yet.                             *)
Telling(s) ==
  /\ s # None /\ s.is = "assessed" /\ s.ok = "no" =>
       "required" \in IF s.required = "NOT_APPLICABLE" THEN s.blocking ELSE s.listed
  /\ s # None /\ s.is = "scanned" /\ s.verdict = "PASS" =>
       s.missed \subseteq {"ignored", "passed over"} /\ s.complete = "yes"
  /\ s # None /\ s.is = "VALID_AND_CURRENT" => s.was = "current"
  /\ s # None /\ "installable" \in DOMAIN s => (s.installable = "yes" <=> listing.carrier # "none")

SaidSound == Telling(said) /\ (~Idle => said = None)

Inv == ErrandTypeOK /\ Attends /\ ApprovalSound /\ ListingSound /\ ComplianceSound /\ SaidSound

----------------------------------------------------------------------------
(* The ledger of the approvals. *)

(* One action has become a, for the same wish and of the same origin.        *)
Turns(i, a) ==
  /\ i \in Asked /\ a \in Action
  /\ a.wish = actions[i].wish /\ a.needs = actions[i].needs /\ a.stray = actions[i].stray
  /\ actions' = [actions EXCEPT ![i] = a]

LEMMA ActionIs ==
  ASSUME Ledger, NEW i \in Asked
  PROVE  actions[i] \in Action /\ Len(actions) \in Nat
  BY DEF Ledger, Asked

LEMMA LedgerTurns ==
  ASSUME Ledger, NEW i, NEW a, Turns(i, a), Granted(a), Open(a) => Open(actions[i]),
         actions[i].status # "EXECUTED", UNCHANGED <<plan, code>>
  PROVE  /\ Ledger' /\ Asked' = Asked /\ actions'[i] = a
         /\ \A j \in Asked : j # i => actions'[j] = actions[j]
         /\ \A j \in Asked : actions'[j].wish = actions[j].wish
         /\ \A j \in Asked : actions[j].status = "EXECUTED" => actions'[j] = actions[j]
  <1>1. i \in 1..Len(actions) /\ a \in Action /\ actions' = [actions EXCEPT ![i] = a]
    BY DEF Turns, Asked
  <1>2. actions \in Seq(Action) /\ Len(actions) \in Nat
    BY DEF Ledger
  <1>3. actions' \in Seq(Action) /\ Len(actions') = Len(actions)
    BY <1>1, <1>2, ExceptSeq
  <1>4. Asked' = Asked
    BY <1>3 DEF Asked
  <1>5. actions'[i] = a /\ \A j \in Asked : j # i => actions'[j] = actions[j]
    BY <1>1, <1>2 DEF Asked
  <1>6. \A j \in Asked : actions'[j].wish = actions[j].wish
    BY <1>5 DEF Turns
  <1>7. plan' = plan /\ code' = code
    OBVIOUS
  <1>8. ASSUME NEW w \in Wishes
        PROVE  plan'[w] \in {Propose, Stop} \cup Asked' /\ (plan'[w] \in Asked' => actions'[plan'[w]].wish = w)
    BY <1>4, <1>6, <1>7 DEF Ledger
  <1>9. ASSUME NEW j \in Asked
        PROVE  /\ Granted(actions'[j]) /\ (Open(actions'[j]) => plan'[actions'[j].wish] = j)
               /\ actions'[j].stray = "untold" => actions'[j].needs = "no"
    <2>1. CASE j = i
      BY <1>5, <1>6, <1>7, <2>1 DEF Ledger, Turns
    <2>2. CASE j # i
      BY <1>5, <1>7, <2>2 DEF Ledger
    <2> QED BY <2>1, <2>2
  <1>10. ASSUME NEW w \in code
         PROVE  \E j \in Asked : Warrants(actions'[j], w)
    <2>1. PICK j \in Asked : Warrants(actions[j], w)
      BY DEF Ledger
    <2>2. j # i
      BY <2>1 DEF Warrants
    <2> QED BY <1>5, <2>1, <2>2
  <1>11. Ledger'
    BY <1>3, <1>4, <1>7, <1>8, <1>9, <1>10 DEF Ledger, Propose, Stop, Granted, Open, Pends, Warrants
  <1> QED BY <1>4, <1>5, <1>6, <1>11

(* An action is run, or a person sees to it.                                 *)
LEMMA Ran ==
  ASSUME Ledger, NEW i \in Asked, Runnable(i), actions' \in Runs(i)
  PROVE  \E a : /\ Turns(i, a) /\ Granted(a) /\ (Open(a) => Open(actions[i])) /\ actions[i].status # "EXECUTED"
                /\ a.status \in {"EXECUTED", "FAILED"} /\ actions'[i] = a
  <1>1. PICK status \in {"EXECUTED", "FAILED"}, kind \in {"publishable", "secret", "none"} :
          actions' = [actions EXCEPT ![i].status = status, ![i].key = kind]
    BY DEF Runs
  <1>2. PICK was : was = actions[i]
    OBVIOUS
  <1>3. was \in Action /\ Granted(was)
    BY <1>2, ActionIs DEF Ledger
  <1>4. PICK a : a = [was EXCEPT !.status = status, !.key = kind]
    OBVIOUS
  <1>5. /\ a \in Action /\ a.wish = was.wish /\ a.needs = was.needs /\ a.stray = was.stray /\ a.by = was.by
        /\ a.status = status
    BY <1>3, <1>4 DEF Action
  <1>6. actions' = [actions EXCEPT ![i] = a]
    <2>1. actions \in Seq(Action)
      BY DEF Ledger
    <2> QED BY <1>1, <1>2, <1>4, <2>1
  <1>7. was.status \in {"APPROVED", "PROPOSED"} /\ (was.status = "PROPOSED" => was.needs = "no")
    BY <1>2 DEF Runnable
  <1>8. Granted(a) /\ (Open(a) => Open(was))
    BY <1>3, <1>5, <1>7 DEF Granted, Open, Pends
  <1>9. actions'[i] = a
    BY <1>5, <1>6 DEF Ledger, Asked
  <1> QED BY <1>2, <1>5, <1>6, <1>7, <1>8, <1>9 DEF Turns

LEMMA Reviewed ==
  ASSUME Ledger, Review
  PROVE  \E i, a : /\ Turns(i, a) /\ Granted(a) /\ (Open(a) => Open(actions[i])) /\ actions[i].status # "EXECUTED"
  <1>1. PICK i \in DOMAIN actions :
          \/ /\ actions[i].status = "PROPOSED" /\ actions[i].needs = "yes"
             /\ \E status \in {"APPROVED", "REJECTED"} : actions' = [actions EXCEPT ![i].status = status, ![i].by = "person"]
          \/ actions[i].status \in {"PROPOSED", "APPROVED"} /\ actions' = [actions EXCEPT ![i].status = "EXPIRED"]
          \/ Runnable(i) /\ actions' \in Runs(i)
    BY DEF Review
  <1>2. actions \in Seq(Action) /\ i \in Asked
    BY DEF Ledger, Asked
  <1>3. PICK was : was = actions[i]
    OBVIOUS
  <1>4. was \in Action
    BY <1>2, <1>3, ActionIs
  <1>5. CASE \E status \in {"APPROVED", "REJECTED"} :
                 was.status = "PROPOSED" /\ actions' = [actions EXCEPT ![i].status = status, ![i].by = "person"]
    <2>1. PICK status \in {"APPROVED", "REJECTED"} :
            was.status = "PROPOSED" /\ actions' = [actions EXCEPT ![i].status = status, ![i].by = "person"]
      BY <1>5
    <2>2. PICK a : a = [was EXCEPT !.status = status, !.by = "person"]
      OBVIOUS
    <2>3. /\ a \in Action /\ a.wish = was.wish /\ a.needs = was.needs /\ a.stray = was.stray /\ a.by = "person"
          /\ a.status = status
      BY <1>4, <2>2 DEF Action
    <2>4. actions' = [actions EXCEPT ![i] = a]
      BY <1>2, <1>3, <2>1, <2>2
    <2>5. Granted(a) /\ (Open(a) => Open(was))
      BY <2>1, <2>3 DEF Granted, Open, Pends
    <2> QED BY <1>2, <1>3, <2>1, <2>3, <2>4, <2>5 DEF Turns
  <1>6. CASE was.status \in {"PROPOSED", "APPROVED"} /\ actions' = [actions EXCEPT ![i].status = "EXPIRED"]
    <2>1. PICK a : a = [was EXCEPT !.status = "EXPIRED"]
      OBVIOUS
    <2>2. /\ a \in Action /\ a.wish = was.wish /\ a.needs = was.needs /\ a.stray = was.stray
          /\ a.status = "EXPIRED"
      BY <1>4, <2>1 DEF Action
    <2>3. actions' = [actions EXCEPT ![i] = a]
      BY <1>2, <1>3, <1>6, <2>1
    <2>4. Granted(a) /\ ~Open(a)
      BY <2>2 DEF Granted, Open, Pends
    <2> QED BY <1>2, <1>3, <1>6, <2>2, <2>3, <2>4 DEF Turns
  <1>7. CASE Runnable(i) /\ actions' \in Runs(i)
    BY <1>2, <1>7, Ran
  <1> QED BY <1>1, <1>3, <1>5, <1>6, <1>7

(* The holder of an action heeds what it is told of it.                      *)
LEMMA LedgerHeeds ==
  ASSUME Ledger, NEW w \in Wishes, NEW n, UNCHANGED <<actions, code>>, plan' = [plan EXCEPT ![w] = n],
         \/ n = plan[w]
         \/ n \in {Propose, Stop} /\ plan[w] \in Asked /\ ~Open(actions[plan[w]])
  PROVE  Ledger'
  <1>1. actions' = actions /\ code' = code /\ plan' = [plan EXCEPT ![w] = n]
    OBVIOUS
  <1>2. MaxActions \in Nat /\ Len(actions) \in Nat /\ Len(actions) <= MaxActions
    BY ActionsAssumption DEF Ledger
  <1>3. Propose \in Nat /\ Stop \in Nat /\ Propose \notin Asked /\ Stop \notin Asked
    BY <1>2 DEF Propose, Stop, Asked
  <1>4. n \in Nat /\ n \in {Propose, Stop} \cup Asked /\ (n \in Asked => n = plan[w])
    BY <1>3 DEF Ledger
  <1>5. plan' \in [Wishes -> Nat] /\ plan'[w] = n /\ \A v \in Wishes : v # w => plan'[v] = plan[v]
    BY <1>1, <1>4 DEF Ledger
  <1>6. Asked' = Asked
    BY <1>1 DEF Asked
  <1>7. ASSUME NEW v \in Wishes
        PROVE  plan'[v] \in {Propose, Stop} \cup Asked /\ (plan'[v] \in Asked => actions[plan'[v]].wish = v)
    BY <1>4, <1>5 DEF Ledger
  <1>8. ASSUME NEW j \in Asked, Open(actions[j])
        PROVE  plan'[actions[j].wish] = j
    <2>1. actions[j].wish \in Wishes /\ plan[actions[j].wish] = j
      BY <1>8, ActionIs DEF Ledger, Action
    <2>2. CASE actions[j].wish = w
      BY <1>5, <1>8, <2>1, <2>2
    <2>3. CASE actions[j].wish # w
      BY <1>5, <2>1, <2>3
    <2> QED BY <2>2, <2>3
  <1> QED BY <1>1, <1>5, <1>6, <1>7, <1>8 DEF Ledger, Propose, Stop

(* A proposal is one more action: its holder's, or a stray one.              *)
LEMMA LedgerGrows ==
  ASSUME Ledger, NEW w \in Wishes, plan[w] = Propose, Len(actions) < MaxActions, NEW needs \in YesNo,
         NEW stray \in {"no", "untold", "lost"}, stray = "untold" => needs = "no",
         actions' = Append(actions, Proposed(w, needs, stray)), code' = code,
         IF stray = "no" THEN Heeds(w, {Len(actions) + 1}) ELSE plan' = plan
  PROVE  Ledger' /\ Len(actions') = Len(actions) + 1 /\ actions'[Len(actions) + 1].wish = w
  <1>1. PICK a : a = Proposed(w, needs, stray)
    OBVIOUS
  <1>2. a \in Action /\ a.wish = w /\ a.stray = stray /\ a.needs = needs /\ a.status = "PROPOSED" /\ Granted(a)
    BY <1>1 DEF Proposed, Action, YesNo, Granted
  <1>3. PICK n : n = Len(actions) + 1
    OBVIOUS
  <1>4. MaxActions \in Nat /\ Len(actions) \in Nat /\ actions \in Seq(Action)
    BY ActionsAssumption DEF Ledger
  <1>5. /\ actions' \in Seq(Action) /\ Len(actions') = n /\ actions'[n] = a
        /\ \A j \in Asked : actions'[j] = actions[j]
    BY <1>1, <1>2, <1>3, <1>4, AppendProperties DEF Asked
  <1>6. Asked' = Asked \cup {n} /\ n \notin Asked
    BY <1>3, <1>4, <1>5 DEF Asked
  <1>7. Propose \in Nat /\ Stop \in Nat /\ Propose \notin Asked' /\ Stop \notin Asked' /\ n <= MaxActions /\ n \in Nat
    BY <1>3, <1>4, <1>5 DEF Propose, Stop, Asked
  <1>8. /\ plan' \in [Wishes -> Nat] /\ \A v \in Wishes : v # w => plan'[v] = plan[v]
        /\ plan'[w] = IF stray = "no" THEN n ELSE Propose
    BY <1>3, <1>7 DEF Heeds, Ledger
  <1>9. ASSUME NEW v \in Wishes
        PROVE  plan'[v] \in {Propose, Stop} \cup Asked' /\ (plan'[v] \in Asked' => actions'[plan'[v]].wish = v)
    <2>1. CASE v = w
      BY <1>2, <1>5, <1>6, <1>7, <1>8, <2>1
    <2>2. CASE v # w
      <3>1. plan'[v] = plan[v] /\ plan[v] \in {Propose, Stop} \cup Asked /\ (plan[v] \in Asked => actions[plan[v]].wish = v)
        BY <1>8, <2>2 DEF Ledger
      <3>2. plan[v] # n
        BY <1>6, <1>7, <3>1
      <3> QED BY <1>5, <1>6, <3>1, <3>2
    <2> QED BY <2>1, <2>2
  <1>10. ASSUME NEW j \in Asked'
         PROVE  /\ Granted(actions'[j]) /\ (Open(actions'[j]) => plan'[actions'[j].wish] = j)
                /\ actions'[j].stray = "untold" => actions'[j].needs = "no"
    <2>1. CASE j = n
      BY <1>2, <1>5, <1>8, <2>1 DEF Open, Pends
    <2>2. CASE j # n
      <3>1. j \in Asked /\ actions'[j] = actions[j] /\ actions[j].wish \in Wishes
        BY <1>5, <1>6, <2>2, ActionIs DEF Action
      <3>2. /\ Granted(actions[j]) /\ (Open(actions[j]) => plan[actions[j].wish] = j)
            /\ actions[j].stray = "untold" => actions[j].needs = "no"
        BY <3>1 DEF Ledger
      <3>3. j # Propose
        BY <1>6, <1>7, <3>1
      <3> QED BY <1>8, <3>1, <3>2, <3>3
    <2> QED BY <2>1, <2>2
  <1>11. ASSUME NEW v \in code
         PROVE  \E j \in Asked' : Warrants(actions'[j], v)
    <2>1. PICK j \in Asked : Warrants(actions[j], v)
      BY DEF Ledger
    <2> QED BY <1>5, <1>6, <2>1
  <1>12. Ledger'
    BY <1>5, <1>7, <1>8, <1>9, <1>10, <1>11 DEF Ledger, Propose, Stop, Granted, Open, Pends, Warrants
  <1> QED BY <1>2, <1>3, <1>5, <1>12

(* The action of a call is named to its caller, as it has become.            *)
LEMMA LedgerTells ==
  ASSUME Ledger, NEW w \in Wishes, NEW i \in Asked, actions[i].wish = w, plan[w] \in {i, Propose},
         NEW a \in Action, a.wish = w, a.stray = "no", Granted(a),
         \A v : Warrants(actions[i], v) => Warrants(a, v),
         NEW n, n = i \/ (n \in {Propose, Stop} /\ ~Open(a)),
         actions' = [actions EXCEPT ![i] = a], plan' = [plan EXCEPT ![w] = n],
         code' \subseteq Wishes, \A v \in code' : v \in code \/ Warrants(a, v)
  PROVE  Ledger'
  <1>1. actions \in Seq(Action) /\ Len(actions) \in Nat /\ i \in 1..Len(actions) /\ plan \in [Wishes -> Nat]
    BY DEF Ledger, Asked
  <1>2. actions' \in Seq(Action) /\ Len(actions') = Len(actions)
    BY <1>1, ExceptSeq
  <1>3. actions'[i] = a /\ \A j \in Asked : j # i => actions'[j] = actions[j]
    BY <1>1 DEF Asked
  <1>4. Asked' = Asked /\ Asked \subseteq Nat
    BY <1>1, <1>2 DEF Asked
  <1>5. Propose \in Nat /\ Stop \in Nat /\ Propose \notin Asked /\ Stop \notin Asked
    BY <1>1, ActionsAssumption DEF Ledger, Propose, Stop, Asked
  <1>6. plan' \in [Wishes -> Nat] /\ plan'[w] = n /\ \A v \in Wishes : v # w => plan'[v] = plan[v]
    BY <1>1, <1>4, <1>5
  <1>7. ASSUME NEW v \in Wishes
        PROVE  plan'[v] \in {Propose, Stop} \cup Asked' /\ (plan'[v] \in Asked' => actions'[plan'[v]].wish = v)
    <2>1. CASE v = w
      BY <1>3, <1>4, <1>5, <1>6, <2>1
    <2>2. CASE v # w
      <3>1. plan'[v] = plan[v] /\ plan[v] \in {Propose, Stop} \cup Asked /\ (plan[v] \in Asked => actions[plan[v]].wish = v)
        BY <1>6, <2>2 DEF Ledger
      <3> QED BY <1>3, <1>4, <2>2, <3>1
    <2> QED BY <2>1, <2>2
  <1>8. ASSUME NEW j \in Asked
        PROVE  /\ Granted(actions'[j]) /\ (Open(actions'[j]) => plan'[actions'[j].wish] = j)
               /\ actions'[j].stray = "untold" => actions'[j].needs = "no"
    <2>1. CASE j = i
      BY <1>3, <1>6, <2>1
    <2>2. CASE j # i
      <3>1. actions'[j] = actions[j] /\ actions[j].wish \in Wishes
        BY <1>3, <2>2, ActionIs DEF Action
      <3>2. /\ Granted(actions[j]) /\ (Open(actions[j]) => plan[actions[j].wish] = j)
            /\ actions[j].stray = "untold" => actions[j].needs = "no"
        BY DEF Ledger
      <3>3. j # Propose
        BY <1>5
      <3> QED BY <1>6, <2>2, <3>1, <3>2, <3>3
    <2> QED BY <2>1, <2>2
  <1>9. ASSUME NEW v \in code'
        PROVE  \E j \in Asked : Warrants(actions'[j], v)
    <2>1. CASE Warrants(a, v)
      BY <1>3, <2>1
    <2>2. CASE v \in code
      <3>1. PICK j \in Asked : Warrants(actions[j], v)
        BY <2>2 DEF Ledger
      <3> QED BY <1>3, <3>1
    <2> QED BY <2>1, <2>2
  <1> QED BY <1>2, <1>4, <1>6, <1>7, <1>8, <1>9 DEF Ledger, Propose, Stop, Granted, Open, Pends, Warrants

(* Nothing but that it is named to its caller happens to the action.         *)
LEMMA LedgerNames ==
  ASSUME Ledger, NEW w \in Wishes, NEW i \in Asked, actions[i].wish = w, plan[w] \in {i, Propose},
         NEW instructions, \A n \in instructions : n = i \/ (n \in {Propose, Stop} /\ actions[i].status \notin Pends),
         actions' = [actions EXCEPT ![i].stray = "no"], Heeds(w, instructions),
         code' \subseteq Wishes, \A v \in code' : v \in code \/ Warrants(actions[i], v)
  PROVE  Ledger'
  <1>1. PICK was : was = actions[i]
    OBVIOUS
  <1>2. was \in Action /\ Granted(was) /\ actions \in Seq(Action)
    BY <1>1, ActionIs DEF Ledger
  <1>3. PICK a : a = [was EXCEPT !.stray = "no"]
    OBVIOUS
  <1>4. /\ a \in Action /\ a.wish = was.wish /\ a.needs = was.needs /\ a.status = was.status /\ a.by = was.by
        /\ a.key = was.key /\ a.stray = "no"
    BY <1>2, <1>3 DEF Action
  <1>5. actions' = [actions EXCEPT ![i] = a]
    BY <1>1, <1>2, <1>3
  <1>6. PICK n \in instructions : plan' = [plan EXCEPT ![w] = n]
    BY DEF Heeds
  <1>7. n = i \/ (n \in {Propose, Stop} /\ ~Open(a))
    BY <1>1, <1>4 DEF Open, Pends
  <1>8. Granted(a) /\ \A v : Warrants(was, v) <=> Warrants(a, v)
    BY <1>2, <1>4 DEF Granted, Warrants
  <1> QED BY <1>1, <1>4, <1>5, <1>6, <1>7, <1>8, LedgerTells

----------------------------------------------------------------------------
(* What every call has in common. *)

(* A call of one part knows nothing of the other two.                        *)
LEMMA Strangers ==
  ASSUME NEW c
  PROVE  /\ c \in ApprovalCalls \cup {NoCall} => Assured(c) /\ Assured(c)' /\ Finds(c) /\ Finds(c)'
         /\ c \in ListingCalls \cup {NoCall} => Bears(c) /\ Bears(c)' /\ Finds(c) /\ Finds(c)'
         /\ c \in ComplianceCalls \cup {NoCall} => Bears(c) /\ Bears(c)' /\ Assured(c) /\ Assured(c)'
  <1>1. c \in ApprovalCalls \cup {NoCall} => c.tool \in {"request", "execute", "status", "wire", "none"}
    BY DEF ApprovalCalls, Requests, Executes, Statuses, Wires, NoCall
  <1>2. c \in ListingCalls \cup {NoCall} =>
          c.tool \in {"get", "list", "draft", "submit", "archive", "publish", "price", "visibility", "seller", "none"}
    BY DEF ListingCalls, Reads, Drafts, Advances, Prices, Visibilities, Sellers, NoCall
  <1>3. c \in ComplianceCalls \cup {NoCall} => c.tool \in {"assess", "scan", "record", "none"}
    BY DEF ComplianceCalls, Assessments, Scans, Looks, NoCall
  <1>4. c \in ApprovalCalls \cup {NoCall} => Assured(c) /\ Assured(c)' /\ Finds(c) /\ Finds(c)'
    BY <1>1 DEF Assured, Finds
  <1>5. c \in ListingCalls \cup {NoCall} => Bears(c) /\ Bears(c)' /\ Finds(c) /\ Finds(c)'
    BY <1>2 DEF Bears, Finds
  <1>6. c \in ComplianceCalls \cup {NoCall} => Bears(c) /\ Bears(c)' /\ Assured(c) /\ Assured(c)'
    BY <1>3 DEF Bears, Assured
  <1> QED BY <1>4, <1>5, <1>6

LEMMA SomeCall ==
  NoCall \notin ApprovalCalls /\ NoCall \notin ListingCalls /\ NoCall \notin ComplianceCalls
  <1>1. NoCall.tool = "none"
    BY DEF NoCall
  <1>2. NoCall \notin ApprovalCalls
    BY <1>1 DEF ApprovalCalls, Requests, Executes, Statuses, Wires
  <1>3. NoCall \notin ListingCalls
    BY <1>1 DEF ListingCalls, Reads, Drafts, Advances, Prices, Visibilities, Sellers
  <1>4. NoCall \notin ComplianceCalls
    BY <1>1 DEF ComplianceCalls, Assessments, Scans, Looks
  <1> QED BY <1>2, <1>3, <1>4

(* Answers that say nothing of an assessment, a record or a listing.         *)
Plain(r) == "installable" \notin DOMAIN r /\ r.is \notin {"assessed", "scanned", "VALID_AND_CURRENT"}

LEMMA PlainTells ==
  ASSUME NEW r, Plain(r)
  PROVE  Telling(r)'
  <1>1. r.is \notin {"assessed", "scanned", "VALID_AND_CURRENT"} /\ "installable" \notin DOMAIN r
    BY DEF Plain
  <1> QED BY <1>1 DEF Telling

LEMMA NothingTells ==
  ASSUME NEW r, r = None
  PROVE  Telling(r) /\ Telling(r)'
  BY DEF Telling

(* The bounds on what happens are kept.                                      *)
LEMMA BoundsKept ==
  ASSUME ErrandTypeOK, Answered \/ Trouble
  PROVE  ErrandTypeOK' /\ task' = task /\ moves' = moves
  BY BoundsAssumption DEF ErrandTypeOK, Answered, Trouble

(* A step of a call: it goes on with c, or it is over and answers r.         *)
Goes(c) == call' = c /\ said' = said
Ends(r) == call' = NoCall /\ said' = r

LEMMA SaidGoes ==
  ASSUME SaidSound, ~Idle, NEW c, Goes(c)
  PROVE  SaidSound'
  <1>1. said = None /\ said' = None
    BY DEF SaidSound, Goes
  <1> QED BY <1>1, NothingTells DEF SaidSound

LEMMA SaidEnds ==
  ASSUME NEW r, Ends(r), Telling(r)'
  PROVE  SaidSound'
  BY DEF SaidSound, Ends, Idle

(* A call begins.                                                            *)
LEMMA BeginKeeps ==
  ASSUME ErrandTypeOK, NEW c, Begin(c)
  PROVE  ErrandTypeOK' /\ SaidSound' /\ task' = task /\ moves' = moves /\ call' = c
  <1>1. ErrandTypeOK'
    BY BoundsAssumption DEF ErrandTypeOK, Begin
  <1>2. said' = None
    BY DEF Begin
  <1>3. SaidSound'
    BY <1>2, NothingTells DEF SaidSound
  <1> QED BY <1>1, <1>3 DEF Begin

LEMMA MovesKeeps ==
  ASSUME ErrandTypeOK, Moves
  PROVE  /\ ErrandTypeOK' /\ task' = task /\ call' = call /\ said' = said
         /\ moves' = moves + 1 /\ moves \in Nat
  BY BoundsAssumption DEF ErrandTypeOK, Moves

----------------------------------------------------------------------------
(* The steps of the approvals. *)

ApprovalFrame == UNCHANGED <<listingVars, complianceVars>>

LEMMA ApprovalsAlone ==
  ASSUME Inv, task = "approvals", task' = task, ApprovalFrame, ErrandTypeOK', SaidSound', Ledger',
         NEW c, call' = c, c = NoCall \/ (c \in ApprovalCalls /\ Bears(c)')
  PROVE  Inv'
  <1>1. Attends'
    BY DEF Attends
  <1>2. Bears(c)' /\ Assured(c)' /\ Finds(c)'
    BY Strangers
  <1>3. ApprovalSound'
    BY <1>2 DEF ApprovalSound
  <1>4. ListingSound' /\ ComplianceSound'
    BY <1>2 DEF Inv, ListingSound, ListingTypeOK, ComplianceSound, ComplianceTypeOK, ApprovalFrame, listingVars,
                complianceVars
  <1> QED BY <1>1, <1>3, <1>4 DEF Inv

LEMMA ApprovalsGo ==
  ASSUME Inv, task = "approvals", ~Idle, Answered \/ Trouble, ApprovalFrame, Ledger',
         NEW c \in ApprovalCalls, Goes(c), Bears(c)'
  PROVE  Inv'
  <1>1. ErrandTypeOK' /\ task' = task
    BY BoundsKept DEF Inv
  <1>2. SaidSound'
    BY SaidGoes DEF Inv
  <1> QED BY <1>1, <1>2, ApprovalsAlone DEF Goes

LEMMA ApprovalsEnd ==
  ASSUME Inv, task = "approvals", Answered \/ Trouble, ApprovalFrame, Ledger', NEW r, Plain(r), Ends(r)
  PROVE  Inv'
  <1>1. ErrandTypeOK' /\ task' = task
    BY BoundsKept DEF Inv
  <1>2. SaidSound'
    BY PlainTells, SaidEnds
  <1> QED BY <1>1, <1>2, ApprovalsAlone DEF Ends

LEMMA ThrownIsPlain ==
  Plain(Thrown) /\ Plain(Pending) /\ Plain([is |-> "wired"]) /\ Plain([is |-> "refused"])
  BY DEF Plain, Thrown, Pending

LEMMA LedgerStays ==
  ASSUME Ledger, UNCHANGED approvalVars
  PROVE  Ledger' /\ \A c : Bears(c) => Bears(c)'
  BY DEF Ledger, Bears, Asked, approvalVars, Propose, Stop, Open, Pends, Granted, Warrants

LEMMA ApprovalBegins ==
  ASSUME Inv, task = "approvals", ApprovalFrame, UNCHANGED approvalVars, NEW c \in ApprovalCalls, Begin(c), Bears(c)
  PROVE  Inv'
  <1>1. Ledger' /\ Bears(c)'
    BY LedgerStays DEF Inv, ApprovalSound
  <1>2. ErrandTypeOK' /\ SaidSound' /\ task' = task /\ call' = c
    BY BeginKeeps DEF Inv
  <1> QED BY <1>1, <1>2, ApprovalsAlone

LEMMA HeldIs ==
  ASSUME Ledger, NEW w \in Wishes, plan[w] \in Held
  PROVE  plan[w] \in Asked /\ plan[w] \in Nat /\ actions[plan[w]].wish = w
  BY DEF Ledger, Held, Asked

LEMMA ApprovalCallIsSound ==
  ASSUME Inv, task = "approvals", ApprovalFrame, ApprovalCall
  PROVE  Inv'
  <1>1. Ledger
    BY DEF Inv, ApprovalSound
  <1>2. CASE RequestApproval
    <2>1. PICK w \in Wishes : plan[w] = Propose /\ Begin([tool |-> "request", pc |-> "propose", wish |-> w])
      BY <1>2 DEF RequestApproval
    <2>2. PICK c : c = [tool |-> "request", pc |-> "propose", wish |-> w]
      OBVIOUS
    <2>3. c \in ApprovalCalls
      BY <2>2 DEF ApprovalCalls, Requests
    <2>4. Bears(c)
      BY <2>1, <2>2 DEF Bears
    <2>5. UNCHANGED approvalVars
      BY <1>2 DEF RequestApproval
    <2> QED BY <2>1, <2>2, <2>3, <2>4, <2>5, ApprovalBegins
  <1>3. CASE ExecuteApproved
    <2>1. PICK w \in Wishes : /\ plan[w] \in Held
                              /\ Begin([tool |-> "execute", pc |-> "execute", wish |-> w, id |-> plan[w]])
      BY <1>3 DEF ExecuteApproved
    <2>2. PICK c : c = [tool |-> "execute", pc |-> "execute", wish |-> w, id |-> plan[w]]
      OBVIOUS
    <2>3. plan[w] \in Asked /\ plan[w] \in Nat /\ actions[plan[w]].wish = w
      BY <1>1, <2>1, HeldIs
    <2>4. c \in ApprovalCalls
      BY <2>2, <2>3 DEF ApprovalCalls, Executes
    <2>5. Bears(c)
      BY <2>2, <2>3 DEF Bears
    <2>6. UNCHANGED approvalVars
      BY <1>3 DEF ExecuteApproved
    <2> QED BY <2>1, <2>2, <2>4, <2>5, <2>6, ApprovalBegins
  <1>4. CASE GetActionStatus
    <2>1. PICK w \in Wishes : /\ plan[w] \in Held
                              /\ Begin([tool |-> "status", pc |-> "read", wish |-> w, id |-> plan[w]])
      BY <1>4 DEF GetActionStatus
    <2>2. PICK c : c = [tool |-> "status", pc |-> "read", wish |-> w, id |-> plan[w]]
      OBVIOUS
    <2>3. plan[w] \in Asked /\ plan[w] \in Nat /\ actions[plan[w]].wish = w
      BY <1>1, <2>1, HeldIs
    <2>4. c \in ApprovalCalls
      BY <2>2, <2>3 DEF ApprovalCalls, Statuses
    <2>5. Bears(c)
      BY <2>2, <2>3 DEF Bears
    <2>6. UNCHANGED approvalVars
      BY <1>4 DEF GetActionStatus
    <2> QED BY <2>1, <2>2, <2>4, <2>5, <2>6, ApprovalBegins
  <1>5. CASE Wire
    <2>1. PICK w \in Wishes, named \in {"ref", "name"} :
            \E id \in IF plan[w] = Propose THEN {None} \cup Held ELSE Held :
              Begin([tool |-> "wire",
                     pc |-> IF named = "name" THEN "resolve" ELSE IF id = None THEN "propose" ELSE "read",
                     wish |-> w, id |-> id])
      BY <1>5 DEF Wire
    <2>2. PICK id \in IF plan[w] = Propose THEN {None} \cup Held ELSE Held :
            Begin([tool |-> "wire",
                   pc |-> IF named = "name" THEN "resolve" ELSE IF id = None THEN "propose" ELSE "read",
                   wish |-> w, id |-> id])
      BY <2>1
    <2>3. PICK pc : pc = IF named = "name" THEN "resolve" ELSE IF id = None THEN "propose" ELSE "read"
      OBVIOUS
    <2>4. PICK c : c = [tool |-> "wire", pc |-> pc, wish |-> w, id |-> id]
      OBVIOUS
    <2>5. ASSUME id # None
          PROVE  id \in Asked /\ id \in Nat /\ \E v \in Wishes : plan[v] = id
      <3>1. id \in Held
        BY <2>5
      <3>2. PICK v \in Wishes : plan[v] = id
        BY <3>1 DEF Held
      <3> QED BY <1>1, <3>1, <3>2, HeldIs
    <2>6. id = None => plan[w] = Propose
      <3>1. \A v \in Held : v \in Nat
        BY <1>1 DEF Held, Ledger
      <3> QED BY <3>1, NoneAssumption
    <2>7. c \in ApprovalCalls
      BY <2>3, <2>4, <2>5 DEF ApprovalCalls, Wires
    <2>8. Bears(c)
      BY <2>3, <2>4, <2>5, <2>6 DEF Bears
    <2>9. UNCHANGED approvalVars
      BY <1>5 DEF Wire
    <2> QED BY <2>2, <2>3, <2>4, <2>7, <2>8, <2>9, ApprovalBegins
  <1> QED BY <1>2, <1>3, <1>4, <1>5 DEF ApprovalCall

LEMMA WireIs ==
  ASSUME NEW c \in ApprovalCalls
  PROVE  /\ c.wish \in Wishes /\ c.tool \in {"request", "execute", "status", "wire"}
         /\ c.tool = "wire" => c \in Wires
         /\ c.pc \in {"execute", "reread"} => c \in Executes \cup Wires
         /\ c.pc = "read" => c \in Statuses \cup Wires
         /\ c.pc = "propose" => c \in Requests \cup Wires
  BY DEF ApprovalCalls, Requests, Executes, Statuses, Wires

LEMMA ResolveIsSound ==
  ASSUME Inv, task = "approvals", call \in ApprovalCalls, ApprovalFrame, resolveApplication
  PROVE  Inv'
  <1>1. PICK c : c = call
    OBVIOUS
  <1>2. c \in Wires /\ c.pc = "resolve" /\ ~Idle /\ Bears(c)
    BY <1>1, WireIs, SomeCall DEF resolveApplication, At, Idle, Inv, ApprovalSound
  <1>3. Ledger' /\ UNCHANGED approvalVars
    BY LedgerStays DEF Inv, ApprovalSound, resolveApplication
  <1>4. CASE Answered /\ To(IF c.id = None THEN "propose" ELSE "read")
    <2>1. PICK pc : pc = IF c.id = None THEN "propose" ELSE "read"
      OBVIOUS
    <2>2. PICK d : d = [c EXCEPT !.pc = pc]
      OBVIOUS
    <2>3. /\ d \in Wires /\ d.tool = "wire" /\ d.pc = pc /\ d.wish = c.wish /\ d.id = c.id
      BY <1>2, <2>1, <2>2 DEF Wires
    <2>4. Bears(d)
      BY <1>2, <2>1, <2>3 DEF Bears, Wires
    <2>5. Bears(d)' /\ d \in ApprovalCalls
      BY <1>3, <2>3, <2>4, LedgerStays DEF ApprovalCalls, Inv, ApprovalSound
    <2>6. Goes(d)
      BY <1>1, <1>4, <2>1, <2>2 DEF To, Goto, Goes
    <2> QED BY <1>2, <1>3, <1>4, <2>5, <2>6, ApprovalsGo
  <1>5. CASE (Answered \/ Trouble) /\ Return(Thrown)
    BY <1>3, <1>5, ApprovalsEnd, ThrownIsPlain DEF Return, Ends
  <1> QED BY <1>1, <1>4, <1>5 DEF resolveApplication

LEMMA ProposeIsSound ==
  ASSUME Inv, task = "approvals", call \in ApprovalCalls, ApprovalFrame, proposeAction
  PROVE  Inv'
  <1>1. PICK c : c = call
    OBVIOUS
  <1>2. /\ c.pc = "propose" /\ c.tool \in {"request", "wire"} /\ Len(actions) < MaxActions /\ ~Idle /\ Bears(c)
        /\ Ledger /\ c.wish \in Wishes /\ UNCHANGED code
    BY <1>1, WireIs, SomeCall DEF proposeAction, Idle, Inv, ApprovalSound
  <1>3. plan[c.wish] = Propose
    BY <1>2 DEF Bears
  <1>4. PICK needs \in YesNo :
          \/ /\ Answered /\ actions' = Append(actions, Proposed(c.wish, needs, "no"))
             /\ Heeds(c.wish, {Len(actions) + 1}) /\ Return(Pending)
          \/ /\ Answered /\ c.tool = "wire" /\ needs = "no" /\ UNCHANGED plan
             /\ actions' = Append(actions, Proposed(c.wish, needs, "untold"))
             /\ Goto([c EXCEPT !.pc = "execute", !.id = Len(actions) + 1])
          \/ /\ Trouble /\ Return(Thrown) /\ UNCHANGED plan
             /\ actions' \in {actions, Append(actions, Proposed(c.wish, needs, "lost"))}
    BY <1>1 DEF proposeAction, YesNo
  <1>5. CASE /\ Answered /\ actions' = Append(actions, Proposed(c.wish, needs, "no"))
             /\ Heeds(c.wish, {Len(actions) + 1}) /\ Return(Pending)
    <2>1. Ledger'
      BY <1>2, <1>3, <1>5, LedgerGrows
    <2> QED BY <1>5, <2>1, ApprovalsEnd, ThrownIsPlain DEF Return, Ends
  <1>6. CASE /\ Answered /\ c.tool = "wire" /\ needs = "no" /\ UNCHANGED plan
             /\ actions' = Append(actions, Proposed(c.wish, needs, "untold"))
             /\ Goto([c EXCEPT !.pc = "execute", !.id = Len(actions) + 1])
    <2>1. PICK n : n = Len(actions) + 1
      OBVIOUS
    <2>2. Ledger' /\ Len(actions') = n /\ actions'[n].wish = c.wish
      BY <1>2, <1>3, <1>6, <2>1, LedgerGrows
    <2>3. n \in Nat /\ n \in Asked'
      BY <1>2, <2>1, <2>2 DEF Ledger, Asked
    <2>4. PICK d : d = [c EXCEPT !.pc = "execute", !.id = n]
      OBVIOUS
    <2>5. c \in Wires
      BY <1>1, <1>6, WireIs
    <2>6. d \in Wires /\ d.tool = "wire" /\ d.pc = "execute" /\ d.wish = c.wish /\ d.id = n
      BY <2>3, <2>4, <2>5 DEF Wires
    <2>7. plan'[c.wish] = Propose
      BY <1>3, <1>6
    <2>8. Bears(d)' /\ d \in ApprovalCalls
      BY <2>2, <2>3, <2>6, <2>7 DEF Bears, ApprovalCalls, Propose
    <2>9. Goes(d)
      BY <1>6, <2>1, <2>4 DEF Goto, Goes
    <2> QED BY <1>2, <1>6, <2>2, <2>8, <2>9, ApprovalsGo
  <1>7. CASE /\ Trouble /\ Return(Thrown) /\ UNCHANGED plan
             /\ actions' \in {actions, Append(actions, Proposed(c.wish, needs, "lost"))}
    <2>1. Ledger'
      <3>1. CASE actions' = actions
        BY <1>2, <1>7, <3>1, LedgerStays DEF approvalVars
      <3>2. CASE actions' = Append(actions, Proposed(c.wish, needs, "lost"))
        BY <1>2, <1>3, <1>7, <3>2, LedgerGrows
      <3> QED BY <1>7, <3>1, <3>2
    <2> QED BY <1>7, <2>1, ApprovalsEnd, ThrownIsPlain DEF Return, Ends
  <1> QED BY <1>4, <1>5, <1>6, <1>7

(* The instructions of an action leave one that is open to its holder.       *)
LEMMA InstructionsLeave ==
  ASSUME NEW status, NEW id, NEW n \in approvalInstructions(status, id)
  PROVE  n = id \/ (n \in {Propose, Stop} /\ status \notin Pends)
  BY DEF approvalInstructions, Pends

LEMMA InstructionsHeeded ==
  ASSUME Ledger, NEW w \in Wishes, NEW id \in Asked, plan[w] = id, UNCHANGED <<actions, code>>,
         Heeds(w, approvalInstructions(actions[id].status, id))
  PROVE  Ledger'
  <1>1. PICK n \in approvalInstructions(actions[id].status, id) : plan' = [plan EXCEPT ![w] = n]
    BY DEF Heeds
  <1>2. n = id \/ (n \in {Propose, Stop} /\ ~Open(actions[id]))
    BY <1>1, InstructionsLeave DEF Open, Pends
  <1> QED BY <1>1, <1>2, LedgerHeeds

LEMMA AdvanceIsSound ==
  ASSUME Inv, task = "approvals", call \in ApprovalCalls, ApprovalFrame, advance
  PROVE  Inv'
  <1>1. PICK c : c = call
    OBVIOUS
  <1>2. /\ c.pc = "read" /\ c.tool \in {"wire", "status"} /\ ~Idle /\ Bears(c) /\ Ledger /\ c.wish \in Wishes
        /\ actions' = actions /\ code' = code
    BY <1>1, WireIs, SomeCall DEF advance, Idle, Inv, ApprovalSound
  <1>3. c.id \in Asked /\ \E w \in Wishes : plan[w] = c.id
    BY <1>2 DEF Bears, Ledger
  <1>4. (c.tool = "wire" => Matches(c.id)) => plan[c.wish] = c.id
    <2>1. CASE c.tool = "status"
      BY <1>2, <2>1 DEF Bears
    <2>2. CASE c.tool = "wire"
      <3>1. PICK w \in Wishes : plan[w] = c.id
        BY <1>3
      <3>2. actions[c.id].wish = w
        BY <1>2, <1>3, <3>1 DEF Ledger
      <3> QED BY <1>1, <2>2, <3>1, <3>2 DEF Matches
    <2> QED BY <1>2, <2>1, <2>2
  <1>5. ASSUME plan' = plan
        PROVE  Ledger' /\ \A d : Bears(d) => Bears(d)'
    BY <1>2, <1>5, LedgerStays DEF approvalVars
  <1>6. \/ /\ Answered /\ Return(Pending) /\ Heeds(c.wish, approvalInstructions(actions[c.id].status, c.id))
           /\ c.tool = "wire" => Matches(c.id)
        \/ (Answered \/ Trouble) /\ Return(Thrown) /\ UNCHANGED plan
        \/ Answered /\ c.tool = "wire" /\ Matches(c.id) /\ To("execute") /\ UNCHANGED plan
        \/ /\ Answered /\ c.tool = "wire" /\ Matches(c.id) /\ actions[c.id].status = "EXECUTED" /\ To("write")
           /\ UNCHANGED plan
    <2>1. CASE Trouble /\ Return(Thrown) /\ UNCHANGED plan
      BY <2>1
    <2>2. CASE /\ Answered
               /\ \/ c.tool = "status" /\ Return(Pending) /\ Heeds(c.wish, approvalInstructions(actions[c.id].status, c.id))
                  \/ c.tool = "wire" /\ ~Matches(c.id) /\ Return(Thrown) /\ UNCHANGED plan
      BY <2>2
    <2>3. CASE /\ Answered /\ c.tool = "wire" /\ Matches(c.id)
               /\ CASE Runnable(c.id) -> To("execute") /\ UNCHANGED plan
                    [] actions[c.id].status = "EXECUTED" -> To("write") /\ UNCHANGED plan
                    [] OTHER -> Return(Pending) /\ Heeds(c.wish, approvalInstructions(actions[c.id].status, c.id))
      <3>1. CASE Runnable(c.id)
        <4>1. actions[c.id].status # "EXECUTED"
          BY <3>1 DEF Runnable
        <4> QED BY <2>3, <3>1, <4>1
      <3>2. CASE ~Runnable(c.id) /\ actions[c.id].status = "EXECUTED"
        BY <2>3, <3>2
      <3>3. CASE ~Runnable(c.id) /\ actions[c.id].status # "EXECUTED"
        BY <2>3, <3>3
      <3> QED BY <3>1, <3>2, <3>3
    <2> QED BY <1>1, <2>1, <2>2, <2>3 DEF advance
  <1>7. CASE /\ Answered /\ Return(Pending) /\ Heeds(c.wish, approvalInstructions(actions[c.id].status, c.id))
             /\ c.tool = "wire" => Matches(c.id)
    <2>1. Ledger'
      BY <1>2, <1>3, <1>4, <1>7, InstructionsHeeded
    <2> QED BY <1>7, <2>1, ApprovalsEnd, ThrownIsPlain DEF Return, Ends
  <1>8. CASE (Answered \/ Trouble) /\ Return(Thrown) /\ UNCHANGED plan
    BY <1>5, <1>8, ApprovalsEnd, ThrownIsPlain DEF Return, Ends
  <1>9. ASSUME NEW pc \in {"execute", "write"}, Answered, c.tool = "wire", Matches(c.id), To(pc), UNCHANGED plan,
               pc = "write" => actions[c.id].status = "EXECUTED"
        PROVE  Inv'
    <2>1. PICK d : d = [c EXCEPT !.pc = pc]
      OBVIOUS
    <2>2. c \in Wires
      BY <1>1, <1>9, WireIs
    <2>3. d \in Wires /\ d.tool = "wire" /\ d.pc = pc /\ d.wish = c.wish /\ d.id = c.id
      BY <2>1, <2>2 DEF Wires
    <2>4. Bears(d)
      BY <1>1, <1>3, <1>4, <1>9, <2>3 DEF Bears, Matches
    <2>5. Ledger' /\ Bears(d)' /\ d \in ApprovalCalls
      BY <1>5, <1>9, <2>3, <2>4 DEF ApprovalCalls
    <2>6. Goes(d)
      BY <1>1, <1>9, <2>1 DEF To, Goto, Goes
    <2> QED BY <1>2, <1>9, <2>5, <2>6, ApprovalsGo
  <1> QED BY <1>6, <1>7, <1>8, <1>9

(* The action of a call is run, and the call goes on or is over.             *)
LEMMA ExecutedIsTold ==
  ASSUME Ledger, NEW w \in Wishes, NEW i \in Asked, actions[i].wish = w, plan[w] \in {i, Propose}, Runnable(i),
         NEW after \in Runs(i), actions' = [after EXCEPT ![i].stray = "no"], code' = code,
         Heeds(w, approvalInstructions(after[i].status, i))
  PROVE  Ledger'
  <1>1. PICK status \in {"EXECUTED", "FAILED"}, kind \in {"publishable", "secret", "none"} :
          after = [actions EXCEPT ![i].status = status, ![i].key = kind]
    BY DEF Runs
  <1>2. PICK was : was = actions[i]
    OBVIOUS
  <1>3. was \in Action /\ Granted(was) /\ actions \in Seq(Action)
    BY <1>2, ActionIs DEF Ledger
  <1>4. PICK a : a = [was EXCEPT !.status = status, !.key = kind, !.stray = "no"]
    OBVIOUS
  <1>5. /\ a \in Action /\ a.wish = was.wish /\ a.needs = was.needs /\ a.by = was.by /\ a.status = status
        /\ a.stray = "no"
    BY <1>3, <1>4 DEF Action
  <1>6. actions' = [actions EXCEPT ![i] = a] /\ after[i].status = status
    <2>1. PICK ran : ran = [was EXCEPT !.status = status, !.key = kind]
      OBVIOUS
    <2>2. i \in DOMAIN actions
      BY <1>3 DEF Asked
    <2>3. after = [actions EXCEPT ![i] = ran]
      BY <1>1, <1>2, <2>1, <2>2
    <2>4. after[i] = ran /\ ran.status = status
      BY <1>3, <2>1, <2>2, <2>3 DEF Action
    <2>5. a = [ran EXCEPT !.stray = "no"]
      BY <1>3, <1>4, <2>1 DEF Action
    <2>6. actions' = [after EXCEPT ![i] = a]
      BY <2>4, <2>5
    <2>7. [after EXCEPT ![i] = a] = [actions EXCEPT ![i] = a]
      BY <2>3
    <2> QED BY <2>4, <2>6, <2>7
  <1>7. was.status \in {"APPROVED", "PROPOSED"} /\ (was.status = "PROPOSED" => was.needs = "no")
    BY <1>2 DEF Runnable
  <1>8. Granted(a) /\ \A v : ~Warrants(was, v)
    BY <1>3, <1>5, <1>7 DEF Granted, Warrants
  <1>9. PICK n \in approvalInstructions(status, i) : plan' = [plan EXCEPT ![w] = n]
    BY <1>6 DEF Heeds
  <1>10. n = i \/ (n \in {Propose, Stop} /\ ~Open(a))
    BY <1>5, <1>9, InstructionsLeave DEF Open, Pends
  <1>11. code' \subseteq Wishes
    BY DEF Ledger
  <1> QED BY <1>2, <1>5, <1>6, <1>8, <1>9, <1>10, <1>11, LedgerTells

LEMMA ExecuteIsSound ==
  ASSUME Inv, task = "approvals", call \in ApprovalCalls, ApprovalFrame, executeAction
  PROVE  Inv'
  <1>1. PICK c : c = call
    OBVIOUS
  <1>2. /\ c.pc = "execute" /\ c \in Executes \cup Wires /\ ~Idle /\ Bears(c) /\ Ledger /\ c.wish \in Wishes
        /\ code' = code
    BY <1>1, WireIs, SomeCall DEF executeAction, Idle, Inv, ApprovalSound
  <1>3. c.id \in Asked /\ actions[c.id].wish = c.wish /\ plan[c.wish] \in {c.id, Propose} /\ code' \subseteq Wishes
    BY <1>2 DEF Bears, Executes, Wires, Ledger
  <1>4. ASSUME Runnable(c.id), actions' \in Runs(c.id), plan' = plan
        PROVE  Ledger' /\ Asked' = Asked /\ actions'[c.id].wish = c.wish
    <2>1. PICK a : /\ Turns(c.id, a) /\ Granted(a) /\ (Open(a) => Open(actions[c.id]))
                   /\ actions[c.id].status # "EXECUTED"
      BY <1>2, <1>3, <1>4, Ran
    <2>2. UNCHANGED <<plan, code>>
      BY <1>2, <1>4
    <2> QED BY <1>2, <1>3, <2>1, <2>2, LedgerTurns
  <1>5. CASE /\ Answered /\ Runnable(c.id) /\ actions' \in Runs(c.id) /\ plan' = plan
             /\ c.tool = "wire" /\ actions'[c.id].status = "EXECUTED" /\ To("write")
    <2>1. Ledger' /\ Asked' = Asked /\ actions'[c.id].wish = c.wish
      BY <1>4, <1>5
    <2>2. c \in Wires
      BY <1>1, <1>5, WireIs
    <2>3. PICK d : d = [c EXCEPT !.pc = "write"]
      OBVIOUS
    <2>4. d \in Wires /\ d.tool = "wire" /\ d.pc = "write" /\ d.wish = c.wish /\ d.id = c.id
      BY <2>2, <2>3 DEF Wires
    <2>5. Bears(d)' /\ d \in ApprovalCalls
      BY <1>3, <1>5, <2>1, <2>4 DEF Bears, ApprovalCalls, Propose
    <2>6. Goes(d)
      BY <1>1, <1>5, <2>3 DEF To, Goto, Goes
    <2> QED BY <1>2, <1>5, <2>1, <2>5, <2>6, ApprovalsGo
  <1>6. CASE /\ Answered /\ Runnable(c.id) /\ Return(Pending)
             /\ \E after \in Runs(c.id) : /\ actions' = [after EXCEPT ![c.id].stray = "no"]
                                          /\ Heeds(c.wish, approvalInstructions(after[c.id].status, c.id))
    <2>1. Ledger'
      BY <1>2, <1>3, <1>6, ExecutedIsTold
    <2> QED BY <1>6, <2>1, ApprovalsEnd, ThrownIsPlain DEF Return, Ends
  <1>7. CASE /\ Answered /\ Expired(Refusal(c.id)) /\ Return(Pending)
             /\ Tells(actions, {Propose} \cup IF c.tool = "wire" THEN {c.id} ELSE {})
    <2>1. actions[c.id].status \notin Pends
      BY <1>7 DEF Expired, Refusal, Pends
    <2>2. PICK told : told = {Propose} \cup IF c.tool = "wire" THEN {c.id} ELSE {}
      OBVIOUS
    <2>3. \A n \in told : n = c.id \/ (n \in {Propose, Stop} /\ actions[c.id].status \notin Pends)
      BY <2>1, <2>2
    <2>4. actions' = [actions EXCEPT ![c.id].stray = "no"] /\ Heeds(c.wish, told)
      BY <1>1, <1>7, <2>2 DEF Tells
    <2>5. Ledger'
      BY <1>2, <1>3, <2>3, <2>4, LedgerNames
    <2> QED BY <1>7, <2>5, ApprovalsEnd, ThrownIsPlain DEF Return, Ends
  <1>8. CASE Answered /\ UNCHANGED actions /\ To("reread") /\ UNCHANGED plan
    <2>1. UNCHANGED approvalVars
      BY <1>2, <1>8 DEF approvalVars
    <2>2. PICK d : d = [c EXCEPT !.pc = "reread"]
      OBVIOUS
    <2>3. d \in Executes \cup Wires /\ d.tool = c.tool /\ d.pc = "reread" /\ d.wish = c.wish /\ d.id = c.id
      BY <1>2, <2>2 DEF Executes, Wires
    <2>4. d.tool \in {"execute", "wire"}
      BY <2>3 DEF Executes, Wires
    <2>5. Bears(d)
      BY <1>3, <2>3, <2>4 DEF Bears
    <2>6. Ledger' /\ Bears(d)' /\ d \in ApprovalCalls
      BY <1>2, <2>1, <2>3, <2>5, LedgerStays DEF ApprovalCalls
    <2>7. Goes(d)
      BY <1>1, <1>8, <2>2 DEF To, Goto, Goes
    <2> QED BY <1>2, <1>8, <2>6, <2>7, ApprovalsGo
  <1>9. CASE /\ Trouble /\ Return(Thrown) /\ UNCHANGED plan
             /\ UNCHANGED actions \/ (Runnable(c.id) /\ actions' \in Runs(c.id))
    <2>1. Ledger'
      <3>1. CASE UNCHANGED actions
        BY <1>2, <1>9, <3>1, LedgerStays DEF approvalVars
      <3>2. CASE Runnable(c.id) /\ actions' \in Runs(c.id)
        BY <1>4, <1>9, <3>2
      <3> QED BY <1>9, <3>1, <3>2
    <2> QED BY <1>9, <2>1, ApprovalsEnd, ThrownIsPlain DEF Return, Ends
  <1>10. \/ /\ Answered /\ Runnable(c.id)
            /\ \E after \in Runs(c.id) :
                 LET status == after[c.id].status
                 IN IF c.tool = "wire" /\ status = "EXECUTED"
                    THEN actions' = after /\ To("write") /\ UNCHANGED plan
                    ELSE Tells(after, approvalInstructions(status, c.id)) /\ Return(Pending)
         \/ /\ Answered /\ Expired(Refusal(c.id)) /\ Return(Pending)
            /\ Tells(actions, {Propose} \cup IF c.tool = "wire" THEN {c.id} ELSE {})
         \/ Answered /\ To("reread") /\ UNCHANGED <<actions, plan>>
         \/ /\ Trouble /\ Return(Thrown) /\ UNCHANGED plan
            /\ UNCHANGED actions \/ (Runnable(c.id) /\ actions' \in Runs(c.id))
    BY <1>1 DEF executeAction
  <1>11. ASSUME Answered, Runnable(c.id), NEW after \in Runs(c.id),
                LET status == after[c.id].status
                IN IF c.tool = "wire" /\ status = "EXECUTED"
                   THEN actions' = after /\ To("write") /\ UNCHANGED plan
                   ELSE Tells(after, approvalInstructions(status, c.id)) /\ Return(Pending)
         PROVE  Inv'
    <2>1. CASE c.tool = "wire" /\ after[c.id].status = "EXECUTED"
      BY <1>5, <1>11, <2>1
    <2>2. CASE ~(c.tool = "wire" /\ after[c.id].status = "EXECUTED")
      BY <1>1, <1>6, <1>11, <2>2 DEF Tells
    <2> QED BY <2>1, <2>2
  <1> QED BY <1>7, <1>8, <1>9, <1>10, <1>11

LEMMA RefusedIsSound ==
  ASSUME Inv, task = "approvals", call \in ApprovalCalls, ApprovalFrame, refused
  PROVE  Inv'
  <1>1. PICK c : c = call
    OBVIOUS
  <1>2. /\ c.pc = "reread" /\ c \in Executes \cup Wires /\ Bears(c) /\ Ledger /\ c.wish \in Wishes
        /\ code' = code /\ Return(Pending) /\ (Answered \/ Trouble)
    BY <1>1, WireIs DEF refused, Inv, ApprovalSound
  <1>3. c.id \in Asked /\ actions[c.id].wish = c.wish /\ plan[c.wish] \in {c.id, Propose} /\ code' \subseteq Wishes
    BY <1>2 DEF Bears, Executes, Wires, Ledger
  <1>4. PICK told : /\ told \subseteq {c.id} \cup approvalInstructions(actions[c.id].status, c.id)
                    /\ Tells(actions, told)
    BY <1>1 DEF refused
  <1>5. \A n \in told : n = c.id \/ (n \in {Propose, Stop} /\ actions[c.id].status \notin Pends)
    BY <1>4, InstructionsLeave
  <1>6. actions' = [actions EXCEPT ![c.id].stray = "no"] /\ Heeds(c.wish, told)
    BY <1>1, <1>4 DEF Tells
  <1>7. Ledger'
    BY <1>2, <1>3, <1>5, <1>6, LedgerNames
  <1> QED BY <1>2, <1>7, ApprovalsEnd, ThrownIsPlain DEF Return, Ends

LEMMA WireCodeIsSound ==
  ASSUME Inv, task = "approvals", call \in ApprovalCalls, ApprovalFrame, wireCode
  PROVE  Inv'
  <1>1. PICK c : c = call
    OBVIOUS
  <1>2. c.pc = "write" /\ c.tool = "wire" /\ Bears(c) /\ Ledger /\ c.wish \in Wishes /\ Answered
    BY <1>1, WireIs DEF wireCode, At, Inv, ApprovalSound
  <1>3. /\ c.id \in Asked /\ plan[c.wish] \in {c.id, Propose} /\ code \subseteq Wishes
        /\ actions[c.id].status = "EXECUTED" /\ actions[c.id].wish = c.wish
    BY <1>2 DEF Bears, Ledger
  <1>4. ASSUME Tells(actions, {c.id}), code' \subseteq Wishes, \A v \in code' : v \in code \/ Warrants(actions[c.id], v)
        PROVE  Ledger'
    <2>1. actions' = [actions EXCEPT ![c.id].stray = "no"] /\ Heeds(c.wish, {c.id})
      BY <1>1, <1>4 DEF Tells
    <2> QED BY <1>2, <1>3, <1>4, <2>1, LedgerNames
  <1>5. CASE /\ c.wish[2] = "analytics.enable" => actions[c.id].key = "publishable"
             /\ code' = code \cup {c.wish} /\ Return([is |-> "wired"]) /\ Tells(actions, {c.id})
    <2>1. Warrants(actions[c.id], c.wish)
      BY <1>2, <1>3, <1>5 DEF Ledger, Granted, Warrants
    <2>2. code' \subseteq Wishes /\ \A v \in code' : v \in code \/ Warrants(actions[c.id], v)
      BY <1>2, <1>3, <1>5, <2>1
    <2>3. Ledger'
      BY <1>4, <1>5, <2>2
    <2> QED BY <1>2, <1>5, <2>3, ApprovalsEnd, ThrownIsPlain DEF Return, Ends
  <1>6. CASE Return([is |-> "refused"]) /\ Tells(actions, {c.id}) /\ UNCHANGED code
    <2>1. Ledger'
      BY <1>3, <1>4, <1>6
    <2> QED BY <1>2, <1>6, <2>1, ApprovalsEnd, ThrownIsPlain DEF Return, Ends
  <1>7. CASE Return(Thrown) /\ UNCHANGED approvalVars
    <2>1. Ledger'
      BY <1>2, <1>7, LedgerStays
    <2> QED BY <1>2, <1>7, <2>1, ApprovalsEnd, ThrownIsPlain DEF Return, Ends
  <1> QED BY <1>1, <1>5, <1>6, <1>7 DEF wireCode

LEMMA ReviewIsSound ==
  ASSUME Inv, task = "approvals", ApprovalFrame, Review
  PROVE  Inv'
  <1>1. Ledger /\ Bears(call) /\ UNCHANGED <<plan, code>>
    BY DEF Inv, ApprovalSound, Review
  <1>2. PICK i, a : /\ Turns(i, a) /\ Granted(a) /\ (Open(a) => Open(actions[i])) /\ actions[i].status # "EXECUTED"
    BY <1>1, Reviewed
  <1>3. /\ Ledger' /\ Asked' = Asked /\ \A j \in Asked : actions'[j].wish = actions[j].wish
        /\ \A j \in Asked : actions[j].status = "EXECUTED" => actions'[j] = actions[j]
    BY <1>1, <1>2, LedgerTurns
  <1>4. ErrandTypeOK' /\ task' = task /\ call' = call /\ said' = said
    BY MovesKeeps DEF Inv, Review
  <1>5. PICK c : c = call
    OBVIOUS
  <1>6. Bears(c)'
    BY <1>1, <1>3, <1>5 DEF Bears, Propose
  <1>7. c = NoCall \/ c \in ApprovalCalls
    BY <1>5, SomeCall DEF Inv, Attends
  <1>8. SaidSound'
    BY <1>4 DEF Inv, SaidSound, Telling, Idle, ApprovalFrame, listingVars
  <1> QED BY <1>3, <1>4, <1>5, <1>6, <1>7, <1>8, ApprovalsAlone

LEMMA ApprovalStepIsSound ==
  ASSUME Inv, task = "approvals", call \in ApprovalCalls, ApprovalFrame, ApprovalStep
  PROVE  Inv'
  BY ResolveIsSound, ProposeIsSound, AdvanceIsSound, ExecuteIsSound, RefusedIsSound, WireCodeIsSound DEF ApprovalStep

----------------------------------------------------------------------------
(* The steps of the marketplace. *)

MarketFrame == UNCHANGED <<approvalVars, complianceVars>>

Confirmed == OfferedIsConfirmed /\ RepricedIsConfirmed

LEMMA MarketAlone ==
  ASSUME Inv, task = "market", task' = task, MarketFrame, ErrandTypeOK', SaidSound', ListingTypeOK',
         NEW c, call' = c, c = NoCall \/ (c \in ListingCalls /\ Assured(c)')
  PROVE  Inv'
  <1>1. Attends'
    BY DEF Attends
  <1>2. Bears(c)' /\ Assured(c)' /\ Finds(c)'
    BY Strangers
  <1>3. ListingSound'
    BY <1>2 DEF ListingSound
  <1>4. Ledger'
    BY LedgerStays DEF Inv, ApprovalSound, MarketFrame
  <1>5. ApprovalSound' /\ ComplianceSound'
    BY <1>2, <1>4 DEF Inv, ApprovalSound, ComplianceSound, ComplianceTypeOK, MarketFrame, complianceVars
  <1> QED BY <1>1, <1>3, <1>5 DEF Inv

LEMMA NothingChanges ==
  ASSUME UNCHANGED listingVars
  PROVE  Confirmed
  BY DEF Confirmed, OfferedIsConfirmed, RepricedIsConfirmed, listingVars

LEMMA AssuredStays ==
  ASSUME NEW c, Assured(c), UNCHANGED <<listing, moves>>
  PROVE  Assured(c)'
  BY DEF Assured, There

LEMMA MarketGoes ==
  ASSUME Inv, task = "market", ~Idle, Answered \/ Trouble, MarketFrame, UNCHANGED listingVars,
         NEW c \in ListingCalls, Goes(c), Assured(c)
  PROVE  Inv' /\ Confirmed
  <1>1. ErrandTypeOK' /\ task' = task /\ moves' = moves
    BY BoundsKept DEF Inv
  <1>2. SaidSound'
    BY SaidGoes DEF Inv
  <1>3. ListingTypeOK' /\ Assured(c)'
    BY <1>1, AssuredStays DEF Inv, ListingSound, ListingTypeOK, listingVars
  <1> QED BY <1>1, <1>2, <1>3, MarketAlone, NothingChanges DEF Goes

LEMMA MarketEnds ==
  ASSUME Inv, task = "market", Answered \/ Trouble, MarketFrame, ListingTypeOK', NEW r, Ends(r), Telling(r)'
  PROVE  Inv'
  <1>1. ErrandTypeOK' /\ task' = task
    BY BoundsKept DEF Inv
  <1>2. SaidSound'
    BY SaidEnds
  <1> QED BY <1>1, <1>2, MarketAlone DEF Ends

Words == {"found", "not found", "created", "CONFIRMATION_REQUIRED"}

LEMMA ShownTells ==
  ASSUME NEW l \in Listing, NEW is \in Words, NEW r, r = Shows(l, is), listing'.carrier = l.carrier
  PROVE  Telling(r)'
  <1>1. r.is = is /\ r.installable = installability(Returned(l)) /\ DOMAIN r = {"is", "installable"}
    BY DEF Shows
  <1>2. installability(Returned(l)) = "yes" <=> l.carrier # "none"
    BY DEF installability, Returned, Listing
  <1> QED BY <1>1, <1>2 DEF Telling, Words

(* A step that only reads, and answers.                                      *)
LEMMA MarketReads ==
  ASSUME Inv, task = "market", Answered \/ Trouble, MarketFrame, UNCHANGED listingVars, NEW r, Return(r),
         Plain(r) \/ \E is \in Words : r = Shows(listing, is)
  PROVE  Inv' /\ Confirmed
  <1>1. ListingTypeOK' /\ listing' = listing /\ listing \in Listing
    BY DEF Inv, ListingSound, ListingTypeOK, listingVars
  <1>2. Telling(r)'
    BY <1>1, PlainTells, ShownTells
  <1> QED BY <1>1, <1>2, MarketEnds, NothingChanges DEF Return, Ends

LEMMA MarketSays ==
  /\ Plain(Thrown) /\ Plain([is |-> "not found"]) /\ Plain([is |-> "TITLE_REQUIRED"])
  /\ Plain([is |-> "VALIDATION_FAILED"]) /\ Plain([is |-> "CONFIRMATION_REQUIRED"]) /\ Plain([is |-> "done"])
  /\ Plain([is |-> "PUBLISH_REJECTED"]) /\ Plain([is |-> "NOT_THE_PUBLISHER"]) /\ Plain([is |-> "NOT_SUPPORTED"])
  /\ Plain([is |-> "refused"]) /\ Plain([is |-> "started"]) /\ Plain([is |-> "STRIPE_NOT_CONFIGURED"])
  /\ \A x : Plain([is |-> "read", connected |-> x])
  BY DEF Plain, Thrown

LEMMA OfferIs ==
  ASSUME NEW c \in ListingCalls
  PROVE  /\ c.tool \in {"get", "list"} => c \in Reads
         /\ c.tool = "draft" => c \in Drafts
         /\ c.tool \in {"submit", "archive", "publish"} => c \in Advances
         /\ c.tool = "price" => c \in Prices
         /\ c.tool = "visibility" => c \in Visibilities
         /\ c.tool = "seller" => c \in Sellers
  BY DEF ListingCalls, Reads, Drafts, Advances, Prices, Visibilities, Sellers

LEMMA ReadsAreSound ==
  ASSUME Inv, task = "market", call \in ListingCalls, MarketFrame,
         Catalogue \/ GetView \/ Rows \/ Unconfirmed \/ PublishPreview \/ Internal
  PROVE  Inv' /\ Confirmed
  <1>1. UNCHANGED listingVars
    BY DEF Catalogue, GetView, Rows, Unconfirmed, PublishPreview, Internal, publisherView
  <1>2. ASSUME NEW r, Return(r), Answered \/ Trouble, Plain(r) \/ \E is \in Words : r = Shows(listing, is)
        PROVE  Inv' /\ Confirmed
    BY <1>1, <1>2, MarketReads
  <1>3. CASE Catalogue
    <2>1. CASE Trouble /\ Return(Thrown)
      BY <1>2, <2>1, MarketSays
    <2>2. CASE Answered /\ Goto([call EXCEPT !.pc = "view", !.seen = IF Live(listing) THEN "yes" ELSE "no"])
      <3>1. PICK c : c = call
        OBVIOUS
      <3>2. PICK seen : seen = IF Live(listing) THEN "yes" ELSE "no"
        OBVIOUS
      <3>3. PICK d : d = [c EXCEPT !.pc = "view", !.seen = seen]
        OBVIOUS
      <3>4. c \in Reads /\ ~Idle
        BY <1>3, <3>1, OfferIs, SomeCall DEF Catalogue, At, Idle
      <3>5. d \in Reads /\ d \in ListingCalls
        BY <3>2, <3>3, <3>4 DEF Reads, YesNo, ListingCalls
      <3>6. Assured(d)
        BY <3>5 DEF Reads, Assured
      <3>7. Goes(d)
        BY <2>2, <3>1, <3>2, <3>3 DEF Goto, Goes
      <3> QED BY <1>1, <2>2, <3>4, <3>5, <3>6, <3>7, MarketGoes
    <2> QED BY <1>3, <2>1, <2>2 DEF Catalogue
  <1>4. CASE GetView
    <2>1. \/ (Answered \/ Trouble) /\ Return(Thrown)
          \/ (Answered \/ Trouble) /\ Return(Shows(listing, "found"))
          \/ (Answered \/ Trouble) /\ Return([is |-> "not found"])
      BY <1>4 DEF GetView, publisherView
    <2> QED BY <1>2, <2>1, MarketSays DEF Words
  <1>5. CASE Rows
    <2>1. \/ (Answered \/ Trouble) /\ Return(Thrown)
          \/ (Answered \/ Trouble) /\ Return(Shows(listing, "found"))
          \/ (Answered \/ Trouble) /\ Return([is |-> "not found"])
      BY <1>5 DEF Rows
    <2> QED BY <1>2, <2>1, MarketSays DEF Words
  <1>6. CASE Unconfirmed
    BY <1>2, <1>6, MarketSays DEF Unconfirmed
  <1>7. CASE PublishPreview
    <2>1. \/ (Answered \/ Trouble) /\ Return(Thrown)
          \/ (Answered \/ Trouble) /\ Return(Shows(listing, "CONFIRMATION_REQUIRED"))
          \/ (Answered \/ Trouble) /\ Return([is |-> "CONFIRMATION_REQUIRED"])
      BY <1>7 DEF PublishPreview, publisherView
    <2> QED BY <1>2, <2>1, MarketSays DEF Words
  <1>8. CASE Internal
    BY <1>2, <1>8, MarketSays DEF Internal
  <1> QED BY <1>3, <1>4, <1>5, <1>6, <1>7, <1>8

LEMMA PostDraftIsSound ==
  ASSUME Inv, task = "market", call \in ListingCalls, MarketFrame, PostDraft
  PROVE  Inv' /\ Confirmed
  <1>1. PICK c : c = call
    OBVIOUS
  <1>2. c.tool = "draft" /\ c \in Drafts /\ seller' = seller
    BY <1>1, OfferIs DEF PostDraft, At
  <1>3. listing.is = "none"
    BY <1>1, <1>2 DEF Inv, ListingSound, Assured, There
  <1>4. PICK made : made = [NoListing EXCEPT !.is = "DRAFT", !.carrier = c.source]
    OBVIOUS
  <1>5. made \in Listing /\ made.is = "DRAFT"
    <2>1. NoListing \in Listing
      BY DEF NoListing, Listing
    <2>2. c.source \in {"source", "none"}
      BY <1>2 DEF Drafts
    <2> QED BY <1>4, <2>1, <2>2 DEF Listing
  <1>6. \/ Answered /\ Return([is |-> "TITLE_REQUIRED"]) /\ UNCHANGED listing
        \/ Answered /\ listing' = made /\ Return(Shows(made, "created"))
        \/ Answered /\ UNCHANGED listing /\ Return([is |-> "VALIDATION_FAILED"])
        \/ Trouble /\ Return(Thrown) /\ listing' \in {listing, made}
    BY <1>1, <1>4 DEF PostDraft
  <1>7. ListingTypeOK'
    BY <1>2, <1>5, <1>6 DEF Inv, ListingSound, ListingTypeOK
  <1>8. Confirmed
    BY <1>2, <1>3, <1>5, <1>6 DEF Confirmed, OfferedIsConfirmed, RepricedIsConfirmed, Live
  <1>9. CASE Answered /\ listing' = made /\ Return(Shows(made, "created"))
    <2>1. PICK r : r = Shows(made, "created")
      OBVIOUS
    <2>2. Telling(r)'
      BY <1>5, <1>9, <2>1, ShownTells DEF Words
    <2> QED BY <1>7, <1>8, <1>9, <2>1, <2>2, MarketEnds DEF Return, Ends
  <1>10. ASSUME NEW r, Plain(r), Return(r), Answered \/ Trouble
         PROVE  Inv'
    BY <1>7, <1>10, PlainTells, MarketEnds DEF Return, Ends
  <1> QED BY <1>6, <1>8, <1>9, <1>10, MarketSays

(* What a call of the lifecycle may make of the listing.                     *)
Posted(becomes) ==
  /\ Answered \/ Trouble
  /\ Return([is |-> "done"]) \/ Return(Thrown)
  /\ listing' = listing \/ listing' \in becomes
  /\ seller' = seller

LEMMA PostIsSound ==
  ASSUME Inv, task = "market", MarketFrame, NEW becomes, Posted(becomes),
         \A l \in becomes : /\ l \in Listing /\ l.price = listing.price
                            /\ Live(l) => call.confirm = "yes"
  PROVE  Inv' /\ Confirmed
  <1>1. PICK r : Plain(r) /\ Return(r)
    BY MarketSays DEF Posted
  <1>2. ListingTypeOK'
    BY DEF Inv, ListingSound, ListingTypeOK, Posted
  <1>3. Confirmed
    BY DEF Confirmed, OfferedIsConfirmed, RepricedIsConfirmed, Posted
  <1> QED BY <1>1, <1>2, <1>3, PlainTells, MarketEnds DEF Return, Ends, Posted

LEMMA LifecycleIsSound ==
  ASSUME Inv, task = "market", call \in ListingCalls, MarketFrame, Submit \/ Archive \/ Publish
  PROVE  Inv' /\ Confirmed
  <1>1. listing \in Listing
    BY DEF Inv, ListingSound, ListingTypeOK
  <1>2. CASE Submit
    <2>1. PICK l : l = [listing EXCEPT !.is = "PENDING_REVIEW"]
      OBVIOUS
    <2>2. l \in Listing /\ l.price = listing.price /\ ~Live(l)
      BY <1>1, <2>1 DEF Listing, Live
    <2>3. Posted({l})
      BY <1>2, <2>1 DEF Submit, Post, Posted
    <2> QED BY <2>2, <2>3, PostIsSound
  <1>3. CASE Archive
    <2>1. PICK l : l = [listing EXCEPT !.is = "ARCHIVED"]
      OBVIOUS
    <2>2. l \in Listing /\ l.price = listing.price /\ ~Live(l)
      BY <1>1, <2>1 DEF Listing, Live
    <2>3. Posted({l})
      BY <1>3, <2>1 DEF Archive, Post, Posted
    <2> QED BY <2>2, <2>3, PostIsSound
  <1>4. CASE Publish
    <2>1. CASE At("publish", "post") /\ Mine /\ Answered /\ Return([is |-> "PUBLISH_REJECTED"]) /\ UNCHANGED listingVars
      BY <2>1, MarketReads, MarketSays
    <2>2. CASE Post("publish", listing.is \in {"DRAFT", "PENDING_REVIEW"},
                    [is : {"PUBLISHED", "PENDING_REVIEW"}, public : {listing.public, "yes"}, price : {listing.price},
                     carrier : {listing.carrier}, mine : {"yes"}])
      <3>1. PICK becomes : becomes = [is : {"PUBLISHED", "PENDING_REVIEW"}, public : {listing.public, "yes"},
                                      price : {listing.price}, carrier : {listing.carrier}, mine : {"yes"}]
        OBVIOUS
      <3>2. call.confirm = "yes"
        BY <2>2 DEF Post, At, Inv, ListingSound, Assured
      <3>3. \A l \in becomes : l \in Listing /\ l.price = listing.price
        BY <1>1, <3>1 DEF Listing
      <3>4. Posted(becomes)
        BY <2>2, <3>1 DEF Post, Posted
      <3> QED BY <3>2, <3>3, <3>4, PostIsSound
    <2> QED BY <1>4, <2>1, <2>2 DEF Publish
  <1> QED BY <1>2, <1>3, <1>4

LEMMA PriceIsSound ==
  ASSUME Inv, task = "market", call \in ListingCalls, MarketFrame, PriceView
  PROVE  Inv' /\ Confirmed
  <1>1. PICK c : c = call
    OBVIOUS
  <1>2. c \in Prices /\ c.pc = "view" /\ ~Idle /\ Assured(c) /\ UNCHANGED listingVars
    BY <1>1, OfferIs, SomeCall DEF PriceView, publisherView, Idle, Inv, ListingSound
  <1>3. \/ \E r \in {Thrown, [is |-> "CONFIRMATION_REQUIRED"], [is |-> "NOT_THE_PUBLISHER"]} :
             Return(r) /\ (Answered \/ Trouble)
        \/ Answered /\ Goto([c EXCEPT !.pc = "put", !.saw = listing.is]) /\ ~(isLive(listing) /\ c.confirm = "no")
    BY <1>1 DEF PriceView, publisherView
  <1>4. CASE Answered /\ Goto([c EXCEPT !.pc = "put", !.saw = listing.is]) /\ ~(isLive(listing) /\ c.confirm = "no")
    <2>1. PICK d : d = [c EXCEPT !.pc = "put", !.saw = listing.is]
      OBVIOUS
    <2>2. d \in Prices /\ d.pc = "put" /\ d.tool = "price" /\ d.confirm = c.confirm /\ d.saw = listing.is
      BY <1>2, <2>1 DEF Prices, Inv, ListingSound, ListingTypeOK, Listing
    <2>3. c.tool = "price"
      BY <1>2 DEF Prices
    <2>4. Assured(d) /\ d \in ListingCalls
      BY <1>2, <1>4, <2>2, <2>3 DEF Assured, isLive, ListingCalls
    <2>5. Goes(d)
      BY <1>1, <1>4, <2>1 DEF Goto, Goes
    <2> QED BY <1>2, <1>4, <2>4, <2>5, MarketGoes
  <1>5. ASSUME NEW r \in {Thrown, [is |-> "CONFIRMATION_REQUIRED"], [is |-> "NOT_THE_PUBLISHER"]},
               Return(r), Answered \/ Trouble
        PROVE  Inv' /\ Confirmed
    <2>1. Plain(r)
      BY MarketSays
    <2> QED BY <1>2, <1>5, <2>1, MarketReads
  <1> QED BY <1>3, <1>4, <1>5

LEMMA VisibilityIsSound ==
  ASSUME Inv, task = "market", call \in ListingCalls, MarketFrame, VisibilityView
  PROVE  Inv' /\ Confirmed
  <1>1. PICK c : c = call
    OBVIOUS
  <1>2. c \in Visibilities /\ c.pc = "view" /\ ~Idle /\ Assured(c) /\ UNCHANGED listingVars
    BY <1>1, OfferIs, SomeCall DEF VisibilityView, publisherView, Idle, Inv, ListingSound
  <1>3. \/ \E r \in {Thrown, [is |-> "CONFIRMATION_REQUIRED"], [is |-> "NOT_THE_PUBLISHER"]} :
             Return(r) /\ (Answered \/ Trouble)
        \/ Answered /\ To("put") /\ ~(c.mode = "marketplace" /\ c.confirm = "no")
    BY <1>1 DEF VisibilityView, publisherView, NeedsConfirmation
  <1>4. CASE Answered /\ To("put") /\ ~(c.mode = "marketplace" /\ c.confirm = "no")
    <2>1. PICK d : d = [c EXCEPT !.pc = "put"]
      OBVIOUS
    <2>2. /\ d \in Visibilities /\ d.pc = "put" /\ d.tool = "visibility" /\ d.confirm = c.confirm /\ d.mode = c.mode
          /\ d.confirm \in {"yes", "no"}
      BY <1>2, <2>1 DEF Visibilities, YesNo
    <2>3. Assured(d) /\ d \in ListingCalls
      BY <1>4, <2>2 DEF Assured, ListingCalls
    <2>4. Goes(d)
      BY <1>1, <1>4, <2>1 DEF To, Goto, Goes
    <2> QED BY <1>2, <1>4, <2>3, <2>4, MarketGoes
  <1>5. ASSUME NEW r \in {Thrown, [is |-> "CONFIRMATION_REQUIRED"], [is |-> "NOT_THE_PUBLISHER"]},
               Return(r), Answered \/ Trouble
        PROVE  Inv' /\ Confirmed
    <2>1. Plain(r)
      BY MarketSays
    <2> QED BY <1>2, <1>5, <2>1, MarketReads
  <1> QED BY <1>3, <1>4, <1>5

LEMMA PutsAreSound ==
  ASSUME Inv, task = "market", call \in ListingCalls, MarketFrame, PutPrice \/ PutVisibility
  PROVE  Inv' /\ Confirmed
  <1>1. PICK c : c = call
    OBVIOUS
  <1>2. listing \in Listing /\ Assured(c) /\ c.pc = "put"
    BY <1>1 DEF Inv, ListingSound, ListingTypeOK, PutPrice, PutVisibility, Put
  <1>3. ASSUME NEW l \in Listing, Answered \/ Trouble, Return([is |-> "done"]) \/ Return(Thrown),
               listing' = listing \/ listing' = l, seller' = seller
        PROVE  Inv'
    <2>1. ListingTypeOK'
      BY <1>3 DEF Inv, ListingSound, ListingTypeOK
    <2>2. ASSUME NEW r, Plain(r), Return(r)
          PROVE  Inv'
      BY <1>3, <2>1, <2>2, PlainTells, MarketEnds DEF Return, Ends
    <2> QED BY <1>3, <2>2, MarketSays
  <1>4. CASE PutPrice
    <2>1. PICK l : l = [listing EXCEPT !.price = 1 - @]
      OBVIOUS
    <2>2. l \in Listing /\ l.is = listing.is /\ l.public = listing.public
      <3>1. listing.price \in 0 .. 1
        BY <1>2 DEF Listing
      <3>2. 1 - listing.price \in 0 .. 1
        BY <3>1
      <3> QED BY <1>2, <2>1, <3>2 DEF Listing
    <2>3. /\ (Answered \/ Trouble) /\ seller' = seller
          /\ Return([is |-> "done"]) \/ Return(Thrown)
          /\ listing' = listing \/ listing' = l
      BY <1>4, <2>1 DEF PutPrice, Put
    <2>4. c \in Prices /\ c.tool = "price" /\ c.confirm \in {"yes", "no"} /\ seller' = seller
      BY <1>1, <1>4, OfferIs DEF PutPrice, Put, Prices, YesNo
    <2>5. OfferedIsConfirmed
      BY <2>2, <2>3, <2>4 DEF OfferedIsConfirmed, Live
    <2>6. RepricedIsConfirmed
      BY <1>1, <1>2, <2>4 DEF RepricedIsConfirmed, Assured
    <2>7. Answered \/ Trouble
      BY <1>4 DEF PutPrice, Put
    <2> QED BY <1>3, <2>2, <2>3, <2>4, <2>5, <2>6, <2>7 DEF Confirmed
  <1>5. CASE PutVisibility
    <2>1. PICK public : public = Public(c.mode)
      OBVIOUS
    <2>2. PICK l : l = [listing EXCEPT !.public = public]
      OBVIOUS
    <2>3. public \in {"yes", "no"} /\ (public = "yes" => c.mode = "marketplace")
      BY <2>1 DEF Public
    <2>4. l \in Listing /\ l.is = listing.is /\ l.public = public /\ l.price = listing.price
      BY <1>2, <2>2, <2>3 DEF Listing
    <2>5. /\ Return([is |-> "done"]) \/ Return(Thrown)
          /\ listing' = listing \/ listing' = l
      BY <1>1, <1>5, <2>1, <2>2 DEF PutVisibility, Put
    <2>6. c.tool = "visibility" /\ seller' = seller
      BY <1>1, <1>5 DEF PutVisibility, Put
    <2>7. OfferedIsConfirmed
      BY <1>1, <1>2, <2>3, <2>4, <2>5, <2>6 DEF OfferedIsConfirmed, Live, Assured
    <2>8. RepricedIsConfirmed
      BY <2>4, <2>5 DEF RepricedIsConfirmed
    <2>9. Answered \/ Trouble
      BY <1>5 DEF PutVisibility, Put
    <2> QED BY <1>3, <2>4, <2>5, <2>6, <2>7, <2>8, <2>9 DEF Confirmed
  <1> QED BY <1>4, <1>5

LEMMA SellerIsSound ==
  ASSUME Inv, task = "market", call \in ListingCalls, MarketFrame, Seller
  PROVE  Inv' /\ Confirmed
  <1>1. listing' = listing /\ listing \in Listing /\ seller \in {"none", "account"}
    BY DEF Inv, ListingSound, ListingTypeOK, Seller
  <1>2. CASE At("seller", "refuse") /\ Answered /\ Return([is |-> "refused"]) /\ UNCHANGED seller
    BY <1>1, <1>2, MarketReads, MarketSays DEF listingVars
  <1>3. CASE /\ call.pc \in {"status", "earnings"} /\ UNCHANGED seller
             /\ \/ Answered /\ Return([is |-> "read", connected |-> IF seller = "none" THEN "no" ELSE "yes"])
                \/ Trouble /\ Return(Thrown)
    <2>1. PICK x : x = IF seller = "none" THEN "no" ELSE "yes"
      OBVIOUS
    <2>2. Plain([is |-> "read", connected |-> x])
      BY MarketSays
    <2> QED BY <1>1, <1>3, <2>1, <2>2, MarketReads, MarketSays DEF listingVars
  <1>4. CASE /\ At("seller", "onboard")
             /\ \/ Answered /\ seller' = "account" /\ Return([is |-> "started"])
                \/ Answered /\ UNCHANGED seller /\ Return([is |-> "STRIPE_NOT_CONFIGURED"])
                \/ Trouble /\ seller' \in {seller, "account"} /\ Return(Thrown)
    <2>1. call.confirm = "yes"
      BY <1>4 DEF Inv, ListingSound, Assured, At
    <2>2. Confirmed
      BY <1>1, <2>1 DEF Confirmed, OfferedIsConfirmed, RepricedIsConfirmed
    <2>3. ListingTypeOK'
      BY <1>1, <1>4 DEF ListingTypeOK
    <2>4. ASSUME NEW r, Plain(r), Return(r), Answered \/ Trouble
          PROVE  Inv'
      BY <2>3, <2>4, PlainTells, MarketEnds DEF Return, Ends
    <2> QED BY <1>4, <2>2, <2>4, MarketSays
  <1> QED BY <1>2, <1>3, <1>4 DEF Seller

LEMMA ListingStepIsSound ==
  ASSUME Inv, task = "market", call \in ListingCalls, MarketFrame, ListingStep
  PROVE  Inv' /\ Confirmed
  BY ReadsAreSound, PostDraftIsSound, LifecycleIsSound, PriceIsSound, VisibilityIsSound, PutsAreSound, SellerIsSound
     DEF ListingStep

LEMMA ListingBegins ==
  ASSUME Inv, task = "market", MarketFrame, UNCHANGED listingVars, NEW c \in ListingCalls, Begin(c), Assured(c)
  PROVE  Inv' /\ Confirmed
  <1>1. ErrandTypeOK' /\ SaidSound' /\ task' = task /\ moves' = moves /\ call' = c
    BY BeginKeeps DEF Inv
  <1>2. ListingTypeOK' /\ Assured(c)'
    BY <1>1, AssuredStays DEF Inv, ListingSound, ListingTypeOK, listingVars
  <1> QED BY <1>1, <1>2, MarketAlone, NothingChanges

LEMMA ListingCallIsSound ==
  ASSUME Inv, task = "market", MarketFrame, ListingCall
  PROVE  Inv' /\ Confirmed
  <1>1. UNCHANGED listingVars
    BY DEF ListingCall, ReadListing, Draft, Advance, Price, Visibility, SellerAccount
  <1>2. CASE ReadListing
    <2>1. PICK tool \in {"get", "list"} :
            Begin([tool |-> tool, pc |-> IF tool = "get" THEN "catalogue" ELSE "rows", confirm |-> "no", seen |-> "no"])
      BY <1>2 DEF ReadListing
    <2>2. PICK c : c = [tool |-> tool, pc |-> IF tool = "get" THEN "catalogue" ELSE "rows", confirm |-> "no",
                        seen |-> "no"]
      OBVIOUS
    <2>3. c \in ListingCalls /\ c.tool \in {"get", "list"}
      BY <2>2 DEF ListingCalls, Reads, YesNo
    <2>4. Assured(c)
      BY <2>3 DEF Assured
    <2> QED BY <1>1, <2>1, <2>2, <2>3, <2>4, ListingBegins
  <1>3. CASE Draft
    <2>1. PICK source \in {"source", "none"}, title \in {"yes", "no"} :
            Begin([tool |-> "draft", pc |-> IF title = "yes" THEN "post" ELSE "untitled", confirm |-> "no",
                   source |-> source])
      BY <1>3 DEF Draft
    <2>2. PICK c : c = [tool |-> "draft", pc |-> IF title = "yes" THEN "post" ELSE "untitled", confirm |-> "no",
                        source |-> source]
      OBVIOUS
    <2>3. c \in ListingCalls /\ c.tool = "draft"
      BY <2>2 DEF ListingCalls, Drafts
    <2>4. Assured(c)
      BY <1>3, <2>3 DEF Assured, Draft
    <2> QED BY <1>1, <2>1, <2>2, <2>3, <2>4, ListingBegins
  <1>4. CASE Advance
    <2>1. PICK tool \in {"submit", "archive", "publish"}, confirm \in {"yes", "no"} :
            Begin([tool |-> tool, confirm |-> confirm,
                   pc |-> IF tool = "submit" \/ confirm = "yes" THEN "post"
                          ELSE IF tool = "archive" THEN "unconfirmed" ELSE "view"])
      BY <1>4 DEF Advance
    <2>2. PICK pc : pc = IF tool = "submit" \/ confirm = "yes" THEN "post"
                         ELSE IF tool = "archive" THEN "unconfirmed" ELSE "view"
      OBVIOUS
    <2>3. PICK c : c = [tool |-> tool, confirm |-> confirm, pc |-> pc]
      OBVIOUS
    <2>4. c \in ListingCalls /\ c.tool = tool /\ c.pc = pc /\ c.confirm = confirm
      BY <2>2, <2>3 DEF ListingCalls, Advances, YesNo
    <2>5. Assured(c)
      BY <2>2, <2>4 DEF Assured
    <2> QED BY <1>1, <2>1, <2>2, <2>3, <2>4, <2>5, ListingBegins
  <1>5. CASE Price
    <2>1. PICK confirm \in {"yes", "no"} : Begin([tool |-> "price", pc |-> "view", confirm |-> confirm, saw |-> "none"])
      BY <1>5 DEF Price
    <2>2. PICK c : c = [tool |-> "price", pc |-> "view", confirm |-> confirm, saw |-> "none"]
      OBVIOUS
    <2>3. c \in ListingCalls /\ c.tool = "price" /\ c.pc = "view"
      BY <2>2 DEF ListingCalls, Prices, YesNo
    <2>4. Assured(c)
      BY <2>3 DEF Assured
    <2> QED BY <1>1, <2>1, <2>2, <2>3, <2>4, ListingBegins
  <1>6. CASE Visibility
    <2>1. PICK mode \in {"private", "internal", "marketplace"}, confirm \in {"yes", "no"} :
            Begin([tool |-> "visibility", pc |-> IF mode = "internal" THEN "unsupported" ELSE "view",
                   confirm |-> confirm, mode |-> mode])
      BY <1>6 DEF Visibility
    <2>2. PICK c : c = [tool |-> "visibility", pc |-> IF mode = "internal" THEN "unsupported" ELSE "view",
                        confirm |-> confirm, mode |-> mode]
      OBVIOUS
    <2>3. c \in ListingCalls /\ c.tool = "visibility" /\ c.pc \in {"unsupported", "view"}
      BY <2>2 DEF ListingCalls, Visibilities, YesNo
    <2>4. Assured(c)
      BY <2>3 DEF Assured
    <2> QED BY <1>1, <2>1, <2>2, <2>3, <2>4, ListingBegins
  <1>7. CASE SellerAccount
    <2>1. PICK does \in {"status", "earnings", "onboard"}, confirm \in {"yes", "no"}, urls \in {"yes", "no"} :
            Begin([tool |-> "seller", confirm |-> confirm, does |-> does,
                   pc |-> IF does = "onboard" /\ (confirm = "no" \/ urls = "no") THEN "refuse" ELSE does])
      BY <1>7 DEF SellerAccount
    <2>2. PICK pc : pc = IF does = "onboard" /\ (confirm = "no" \/ urls = "no") THEN "refuse" ELSE does
      OBVIOUS
    <2>3. PICK c : c = [tool |-> "seller", confirm |-> confirm, does |-> does, pc |-> pc]
      OBVIOUS
    <2>4. c \in ListingCalls /\ c.tool = "seller" /\ c.pc = pc /\ c.confirm = confirm
      BY <2>2, <2>3 DEF ListingCalls, Sellers, YesNo
    <2>5. Assured(c)
      BY <2>2, <2>4 DEF Assured
    <2> QED BY <1>1, <2>1, <2>2, <2>3, <2>4, <2>5, ListingBegins
  <1> QED BY <1>2, <1>3, <1>4, <1>5, <1>6, <1>7 DEF ListingCall

(* Others change the listing, and never unseen.                              *)
LEMMA ChangedIsSound ==
  ASSUME Inv, task = "market", MarketFrame, Changed
  PROVE  Inv' /\ Confirmed
  <1>1. /\ ErrandTypeOK' /\ task' = task /\ call' = call /\ said' = said
        /\ moves' = moves + 1 /\ moves \in Nat /\ seller' = seller /\ There
    BY MovesKeeps DEF Inv, Changed, Mine
  <1>2. listing \in Listing
    BY DEF Inv, ListingSound, ListingTypeOK
  <1>3. listing' \in Listing /\ listing'.carrier = listing.carrier
    <2>1. CASE \E is \in {"DRAFT", "PENDING_REVIEW", "PUBLISHED", "ARCHIVED"} \ {listing.is} :
                 listing' = [listing EXCEPT !.is = is]
      BY <1>2, <2>1 DEF Listing
    <2>2. CASE \E public \in {"yes", "no"} \ {listing.public} : listing' = [listing EXCEPT !.public = public]
      BY <1>2, <2>2 DEF Listing
    <2> QED BY <2>1, <2>2 DEF Changed
  <1>4. PICK c : c = call
    OBVIOUS
  <1>5. c = NoCall \/ c \in ListingCalls
    BY <1>4 DEF Inv, Attends
  <1>6. Assured(c)'
    <2>1. Assured(c)
      BY <1>4 DEF Inv, ListingSound
    <2>2. c = NoCall => c.tool = "none"
      BY DEF NoCall
    <2> QED BY <1>1, <1>5, <2>1, <2>2 DEF Assured
  <1>7. SaidSound'
    BY <1>1, <1>3 DEF Inv, SaidSound, Telling, Idle
  <1>8. ListingTypeOK'
    BY <1>1, <1>3 DEF Inv, ListingSound, ListingTypeOK
  <1>9. Confirmed
    BY <1>1 DEF Confirmed, OfferedIsConfirmed, RepricedIsConfirmed
  <1> QED BY <1>1, <1>4, <1>5, <1>6, <1>7, <1>8, <1>9, MarketAlone

----------------------------------------------------------------------------
(* The steps of compliance. *)

ComplianceFrame == UNCHANGED <<approvalVars, listingVars>>

LEMMA ComplianceAlone ==
  ASSUME Inv, task = "compliance", task' = task, ComplianceFrame, ErrandTypeOK', SaidSound', ComplianceTypeOK',
         NEW c, call' = c, c = NoCall \/ (c \in ComplianceCalls /\ Finds(c)')
  PROVE  Inv'
  <1>1. Attends'
    BY DEF Attends
  <1>2. Bears(c)' /\ Assured(c)' /\ Finds(c)'
    BY Strangers
  <1>3. ComplianceSound'
    BY <1>2 DEF ComplianceSound
  <1>4. Ledger'
    BY LedgerStays DEF Inv, ApprovalSound, ComplianceFrame
  <1>5. ApprovalSound' /\ ListingSound'
    BY <1>2, <1>4 DEF Inv, ApprovalSound, ListingSound, ListingTypeOK, ComplianceFrame, listingVars
  <1> QED BY <1>1, <1>3, <1>5 DEF Inv

LEMMA FoundStays ==
  ASSUME NEW c, Finds(c), UNCHANGED record
  PROVE  Finds(c)'
  BY DEF Finds, Current

LEMMA ComplianceGoes ==
  ASSUME Inv, task = "compliance", ~Idle, Answered \/ Trouble, ComplianceFrame, UNCHANGED complianceVars,
         NEW c \in ComplianceCalls, Goes(c), Finds(c)
  PROVE  Inv'
  <1>1. ErrandTypeOK' /\ task' = task
    BY BoundsKept DEF Inv
  <1>2. SaidSound'
    BY SaidGoes DEF Inv
  <1>3. ComplianceTypeOK' /\ Finds(c)'
    BY FoundStays DEF Inv, ComplianceSound, ComplianceTypeOK, complianceVars
  <1> QED BY <1>1, <1>2, <1>3, ComplianceAlone DEF Goes

LEMMA ComplianceEnds ==
  ASSUME Inv, task = "compliance", Answered \/ Trouble, ComplianceFrame, UNCHANGED complianceVars,
         NEW r, Return(r), Telling(r)'
  PROVE  Inv'
  <1>1. ErrandTypeOK' /\ task' = task
    BY BoundsKept DEF Inv
  <1>2. SaidSound'
    BY SaidEnds DEF Return, Ends
  <1>3. ComplianceTypeOK'
    BY DEF Inv, ComplianceSound, ComplianceTypeOK, complianceVars
  <1> QED BY <1>1, <1>2, <1>3, ComplianceAlone DEF Return

LEMMA LookIs ==
  ASSUME NEW c \in ComplianceCalls
  PROVE  /\ c.tool = "assess" => c \in Assessments
         /\ c.tool = "scan" => c \in Scans
         /\ c.tool = "record" => c \in Looks
  BY DEF ComplianceCalls, Assessments, Scans, Looks

LEMMA AssessedIsSound ==
  ASSUME Inv, task = "compliance", call \in ComplianceCalls, ComplianceFrame, Assessed
  PROVE  Inv'
  <1>1. UNCHANGED complianceVars
    BY DEF Assessed
  <1>2. CASE Trouble /\ Return(Thrown)
    BY <1>1, <1>2, ComplianceEnds, PlainTells, MarketSays
  <1>3. CASE Answered /\ \E results \in [Controls -> Verdicts] :
                           \E eligible \in recordEligible(results) : Return(summarizeAssessment(results, eligible))
    <2>1. PICK results \in [Controls -> Verdicts] :
            \E eligible \in recordEligible(results) : Return(summarizeAssessment(results, eligible))
      BY <1>3
    <2>2. PICK eligible \in recordEligible(results) : Return(summarizeAssessment(results, eligible))
      BY <2>1
    <2>3. PICK r : r = summarizeAssessment(results, eligible)
      OBVIOUS
    <2>4. /\ r.is = "assessed" /\ DOMAIN r = {"is", "ok", "required", "listed", "blocking"}
          /\ r.ok = eligible /\ r.required = results["required"]
          /\ r.listed = failing(results) \cup notChecked(results)
          /\ r.blocking = IF eligible = "yes" THEN {} ELSE {"required"}
      BY <2>3 DEF summarizeAssessment
    <2>5. "required" \in Controls /\ results["required"] \in Verdicts
      BY DEF Controls
    <2>6. r.ok = "no" => "required" \in IF r.required = "NOT_APPLICABLE" THEN r.blocking ELSE r.listed
      BY <2>2, <2>4, <2>5 DEF recordEligible, failing, notChecked, Verdicts
    <2>7. Telling(r)'
      BY <2>4, <2>6 DEF Telling
    <2> QED BY <1>1, <1>3, <2>2, <2>3, <2>7, ComplianceEnds
  <1> QED BY <1>2, <1>3 DEF Assessed

(* A file that is collected is not one of credentials.                       *)
LEMMA CollectedIsRead ==
  ASSUME NEW f \in File, Collected(f) = "collected"
  PROVE  [nature |-> f.nature, holds |-> f.holds] \in Read
  <1>1. /\ f.named \in {"path", "walk", "inline"} /\ f.holds \in 0 .. 2
        /\ f.nature \in {"code", "credential", "link", "large", "binary", "ignored", "unreadable", "closed", "skipped"}
    BY DEF File
  <1>2. f.nature # "credential"
    BY <1>1 DEF Collected, addFile, collectInline, walk
  <1> QED BY <1>1, <1>2 DEF Read

(* What is passed over is ignored, or of the kinds that a walk passes over.  *)
LEMMA MissingIs ==
  ASSUME NEW f \in File
  PROVE  Missing(f) \subseteq Ways /\ (Collected(f) = "passed over" => "other" \notin Missing(f))
  <1>1. f.named \in {"path", "walk", "inline"}
    BY DEF File
  <1>2. How(f) \in Ways
    BY DEF How, Ways
  <1>3. ASSUME Collected(f) = "passed over"
        PROVE  How(f) # "other"
    <2>1. CASE f.named = "path"
      BY <1>3, <2>1 DEF Collected, addFile, How
    <2>2. CASE f.named = "inline"
      BY <1>3, <2>2 DEF Collected, collectInline
    <2>3. CASE f.named = "walk"
      <3>1. f.nature \in {"link", "closed", "skipped", "ignored"}
        BY <1>3, <2>3 DEF Collected, walk
      <3> QED BY <2>3, <3>1 DEF How
    <2> QED BY <1>1, <2>1, <2>2, <2>3
  <1> QED BY <1>2, <1>3 DEF Missing

LEMMA UnreadIs ==
  ASSUME NEW files
  PROVE  Unread(files) \subseteq Ways
  BY DEF Unread, Ways

LEMMA CollectIsSound ==
  ASSUME Inv, task = "compliance", call \in ComplianceCalls, ComplianceFrame, collectFiles
  PROVE  Inv'
  <1>1. PICK c : c = call
    OBVIOUS
  <1>2. c \in Scans /\ ~Idle /\ Finds(c) /\ Answered /\ UNCHANGED complianceVars
    BY <1>1, LookIs, SomeCall DEF collectFiles, At, Idle, Inv, ComplianceSound
  <1>3. /\ c.tool = "scan" /\ c.asked \in Nat /\ c.inline \in Nat /\ c.files \in Seq(Read) /\ c.complete \in YesNo
        /\ c.missed \in SUBSET Ways /\ ("other" \in c.missed => c.complete = "no")
    BY <1>2 DEF Scans, Finds
  <1>4. ASSUME NEW d \in Scans, Goto(d), "other" \in d.missed => d.complete = "no"
        PROVE  Inv'
    <2>1. d \in ComplianceCalls /\ d.tool = "scan"
      BY <1>4 DEF ComplianceCalls, Scans
    <2>2. Finds(d)
      BY <1>4, <2>1 DEF Finds
    <2>3. Goes(d)
      BY <1>4 DEF Goto, Goes
    <2> QED BY <1>2, <2>1, <2>2, <2>3, ComplianceGoes
  <1>5. CASE Return(Thrown)
    BY <1>2, <1>5, ComplianceEnds, PlainTells, MarketSays
  <1>6. ASSUME NEW f \in File,
               LET e == [call EXCEPT !.asked = @ + 1]
               IN CASE Collected(f) = "collected" -> Goto([e EXCEPT !.files = Append(@, [nature |-> f.nature, holds |-> f.holds]),
                                                                    !.inline = @ + IF f.named = "inline" THEN 1 ELSE 0])
                    [] Collected(f) = "reported" -> Goto([e EXCEPT !.complete = "no", !.missed = @ \cup Missing(f)])
                    [] Collected(f) = "passed over" -> Goto([e EXCEPT !.missed = @ \cup Missing(f)])
                    [] OTHER -> Return(Thrown)
        PROVE  Inv'
    <2>1. PICK e : e = [call EXCEPT !.asked = @ + 1]
      OBVIOUS
    <2>2. /\ e \in Scans /\ e.files = c.files /\ e.complete = c.complete /\ e.missed = c.missed /\ e.inline = c.inline
      BY <1>1, <1>2, <2>1 DEF Scans
    <2>3. \/ /\ Collected(f) = "collected"
             /\ Goto([e EXCEPT !.files = Append(@, [nature |-> f.nature, holds |-> f.holds]),
                               !.inline = @ + IF f.named = "inline" THEN 1 ELSE 0])
          \/ Goto([e EXCEPT !.complete = "no", !.missed = @ \cup Missing(f)])
          \/ Collected(f) = "passed over" /\ Goto([e EXCEPT !.missed = @ \cup Missing(f)])
          \/ Return(Thrown)
      BY <1>6, <2>1
    <2>4. CASE /\ Collected(f) = "collected"
               /\ Goto([e EXCEPT !.files = Append(@, [nature |-> f.nature, holds |-> f.holds]),
                                 !.inline = @ + IF f.named = "inline" THEN 1 ELSE 0])
      <3>1. PICK files : files = Append(e.files, [nature |-> f.nature, holds |-> f.holds])
        OBVIOUS
      <3>2. files \in Seq(Read)
        BY <1>3, <2>2, <2>4, <3>1, CollectedIsRead, AppendProperties
      <3>3. PICK inline : inline = e.inline + IF f.named = "inline" THEN 1 ELSE 0
        OBVIOUS
      <3>4. inline \in Nat
        BY <1>3, <2>2, <3>3
      <3>5. PICK d : d = [e EXCEPT !.files = files, !.inline = inline]
        OBVIOUS
      <3>6. d \in Scans /\ d.complete = c.complete /\ d.missed = c.missed
        BY <2>2, <3>2, <3>4, <3>5 DEF Scans
      <3>7. Goto(d)
        BY <2>2, <2>4, <3>1, <3>3, <3>5 DEF Scans
      <3> QED BY <1>3, <1>4, <3>6, <3>7
    <2>5. PICK missed : missed = e.missed \cup Missing(f)
      OBVIOUS
    <2>6. missed \in SUBSET Ways /\ (Collected(f) = "passed over" => ("other" \in missed <=> "other" \in c.missed))
      BY <1>3, <2>2, <2>5, MissingIs
    <2>7. CASE Goto([e EXCEPT !.complete = "no", !.missed = @ \cup Missing(f)])
      <3>1. PICK d : d = [e EXCEPT !.complete = "no", !.missed = missed]
        OBVIOUS
      <3>2. d \in Scans /\ d.complete = "no"
        BY <2>2, <2>6, <3>1 DEF Scans, YesNo
      <3>3. Goto(d)
        BY <2>2, <2>5, <2>7, <3>1 DEF Scans
      <3> QED BY <1>4, <3>2, <3>3
    <2>8. CASE Collected(f) = "passed over" /\ Goto([e EXCEPT !.missed = @ \cup Missing(f)])
      <3>1. PICK d : d = [e EXCEPT !.missed = missed]
        OBVIOUS
      <3>2. d \in Scans /\ d.complete = c.complete /\ d.missed = missed
        BY <2>2, <2>6, <3>1 DEF Scans
      <3>3. Goto(d)
        BY <2>2, <2>5, <2>8, <3>1 DEF Scans
      <3> QED BY <1>3, <1>4, <2>6, <2>8, <3>2, <3>3
    <2> QED BY <1>5, <2>3, <2>4, <2>7, <2>8
  <1>7. CASE Goto([call EXCEPT !.pc = "send",
                               !.complete = IF call.files = << >> /\ call.snippet = << >> THEN "no" ELSE @])
    <2>1. PICK complete : complete = IF c.files = << >> /\ c.snippet = << >> THEN "no" ELSE c.complete
      OBVIOUS
    <2>2. complete \in YesNo /\ (c.complete = "no" => complete = "no")
      BY <1>3, <2>1 DEF YesNo
    <2>3. PICK d : d = [c EXCEPT !.pc = "send", !.complete = complete]
      OBVIOUS
    <2>4. d \in Scans /\ d.complete = complete /\ d.missed = c.missed
      BY <1>2, <2>2, <2>3 DEF Scans
    <2>5. Goto(d)
      BY <1>1, <1>2, <1>7, <2>1, <2>3 DEF Scans
    <2> QED BY <1>3, <1>4, <2>2, <2>4, <2>5
  <1> QED BY <1>6, <1>7 DEF collectFiles

(* The files of a batch and those that are left were all collected.          *)
LEMMA BatchIs ==
  ASSUME NEW c \in Scans, NEW b,
         b = IF c.files = << >> THEN c.snippet
             ELSE SubSeq(c.files, 1, IF Len(c.files) < BatchFiles THEN Len(c.files) ELSE BatchFiles)
  PROVE  /\ b \in Seq(Read)
         /\ (IF c.files = << >> THEN c.files ELSE SubSeq(c.files, Len(b) + 1, Len(c.files))) \in Seq(Read)
         /\ (IF c.files = << >> THEN << >> ELSE c.snippet) \in Seq(Read)
         /\ \A i \in DOMAIN b : b[i] \in Read /\ b[i].nature \in {r.nature : r \in Read} /\ b[i].holds \in 0 .. 2
  <1>1. c.files \in Seq(Read) /\ c.snippet \in Seq(Read) /\ << >> \in Seq(Read)
    BY DEF Scans
  <1>2. PICK n : n = IF Len(c.files) < BatchFiles THEN Len(c.files) ELSE BatchFiles
    OBVIOUS
  <1>3. Len(c.files) \in Nat /\ n \in Nat /\ n <= Len(c.files)
    BY <1>1, <1>2, FilesAssumption
  <1>4. SubSeq(c.files, 1, n) \in Seq(Read) /\ Len(SubSeq(c.files, 1, n)) = n
    BY <1>1, <1>3, SubSeqProperties
  <1>5. b \in Seq(Read)
    BY <1>1, <1>2, <1>4
  <1>6. SubSeq(c.files, n + 1, Len(c.files)) \in Seq(Read)
    BY <1>1, <1>3, SubSeqProperties
  <1>7. (IF c.files = << >> THEN c.files ELSE SubSeq(c.files, Len(b) + 1, Len(c.files))) \in Seq(Read)
    BY <1>1, <1>2, <1>4, <1>6
  <1>8. \A i \in DOMAIN b : b[i] \in Read
    BY <1>5
  <1>9. \A r \in Read : r.holds \in 0 .. 2
    BY DEF Read
  <1> QED BY <1>1, <1>5, <1>7, <1>8, <1>9

LEMMA WorstIs ==
  ASSUME NEW files, \A f \in files : f.holds \in 0 .. 2
  PROVE  Worst(files) \in 0 .. 2
  <1>1. PICK S : S = {0} \cup {f.holds : f \in files}
    OBVIOUS
  <1>2. S \subseteq 0 .. 2 /\ 0 \in S
    BY <1>1
  <1>3. \E x \in S : \A y \in S : x >= y
    <2>1. CASE 2 \in S
      BY <1>2, <2>1
    <2>2. CASE 2 \notin S /\ 1 \in S
      BY <1>2, <2>2
    <2>3. CASE 2 \notin S /\ 1 \notin S
      BY <1>2, <2>3
    <2> QED BY <2>1, <2>2, <2>3
  <1>4. Max(S) \in S
    BY <1>3 DEF Max
  <1> QED BY <1>1, <1>2, <1>4 DEF Worst

LEMMA ScanIsSound ==
  ASSUME Inv, task = "compliance", call \in ComplianceCalls, ComplianceFrame, scanFiles
  PROVE  Inv'
  <1>1. PICK c : c = call
    OBVIOUS
  <1>2. c \in Scans /\ ~Idle /\ Finds(c) /\ UNCHANGED complianceVars
    BY <1>1, LookIs, SomeCall DEF scanFiles, At, Idle, Inv, ComplianceSound
  <1>3. /\ c.tool = "scan" /\ c.complete \in YesNo /\ c.missed \in SUBSET Ways /\ c.found \in 0 .. 2
        /\ c.sent \in SUBSET {r.nature : r \in Read}
        /\ "other" \in c.missed => c.complete = "no"
    BY <1>2 DEF Scans, Finds
  <1>4. PICK b : b = IF c.files = << >> THEN c.snippet
                     ELSE SubSeq(c.files, 1, IF Len(c.files) < BatchFiles THEN Len(c.files) ELSE BatchFiles)
    OBVIOUS
  <1>5. b = batch
    BY <1>1, <1>4 DEF batch
  <1>6. PICK files : files = IF c.files = << >> THEN c.files ELSE SubSeq(c.files, Len(b) + 1, Len(c.files))
    OBVIOUS
  <1>7. PICK snippet : snippet = IF c.files = << >> THEN << >> ELSE c.snippet
    OBVIOUS
  <1>8. PICK sent : sent = c.sent \cup {b[i].nature : i \in DOMAIN b}
    OBVIOUS
  <1>9. /\ files \in Seq(Read) /\ snippet \in Seq(Read)
        /\ \A i \in DOMAIN b : b[i].nature \in {r.nature : r \in Read} /\ b[i].holds \in 0 .. 2
    BY <1>2, <1>4, <1>6, <1>7, BatchIs
  <1>10. sent \in SUBSET {r.nature : r \in Read}
    BY <1>3, <1>8, <1>9
  <1>11. PICK e : e = Sent
    OBVIOUS
  <1>12. e = [c EXCEPT !.files = files, !.snippet = snippet, !.sent = sent]
    BY <1>1, <1>2, <1>5, <1>6, <1>7, <1>8, <1>11 DEF Sent, Scans
  <1>13. e \in Scans /\ e.complete = c.complete /\ e.missed = c.missed /\ e.found = c.found
    BY <1>2, <1>9, <1>10, <1>12 DEF Scans
  <1>14. ASSUME NEW d \in Scans, Goto(d), Answered \/ Trouble, "other" \in d.missed => d.complete = "no"
         PROVE  Inv'
    <2>1. d \in ComplianceCalls /\ d.tool = "scan"
      BY <1>14 DEF ComplianceCalls, Scans
    <2>2. Finds(d)
      BY <1>14, <2>1 DEF Finds
    <2>3. Goes(d)
      BY <1>14 DEF Goto, Goes
    <2> QED BY <1>2, <1>14, <2>1, <2>2, <2>3, ComplianceGoes
  <1>15. CASE Trouble /\ Goto([Sent EXCEPT !.complete = "no", !.missed = @ \cup Unread(Range(batch))])
    <2>1. PICK missed : missed = e.missed \cup Unread(Range(batch))
      OBVIOUS
    <2>2. missed \in SUBSET Ways
      BY <1>3, <1>13, <2>1, UnreadIs
    <2>3. PICK d : d = [e EXCEPT !.complete = "no", !.missed = missed]
      OBVIOUS
    <2>4. d \in Scans /\ d.complete = "no"
      BY <1>13, <2>2, <2>3 DEF Scans, YesNo
    <2>5. Goto(d)
      BY <1>11, <1>13, <1>15, <2>1, <2>3 DEF Scans
    <2> QED BY <1>14, <1>15, <2>4, <2>5
  <1>16. ASSUME Answered, NEW whole \in {"yes", "no"}, NEW some \in SUBSET DOMAIN batch,
                whole = "yes" => some = DOMAIN batch,
                Goto([Sent EXCEPT !.found = Worst({[holds |-> @]} \cup {batch[i] : i \in some}),
                                  !.missed = @ \cup Unread({batch[i] : i \in DOMAIN batch \ some}),
                                  !.complete = IF whole = "yes" THEN @ ELSE "no"])
         PROVE  Inv'
    <2>1. PICK found : found = Worst({[holds |-> e.found]} \cup {batch[i] : i \in some})
      OBVIOUS
    <2>2. PICK missed : missed = e.missed \cup Unread({batch[i] : i \in DOMAIN batch \ some})
      OBVIOUS
    <2>3. PICK complete : complete = IF whole = "yes" THEN e.complete ELSE "no"
      OBVIOUS
    <2>4. found \in 0 .. 2
      <3>1. \A f \in {[holds |-> e.found]} \cup {batch[i] : i \in some} : f.holds \in 0 .. 2
        BY <1>3, <1>5, <1>9, <1>13
      <3> QED BY <2>1, <3>1, WorstIs
    <2>5. missed \in SUBSET Ways
      BY <1>3, <1>13, <2>2, UnreadIs
    <2>6. complete \in YesNo
      BY <1>3, <1>13, <2>3 DEF YesNo
    <2>7. "other" \in missed => complete = "no"
      <3>1. CASE whole = "yes"
        <4>1. missed = e.missed
          BY <1>16, <2>2, <3>1 DEF Unread
        <4> QED BY <1>3, <1>13, <2>3, <3>1, <4>1
      <3>2. CASE whole = "no"
        BY <2>3, <3>2
      <3> QED BY <3>1, <3>2
    <2>8. PICK d : d = [e EXCEPT !.found = found, !.missed = missed, !.complete = complete]
      OBVIOUS
    <2>9. d \in Scans /\ d.missed = missed /\ d.complete = complete
      BY <1>13, <2>4, <2>5, <2>6, <2>8 DEF Scans
    <2>10. Goto(d)
      BY <1>11, <1>13, <1>16, <2>1, <2>2, <2>3, <2>8 DEF Scans
    <2> QED BY <1>14, <1>16, <2>7, <2>9, <2>10
  <1> QED BY <1>15, <1>16 DEF scanFiles

LEMMA ScannedIsSound ==
  ASSUME Inv, task = "compliance", call \in ComplianceCalls, ComplianceFrame, Scanned
  PROVE  Inv'
  <1>1. PICK c : c = call
    OBVIOUS
  <1>2. c \in Scans /\ Finds(c) /\ Answered /\ UNCHANGED complianceVars
    BY <1>1, LookIs DEF Scanned, At, Inv, ComplianceSound
  <1>3. PICK verdict : verdict = scanVerdict(c.found, c.complete)
    OBVIOUS
  <1>4. PICK ok : ok = IF verdict \in {"PASS", "PARTIAL"} THEN "yes" ELSE "no"
    OBVIOUS
  <1>5. PICK r : r = [is |-> "scanned", verdict |-> verdict, missed |-> c.missed, complete |-> c.complete, ok |-> ok]
    OBVIOUS
  <1>6. Return(r)
    BY <1>1, <1>3, <1>4, <1>5 DEF Scanned
  <1>7. r.is = "scanned" /\ r.verdict = verdict /\ r.missed = c.missed /\ r.complete = c.complete
    BY <1>5
  <1>8. "installable" \notin DOMAIN r
    BY <1>5
  <1>9. verdict = "PASS" => c.complete = "yes"
    BY <1>2, <1>3 DEF scanVerdict, Scans
  <1>10. ("other" \in c.missed => c.complete = "no") /\ c.missed \subseteq Ways
    BY <1>2 DEF Finds, Scans
  <1>11. Telling(r)'
    BY <1>7, <1>8, <1>9, <1>10 DEF Telling, Ways
  <1> QED BY <1>2, <1>6, <1>11, ComplianceEnds

(* A record that the platform calls valid and fresh is sound at that moment. *)
LEMMA ServerIsRight ==
  ASSUME ComplianceTypeOK, NEW s \in ServerSays
  PROVE  s \in Says /\ (s.status = "VALID" /\ s.fresh = "yes" => Current)
  <1>1. record \in [Flaws -> YesNo]
    BY DEF ComplianceTypeOK, YesNo
  <1>2. PICK fresh \in {IF record.outdated = "yes" THEN "no" ELSE "yes", "null"},
             word \in {"INVALID_SIGNATURE", "REVOKED", "EXPIRED", "STALE", "VALID"} :
          /\ s = [status |-> word, fresh |-> fresh]
          /\ word = "VALID" => record.altered # "yes" /\ record.revoked # "yes" /\ record.expired # "yes"
    BY DEF ServerSays
  <1>3. s \in Says /\ s.status = word /\ s.fresh = fresh
    BY <1>2 DEF Says, YesNo
  <1>4. ASSUME word = "VALID", fresh = "yes"
        PROVE  Current
    <2>1. \A flaw \in Flaws : record[flaw] = "no"
      BY <1>1, <1>2, <1>4 DEF Flaws, YesNo
    <2> QED BY <1>1, <2>1 DEF Current, Sound
  <1> QED BY <1>3, <1>4

LEMMA RecordIsSound ==
  ASSUME Inv, task = "compliance", call \in ComplianceCalls, ComplianceFrame,
         ReadEvidence \/ AskServer \/ AskKey \/ Concluded
  PROVE  Inv'
  <1>1. PICK c : c = call
    OBVIOUS
  <1>2. c \in Looks /\ ~Idle /\ Finds(c) /\ UNCHANGED complianceVars /\ ComplianceTypeOK
    BY <1>1, LookIs, SomeCall DEF ReadEvidence, AskServer, AskKey, Concluded, At, Idle, Inv, ComplianceSound
  <1>3. /\ c.tool = "record" /\ c.was \in {"current", "not"} /\ (c.was = "not" => ~Current)
        /\ c.server # None /\ c.server.status = "VALID" /\ c.server.fresh = "yes" => c.was = "current"
    BY <1>2 DEF Looks, Finds
  <1>4. ASSUME NEW d \in Looks, Goto(d), Answered \/ Trouble, d.was = c.was,
               d.server # None /\ d.server.status = "VALID" /\ d.server.fresh = "yes" => d.was = "current"
        PROVE  Inv'
    <2>1. d \in ComplianceCalls /\ d.tool = "record"
      BY <1>4 DEF ComplianceCalls, Looks
    <2>2. Finds(d)
      BY <1>3, <1>4, <2>1 DEF Finds
    <2>3. Goes(d)
      BY <1>4 DEF Goto, Goes
    <2> QED BY <1>2, <1>4, <2>1, <2>2, <2>3, ComplianceGoes
  <1>5. CASE (Answered \/ Trouble) /\ Return(Thrown)
    BY <1>2, <1>5, ComplianceEnds, PlainTells, MarketSays
  <1>6. CASE ReadEvidence
    <2>1. CASE Trouble /\ Return(Thrown)
      BY <1>5, <2>1
    <2>2. CASE Answered /\ Return([is |-> "NOT_VERIFIED"])
      <3>1. Plain([is |-> "NOT_VERIFIED"])
        BY DEF Plain
      <3> QED BY <1>2, <2>2, <3>1, ComplianceEnds, PlainTells
    <2>3. CASE Answered /\ Goto([call EXCEPT !.pc = "verify", !.read = record])
      <3>1. PICK read : read = record
        OBVIOUS
      <3>2. read \in Evidence
        BY <1>2, <3>1 DEF ComplianceTypeOK, Evidence, YesNo
      <3>3. PICK d : d = [c EXCEPT !.pc = "verify", !.read = read]
        OBVIOUS
      <3>4. d \in Looks /\ d.server = c.server /\ d.was = c.was
        BY <1>2, <3>2, <3>3 DEF Looks
      <3>5. Goto(d)
        BY <1>1, <2>3, <3>1, <3>3
      <3> QED BY <1>3, <1>4, <2>3, <3>4, <3>5
    <2> QED BY <1>6, <2>1, <2>2, <2>3 DEF ReadEvidence
  <1>7. CASE AskServer
    <2>1. ASSUME NEW s \in Says, Goto([call EXCEPT !.server = s]), Answered \/ Trouble,
                 s.status = "VALID" /\ s.fresh = "yes" => c.was = "current"
          PROVE  Inv'
      <3>1. PICK d : d = [c EXCEPT !.server = s]
        OBVIOUS
      <3>2. d \in Looks /\ d.server = s /\ d.was = c.was
        BY <1>2, <3>1 DEF Looks
      <3>3. Goto(d)
        BY <1>1, <2>1, <3>1
      <3> QED BY <1>4, <2>1, <3>2, <3>3
    <2>2. CASE Answered /\ \E s \in ServerSays : Goto([call EXCEPT !.server = s])
      <3>1. PICK s \in ServerSays : Goto([call EXCEPT !.server = s])
        BY <2>2
      <3>2. s \in Says /\ (s.status = "VALID" /\ s.fresh = "yes" => Current)
        BY <1>2, ServerIsRight
      <3> QED BY <1>3, <2>1, <2>2, <3>1, <3>2
    <2>3. CASE Trouble /\ Goto([call EXCEPT !.server = [status |-> "error", fresh |-> "null"]])
      <3>1. PICK s : s = [status |-> "error", fresh |-> "null"]
        OBVIOUS
      <3>2. s \in Says /\ s.status # "VALID"
        BY <3>1 DEF Says
      <3> QED BY <2>1, <2>3, <3>1, <3>2
    <2> QED BY <1>7, <2>2, <2>3 DEF AskServer
  <1>8. CASE AskKey
    <2>1. PICK k \in {"published", "another", "withheld"} : Goto([call EXCEPT !.key = k]) /\ (Answered \/ Trouble)
      BY <1>2, <1>8 DEF AskKey, ComplianceTypeOK
    <2>2. PICK d : d = [c EXCEPT !.key = k]
      OBVIOUS
    <2>3. d \in Looks /\ d.server = c.server /\ d.was = c.was
      BY <1>2, <2>2 DEF Looks
    <2>4. Goto(d)
      BY <1>1, <2>1, <2>2
    <2> QED BY <1>3, <1>4, <2>1, <2>3, <2>4
  <1>9. CASE Concluded
    <2>1. PICK word : word = conclusion
      OBVIOUS
    <2>2. c.server # None
      BY <1>1, <1>9 DEF Concluded
    <2>3. /\ word \notin {"assessed", "scanned"}
          /\ word = "VALID_AND_CURRENT" => c.server.status = "VALID" /\ c.server.fresh = "yes"
      BY <1>1, <2>1 DEF conclusion, Fresh
    <2>4. PICK r : r = [is |-> word, was |-> c.was]
      OBVIOUS
    <2>5. r.is = word /\ r.was = c.was /\ "installable" \notin DOMAIN r
      BY <2>4
    <2>6. Telling(r)'
      BY <1>3, <2>2, <2>3, <2>5 DEF Telling
    <2>7. Return(r) /\ Answered
      BY <1>1, <1>9, <2>1, <2>4 DEF Concluded
    <2> QED BY <1>2, <2>6, <2>7, ComplianceEnds
  <1> QED BY <1>6, <1>7, <1>8, <1>9

LEMMA ComplianceStepIsSound ==
  ASSUME Inv, task = "compliance", call \in ComplianceCalls, ComplianceFrame, ComplianceStep
  PROVE  Inv'
  BY AssessedIsSound, CollectIsSound, ScanIsSound, ScannedIsSound, RecordIsSound DEF ComplianceStep

LEMMA ComplianceBegins ==
  ASSUME Inv, task = "compliance", ComplianceFrame, UNCHANGED complianceVars, NEW c \in ComplianceCalls, Begin(c), Finds(c)
  PROVE  Inv'
  <1>1. ErrandTypeOK' /\ SaidSound' /\ task' = task /\ call' = c
    BY BeginKeeps DEF Inv
  <1>2. ComplianceTypeOK' /\ Finds(c)'
    BY FoundStays DEF Inv, ComplianceSound, ComplianceTypeOK, complianceVars
  <1> QED BY <1>1, <1>2, ComplianceAlone

LEMMA ComplianceCallIsSound ==
  ASSUME Inv, task = "compliance", ComplianceFrame, ComplianceCall
  PROVE  Inv'
  <1>1. UNCHANGED complianceVars
    BY DEF ComplianceCall, Assess, Scan, GetRecord
  <1>2. CASE Assess
    <2>1. PICK c : c = [tool |-> "assess", pc |-> "post"]
      OBVIOUS
    <2>2. c \in ComplianceCalls /\ c.tool = "assess"
      BY <2>1 DEF ComplianceCalls, Assessments
    <2>3. Finds(c)
      BY <2>2 DEF Finds
    <2>4. Begin(c)
      BY <1>2, <2>1 DEF Assess
    <2> QED BY <1>1, <2>2, <2>3, <2>4, ComplianceBegins
  <1>3. CASE Scan
    <2>1. PICK snippet \in {<< >>} \cup {<<[nature |-> "code", holds |-> h]>> : h \in 0 .. 2} :
            Begin([tool |-> "scan", pc |-> "collect", asked |-> 0, inline |-> 0, files |-> << >>, snippet |-> snippet,
                   complete |-> "yes", found |-> 0, missed |-> {}, sent |-> {}])
      BY <1>3 DEF Scan
    <2>2. PICK c : c = [tool |-> "scan", pc |-> "collect", asked |-> 0, inline |-> 0, files |-> << >>,
                        snippet |-> snippet, complete |-> "yes", found |-> 0, missed |-> {}, sent |-> {}]
      OBVIOUS
    <2>3. snippet \in Seq(Read)
      <3>1. CASE snippet = << >>
        BY <3>1
      <3>2. CASE \E h \in 0 .. 2 : snippet = <<[nature |-> "code", holds |-> h]>>
        <4>1. PICK h \in 0 .. 2 : snippet = <<[nature |-> "code", holds |-> h]>>
          BY <3>2
        <4>2. PICK f : f = [nature |-> "code", holds |-> h]
          OBVIOUS
        <4>3. f \in Read
          BY <4>2 DEF Read
        <4>4. <<f>> \in Seq(Read)
          BY <4>3
        <4> QED BY <4>1, <4>2, <4>4
      <3> QED BY <2>1, <3>1, <3>2
    <2>4. << >> \in Seq(Read) /\ {} \in SUBSET {r.nature : r \in Read} /\ {} \in SUBSET Ways
      OBVIOUS
    <2>5. c \in ComplianceCalls /\ c.tool = "scan" /\ c.missed = {}
      BY <2>2, <2>3, <2>4 DEF ComplianceCalls, Scans, YesNo
    <2>6. Finds(c)
      BY <2>5 DEF Finds
    <2>7. Begin(c)
      BY <2>1, <2>2
    <2> QED BY <1>1, <2>5, <2>6, <2>7, ComplianceBegins
  <1>4. CASE GetRecord
    <2>1. PICK verify \in {"yes", "no"} :
            Begin([tool |-> "record", pc |-> "read", verify |-> verify, read |-> None, server |-> None, key |-> None,
                   was |-> IF Current THEN "current" ELSE "not"])
      BY <1>4 DEF GetRecord
    <2>2. PICK was : was = IF Current THEN "current" ELSE "not"
      OBVIOUS
    <2>3. PICK c : c = [tool |-> "record", pc |-> "read", verify |-> verify, read |-> None, server |-> None, key |-> None,
                        was |-> was]
      OBVIOUS
    <2>4. c \in ComplianceCalls /\ c.tool = "record" /\ c.was = was /\ c.server = None
      BY <2>2, <2>3 DEF ComplianceCalls, Looks, YesNo
    <2>5. Finds(c)
      BY <2>2, <2>4 DEF Finds
    <2>6. Begin(c)
      BY <2>1, <2>2, <2>3
    <2> QED BY <1>1, <2>4, <2>5, <2>6, ComplianceBegins
  <1> QED BY <1>2, <1>3, <1>4 DEF ComplianceCall

(* What was wrong with a record stays wrong.                                 *)
LEMMA AgesIsSound ==
  ASSUME Inv, task = "compliance", ComplianceFrame, Ages
  PROVE  Inv'
  <1>1. ErrandTypeOK' /\ task' = task /\ call' = call /\ said' = said
    BY MovesKeeps DEF Inv, Ages
  <1>2. record \in [Flaws -> YesNo] /\ key \in {"published", "another", "withheld"}
    BY DEF Inv, ComplianceSound, ComplianceTypeOK, YesNo
  <1>3. ComplianceTypeOK' /\ (~Current => ~Current')
    <2>1. CASE \E flaw \in {"revoked", "expired", "outdated"} :
                 record[flaw] = "no" /\ record' = [record EXCEPT ![flaw] = "yes"] /\ UNCHANGED key
      <3>1. PICK flaw \in {"revoked", "expired", "outdated"} :
              record[flaw] = "no" /\ record' = [record EXCEPT ![flaw] = "yes"] /\ UNCHANGED key
        BY <2>1
      <3>2. flaw \in Flaws
        BY DEF Flaws
      <3>3. record' \in [Flaws -> YesNo] /\ record'[flaw] = "yes"
        BY <1>2, <3>1, <3>2 DEF YesNo
      <3>4. Sound[flaw] = "no"
        BY <3>2 DEF Sound
      <3> QED BY <1>2, <3>1, <3>3, <3>4 DEF ComplianceTypeOK, Current, YesNo, Sound
    <2>2. CASE key = "published" /\ key' = "another" /\ UNCHANGED record
      BY <1>2, <2>2 DEF ComplianceTypeOK, Current, YesNo, Sound
    <2> QED BY <2>1, <2>2 DEF Ages
  <1>4. PICK c : c = call
    OBVIOUS
  <1>5. c = NoCall \/ c \in ComplianceCalls
    BY <1>4 DEF Inv, Attends
  <1>6. Finds(c)
    BY <1>4 DEF Inv, ComplianceSound
  <1>7. Finds(c)'
    BY <1>3, <1>6 DEF Finds
  <1>8. SaidSound'
    BY <1>1 DEF Inv, SaidSound, Telling, Idle, ComplianceFrame, listingVars
  <1> QED BY <1>1, <1>3, <1>4, <1>5, <1>7, <1>8, ComplianceAlone

----------------------------------------------------------------------------
(* All of it. *)

(* A step is one of the tools that take it.                                  *)
LEMMA StepsAreOwn ==
  /\ ApprovalStep => call \notin ListingCalls /\ call \notin ComplianceCalls
  /\ ListingStep => call \notin ApprovalCalls /\ call \notin ComplianceCalls
  /\ ComplianceStep => call \notin ApprovalCalls /\ call \notin ListingCalls
  <1>1. call \in ApprovalCalls => call.tool \in {"request", "execute", "status", "wire"}
    BY DEF ApprovalCalls, Requests, Executes, Statuses, Wires
  <1>2. call \in ListingCalls =>
          /\ call.tool \in {"get", "list", "draft", "submit", "archive", "publish", "price", "visibility", "seller"}
          /\ call.pc \notin {"execute", "reread"}
    BY DEF ListingCalls, Reads, Drafts, Advances, Prices, Visibilities, Sellers
  <1>3. call \in ComplianceCalls => call.tool \in {"assess", "scan", "record"} /\ call.pc \notin {"execute", "reread"}
    BY DEF ComplianceCalls, Assessments, Scans, Looks
  <1>4. ApprovalStep => call.tool \in {"request", "wire", "status"} \/ call.pc \in {"execute", "reread"}
    BY DEF ApprovalStep, resolveApplication, proposeAction, advance, executeAction, refused, wireCode, At
  <1>5. ListingStep =>
          call.tool \in {"get", "list", "draft", "submit", "archive", "publish", "price", "visibility", "seller"}
    BY DEF ListingStep, Catalogue, GetView, Rows, PostDraft, Unconfirmed, PublishPreview, Submit, Archive, Publish,
           Post, PriceView, PutPrice, Internal, VisibilityView, PutVisibility, Seller, At
  <1>6. ComplianceStep => call.tool \in {"assess", "scan", "record"}
    BY DEF ComplianceStep, Assessed, collectFiles, scanFiles, Scanned, ReadEvidence, AskServer, AskKey, Concluded, At
  <1> QED BY <1>1, <1>2, <1>3, <1>4, <1>5, <1>6

LEMMA InvInit ==
  ASSUME Init
  PROVE  Inv
  <1>1. task \in Tasks /\ call = NoCall /\ said = None /\ calls = 0 /\ trouble = 0 /\ moves = 0
    BY DEF Init, ErrandInit
  <1>2. ErrandTypeOK
    BY <1>1, BoundsAssumption DEF ErrandTypeOK
  <1>3. Attends
    BY <1>1 DEF Attends
  <1>4. SaidSound
    BY <1>1, NothingTells DEF SaidSound
  <1>5. Bears(call) /\ Assured(call) /\ Finds(call)
    BY <1>1, Strangers
  <1>6. Ledger
    <2>1. actions = << >> /\ plan = [w \in Wishes |-> Propose] /\ code = {}
      BY DEF Init, ApprovalInit
    <2>2. actions \in Seq(Action) /\ Len(actions) = 0 /\ Len(actions) <= MaxActions
      BY <2>1, ActionsAssumption
    <2>3. Asked = {}
      BY <2>2 DEF Asked
    <2>4. plan \in [Wishes -> Nat] /\ \A w \in Wishes : plan[w] = Propose
      BY <2>1 DEF Propose
    <2> QED BY <2>1, <2>2, <2>3, <2>4 DEF Ledger
  <1>7. ListingTypeOK
    <2>1. NoListing \in Listing
      BY DEF NoListing, Listing
    <2>2. ListingInit => ListingTypeOK
      BY <2>1 DEF ListingInit, ListingTypeOK, Listing
    <2> QED BY <2>1, <2>2 DEF Init, ListingTypeOK
  <1>8. ComplianceTypeOK
    <2>1. Sound \in [Flaws -> {"yes", "no"}] /\ \A flaw \in Flaws : [Sound EXCEPT ![flaw] = "yes"] \in [Flaws -> {"yes", "no"}]
      BY DEF Sound, Flaws
    <2> QED BY <2>1 DEF Init, ComplianceInit, ComplianceTypeOK
  <1> QED BY <1>2, <1>3, <1>4, <1>5, <1>6, <1>7, <1>8 DEF Inv, ApprovalSound, ListingSound, ComplianceSound

LEMMA InvNext ==
  ASSUME Inv, Next
  PROVE  Inv' /\ Confirmed
  <1>1. CASE ServerStep
    <2>1. ~Idle /\ Attends
      BY <1>1 DEF ServerStep, Inv
    <2>2. CASE ApprovalStep /\ UNCHANGED <<listingVars, complianceVars>>
      <3>1. task = "approvals" /\ call \in ApprovalCalls
        BY <2>1, <2>2, StepsAreOwn DEF Attends, Idle
      <3> QED BY <2>2, <3>1, ApprovalStepIsSound, NothingChanges DEF ApprovalFrame
    <2>3. CASE ListingStep /\ UNCHANGED <<approvalVars, complianceVars>>
      <3>1. task = "market" /\ call \in ListingCalls
        BY <2>1, <2>3, StepsAreOwn DEF Attends, Idle
      <3> QED BY <2>3, <3>1, ListingStepIsSound DEF MarketFrame
    <2>4. CASE ComplianceStep /\ UNCHANGED <<approvalVars, listingVars>>
      <3>1. task = "compliance" /\ call \in ComplianceCalls
        BY <2>1, <2>4, StepsAreOwn DEF Attends, Idle
      <3> QED BY <2>4, <3>1, ComplianceStepIsSound, NothingChanges DEF ComplianceFrame
    <2> QED BY <1>1, <2>2, <2>3, <2>4 DEF ServerStep
  <1>2. CASE Caller
    <2>1. CASE task = "approvals" /\ ApprovalCall /\ UNCHANGED <<listingVars, complianceVars>>
      BY <2>1, ApprovalCallIsSound, NothingChanges DEF ApprovalFrame
    <2>2. CASE task = "market" /\ ListingCall /\ UNCHANGED <<approvalVars, complianceVars>>
      BY <2>2, ListingCallIsSound DEF MarketFrame
    <2>3. CASE task = "compliance" /\ ComplianceCall /\ UNCHANGED <<approvalVars, listingVars>>
      BY <2>3, ComplianceCallIsSound, NothingChanges DEF ComplianceFrame
    <2> QED BY <1>2, <2>1, <2>2, <2>3 DEF Caller
  <1>3. CASE World
    <2>1. CASE task = "approvals" /\ Review /\ UNCHANGED <<listingVars, complianceVars>>
      BY <2>1, ReviewIsSound, NothingChanges DEF ApprovalFrame
    <2>2. CASE task = "market" /\ Changed /\ UNCHANGED <<approvalVars, complianceVars>>
      BY <2>2, ChangedIsSound DEF MarketFrame
    <2>3. CASE task = "compliance" /\ Ages /\ UNCHANGED <<approvalVars, listingVars>>
      BY <2>3, AgesIsSound, NothingChanges DEF ComplianceFrame
    <2> QED BY <1>3, <2>1, <2>2, <2>3 DEF World
  <1> QED BY <1>1, <1>2, <1>3 DEF Next

LEMMA InvStutters ==
  ASSUME Inv, UNCHANGED vars
  PROVE  Inv'
  <1>1. /\ UNCHANGED <<task, call, said, calls, trouble, moves>>
        /\ UNCHANGED approvalVars /\ UNCHANGED listingVars /\ UNCHANGED complianceVars
    BY DEF vars, errand
  <1>2. Ledger' /\ Bears(call)'
    BY <1>1, LedgerStays DEF Inv, ApprovalSound, Bears, Asked, approvalVars, Propose
  <1>3. ErrandTypeOK' /\ Attends'
    BY <1>1 DEF Inv, ErrandTypeOK, Attends
  <1>4. ListingSound'
    BY <1>1 DEF Inv, ListingSound, ListingTypeOK, Assured, There, listingVars
  <1>5. ComplianceSound'
    BY <1>1 DEF Inv, ComplianceSound, ComplianceTypeOK, Finds, Current, complianceVars
  <1>6. SaidSound'
    BY <1>1 DEF Inv, SaidSound, Telling, Idle, listingVars
  <1> QED BY <1>2, <1>3, <1>4, <1>5, <1>6 DEF Inv, ApprovalSound

LEMMA AlwaysInv ==
  Spec => []Inv
  <1>1. Init => Inv
    BY InvInit
  <1>2. Inv /\ [Next]_vars => Inv'
    BY InvNext, InvStutters
  <1> QED BY <1>1, <1>2, PTL DEF Spec

----------------------------------------------------------------------------
(* Of what is wished for one action at most is open, besides those of which  *)
(* the caller was never told: the one its holder goes by.                    *)
LEMMA OneIsOpen ==
  ASSUME Ledger
  PROVE  ProposedOnce
  <1> SUFFICES ASSUME NEW w \in Wishes
               PROVE  Cardinality({i \in DOMAIN actions : actions[i].wish = w /\ ~Forgotten(actions[i])
                                     /\ actions[i].status \in {"PROPOSED", "APPROVED", "EXECUTED"}}) <= 1
    BY DEF ProposedOnce
  <1>1. PICK open : open = {i \in DOMAIN actions : actions[i].wish = w /\ ~Forgotten(actions[i])
                                                     /\ actions[i].status \in {"PROPOSED", "APPROVED", "EXECUTED"}}
    OBVIOUS
  <1>2. ASSUME NEW i \in Asked, ~Forgotten(actions[i])
        PROVE  actions[i].stray = "no"
    <2>1. actions[i].stray \in {"no", "untold", "lost"} /\ (actions[i].stray = "untold" => actions[i].needs = "no")
      BY ActionIs DEF Action, Ledger
    <2> QED BY <1>2, <2>1 DEF Forgotten
  <1>3. \A i \in open : i \in Asked /\ actions[i].wish = w /\ Open(actions[i])
    BY <1>1, <1>2 DEF Ledger, Asked, Open, Pends
  <1>4. open \subseteq {plan[w]}
    BY <1>3 DEF Ledger
  <1>5. IsFiniteSet({plan[w]}) /\ Cardinality({plan[w]}) = 1
    BY FS_Singleton
  <1>6. Cardinality(open) <= 1
    BY <1>4, <1>5, FS_Subset
  <1> QED BY <1>1, <1>6

LEMMA InvKeepsApprovals ==
  ASSUME Inv
  PROVE  ApprovalInv
  <1>1. Ledger /\ ErrandTypeOK
    BY DEF Inv, ApprovalSound
  <1>2. actions \in Seq(Action) /\ DOMAIN actions = Asked
    BY <1>1 DEF Ledger, Asked
  <1>3. ApprovalTypeOK
    <2>1. \A i \in DOMAIN actions :
            /\ actions[i].wish \in Wishes /\ actions[i].by \in {"nobody", "person"}
            /\ actions[i].status \in {"PROPOSED", "APPROVED", "REJECTED", "EXECUTED", "FAILED", "EXPIRED"}
            /\ actions[i].stray \in {"no", "untold", "lost"}
      BY <1>1, <1>2, ActionIs DEF Action
    <2> QED BY <1>1, <1>2, <2>1 DEF ApprovalTypeOK, Ledger
  <1>4. WiredIsApproved
    <2> SUFFICES ASSUME NEW w \in code
                 PROVE  \E i \in DOMAIN actions :
                          /\ actions[i].wish = w /\ actions[i].status = "EXECUTED"
                          /\ actions[i].needs = "yes" => actions[i].by = "person"
                          /\ w[2] = "analytics.enable" => actions[i].key = "publishable"
      BY DEF WiredIsApproved
    <2>1. PICK i \in Asked : Warrants(actions[i], w)
      BY <1>1 DEF Ledger
    <2> QED BY <1>2, <2>1 DEF Warrants
  <1> QED BY <1>1, <1>3, <1>4, OneIsOpen DEF ApprovalInv

LEMMA InvKeepsCompliance ==
  ASSUME Inv
  PROVE  ComplianceInv
  <1>1. ComplianceTypeOK /\ Telling(said) /\ Attends
    BY DEF Inv, ComplianceSound, SaidSound
  <1>2. RefusalIsExplained /\ PassIsChecked /\ CurrentWasCurrent
    BY <1>1 DEF Telling, RefusalIsExplained, PassIsChecked, CurrentWasCurrent
  <1>3. CredentialsStay
    <2>1. PICK c : c = call
      OBVIOUS
    <2>2. c = NoCall => c.tool = "none"
      BY DEF NoCall
    <2>3. c \in ApprovalCalls => c.tool # "scan"
      BY DEF ApprovalCalls, Requests, Executes, Statuses, Wires
    <2>4. c \in ListingCalls => c.tool # "scan"
      BY DEF ListingCalls, Reads, Drafts, Advances, Prices, Visibilities, Sellers
    <2>5. c.tool = "scan" => c \in Scans
      BY <1>1, <2>1, <2>2, <2>3, <2>4, LookIs DEF Attends
    <2>6. "credential" \notin {r.nature : r \in Read}
      BY DEF Read
    <2> QED BY <2>1, <2>5, <2>6 DEF Scans, CredentialsStay
  <1> QED BY <1>1, <1>2, <1>3 DEF ComplianceInv

(* Whatever is wished, called, lost and done in Studio meanwhile, code is    *)
(* wired only for an action that was executed for this application, by a     *)
(* person where policy asks for one, with a publishable key; and who does as *)
(* the instructions say has one open action for each wish, besides those it  *)
(* was never told of: proposals whose answer was lost, and what a wiring     *)
(* tool proposed and ran without an approval before it threw.                *)
(* executeAction and approvalInstructions in actions.ts, advance in wire.ts. *)
THEOREM NothingUnapproved ==
  Spec => []ApprovalInv
  <1>1. Inv => ApprovalInv
    BY InvKeepsApprovals
  <1> QED BY <1>1, AlwaysInv, PTL

(* However many files are asked for, and however a file of credentials is    *)
(* named, it is not sent; a scan passes only if all that was asked for was   *)
(* looked at, but for what git ignores and what a walk passes over without a *)
(* word; a refused assessment lists its required control, or names it if it  *)
(* does not apply; and a record is called current only if it was when the    *)
(* call began, in whatever order the answers come.                           *)
(* addFile, scanVerdict, summarizeAssessment and getEvidenceRecord in        *)
(* compliance.ts.                                                            *)
THEOREM WhatIsSaidWasLookedAt ==
  Spec => []ComplianceInv
  <1>1. Inv => ComplianceInv
    BY InvKeepsCompliance
  <1> QED BY <1>1, AlwaysInv, PTL

(* No step offers a solution, opens a seller's account or changes the price  *)
(* of what was published when it was read without a confirmation, whatever   *)
(* others do to the listing between its reading and the request; a listing   *)
(* that others publish in between is not covered.  What is said of a         *)
(* listing's being installable is so.  The tools of solution-publish.ts.     *)
THEOREM NothingUnconfirmed ==
  Spec => ListingsHold
  <1>1. Inv /\ Inv' /\ [Next]_vars =>
          [OfferedIsConfirmed /\ RepricedIsConfirmed /\ InstallableIsTrue' /\ ListingTypeOK']_<<errand, listingVars>>
    <2> SUFFICES ASSUME Inv, Inv', [Next]_vars
                 PROVE  \/ OfferedIsConfirmed /\ RepricedIsConfirmed /\ InstallableIsTrue' /\ ListingTypeOK'
                        \/ UNCHANGED <<errand, listingVars>>
      OBVIOUS
    <2>1. CASE Next
      <3>1. OfferedIsConfirmed /\ RepricedIsConfirmed
        BY <2>1, InvNext DEF Confirmed
      <3>2. ListingTypeOK' /\ InstallableIsTrue'
        BY DEF Inv, ListingSound, SaidSound, Telling, InstallableIsTrue
      <3> QED BY <3>1, <3>2
    <2>2. CASE UNCHANGED vars
      BY <2>2 DEF vars
    <2> QED BY <2>1, <2>2
  <1> QED BY <1>1, AlwaysInv, PTL DEF Spec, ListingsHold
=============================================================================
