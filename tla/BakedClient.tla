----------------------------- MODULE BakedClient -----------------------------
(***************************************************************************)
(* Clients baked from one workflow into a repository (src/src/bake.ts over *)
(* lock.ts and fsguard.ts): add, sync, upgrade and verify against a        *)
(* workflow that is re-published and withdrawn meanwhile, files that the   *)
(* developer edits, and other runs on the same project.                    *)
(*                                                                         *)
(* A run reads swfte.json first, asks the platform in several calls,       *)
(* decides what to write on what it found at different times, and commits  *)
(* file after file, swfte.json last.                                       *)
(***************************************************************************)
EXTENDS Naturals, SequencesExt

CONSTANTS
  Aliases,    \* the entries swfte.json may have for the workflow, in order
  Dirs,       \* directories a client may be generated into, in path order
  Tasks,      \* what may be going on in the project
  Runs,       \* by task: runs that may be in progress at the same time
  Commands,   \* by task: what a run may be asked to do
  Hash,       \* the contract hash of every version of the workflow
  Gated,      \* hashes whose contract asks for more capabilities
  Breaking,   \* hashes whose contract breaks callers of the one before
  Failures,   \* by task: what may go wrong in a run
  MaxChanges  \* bound, by task, on what developers and the workflow's owner do

Versions == DOMAIN Hash

ASSUME HashAssumption ==
  /\ Hash \in Seq(Nat \ {0}) /\ Hash # << >>
  /\ \A v, w \in Versions : v <= w => Hash[v] <= Hash[w]

ASSUME GatesAssumption == Gated \subseteq Nat /\ Breaking \subseteq Nat

AliasSet == ToSet(Aliases)
DirSet   == ToSet(Dirs)
Paths    == AliasSet \X DirSet

Command ==
  [kind   : {"add", "sync", "verify"},
   of     : SUBSET AliasSet,      \* --alias, the aliases argument
   dir    : DirSet,               \* add: --out
   pin    : {"yes", "no"},        \* --no-pin
   force  : {"yes", "no"},        \* --force
   accept : {"yes", "no"},        \* --accept-capability-changes
   breaks : {"yes", "no"},        \* allowBreaking
   moves  : {"yes", "no"}]        \* movePin

(* add names its alias.                                                      *)
ASSUME CommandsAssumption ==
  \A t \in Tasks : /\ Commands[t] \subseteq Command
                    /\ \A c \in Commands[t] : c.kind = "add" => \E a \in AliasSet : c.of = {a}

(* No alias has two entries (dedupe, upsert: lock.ts:161-165, 271-276).      *)
ASSUME ProjectAssumption ==
  /\ Aliases \in Seq(AliasSet) /\ IsInjective(Aliases)
  /\ Dirs \in Seq(DirSet) /\ Dirs # << >>

ASSUME ChangesAssumption == \A t \in Tasks : MaxChanges[t] \in Nat

ASSUME FailuresAssumption ==
  \A t \in Tasks : Failures[t] \subseteq {"upgrades", "contract", "lookup", "unsupported", "crash"}

VARIABLES
  task,       \* what is going on in the project
  latest,     \* the version the catalog contract describes
  published,  \* the versions that can be invoked by number
  lock,       \* swfte.json: an entry per alias
  torn,       \* has a crash left swfte.json unparseable?
  client,     \* the file at the path of each alias and directory
  run,        \* the runs
  steady,     \* history: runs since whose start nothing else has changed
  changes     \* how often something else did

vars == <<task, latest, published, lock, torn, client, run, steady, changes>>

(* A file at a client's path: none, generated, of the developer's making, or *)
(* cut short by a crash.                                                     *)
File ==
  [kind : {"none", "own", "generated", "torn"}, hash : Nat, version : Nat, schema : Nat,
   edited : {"yes", "no"}]

NoFile  == [kind |-> "none", hash |-> 0, version |-> 0, schema |-> 0, edited |-> "no"]
OwnFile == [NoFile EXCEPT !.kind = "own"]
TornFile == [NoFile EXCEPT !.kind = "torn"]

(* The generated client of a contract: version 0 calls the latest publish.   *)
Rendered(hash, version, schema) ==
  [kind |-> "generated", hash |-> hash, version |-> version, schema |-> schema, edited |-> "no"]

Entry   == [hash : Nat, pin : Nat, dir : DirSet, files : SUBSET DirSet]
NoEntry == [hash |-> 0, pin |-> 0, dir |-> Dirs[1], files |-> {}]

Modes == {"create", "overwrite", "unchanged"}
Op == [at : Paths, file : File, mode : Modes]

Statuses ==
  {"none", "unchanged", "regenerated", "restored", "error", "blocked-breaking",
   "blocked-reapproval", "blocked-edited", "blocked-unvetted", "blocked-unpublished"}

Idle ==
  [pc |-> "idle", cmd |-> [kind |-> "none"], lock |-> [a \in AliasSet |-> NoEntry],
   next |-> [a \in AliasSet |-> NoEntry], todo |-> << >>, judged |-> 0, upTo |-> 0,
   seen |-> 0, have |-> NoFile, where |-> Dirs[1], ops |-> << >>, lockMode |-> "unchanged",
   status |-> [a \in AliasSet |-> "none"], found |-> {}]

TypeOK ==
  /\ task \in Tasks
  /\ latest \in Versions /\ published \subseteq 1..latest
  /\ lock \in [AliasSet -> Entry]
  /\ torn \in {"yes", "no"}
  /\ client \in [Paths -> File]
  /\ \A r \in Runs[task] :
       /\ run[r].pc \in {"idle", "ask", "fetch", "entries", "entry", "pins", "plan", "commit", "done", "failed"}
       /\ run[r].cmd \in Commands[task] \cup {[kind |-> "none"]}
       /\ run[r].lock \in [AliasSet -> Entry] /\ run[r].next \in [AliasSet -> Entry]
       /\ run[r].todo \in Seq(AliasSet)
       /\ {run[r].judged, run[r].upTo, run[r].seen} \subseteq Nat
       /\ run[r].have \in File /\ run[r].where \in DirSet
       /\ run[r].ops \in Seq(Op) /\ run[r].lockMode \in Modes
       /\ run[r].status \in [AliasSet -> Statuses]
       /\ run[r].found \subseteq {"local", "pending", "vanished", "unreachable", "unsure"}
  /\ steady \subseteq Runs[task]
  /\ changes \in 0..MaxChanges[task]

Init ==
  /\ task \in Tasks
  /\ latest = 1
  /\ published \in SUBSET {1}
  /\ lock = [a \in AliasSet |-> NoEntry]
  /\ torn = "no"
  /\ client = [p \in Paths |-> NoFile]
  /\ run = [r \in Runs[task] |-> Idle]
  /\ steady = Runs[task]
  /\ changes = 0

-----------------------------------------------------------------------------
(* What the code derives.                                                    *)

(* Does a contract of S come after hash from, up to hash to?                 *)
Crosses(S, from, to) == \E h \in S : from < h /\ h <= to

Generated(p) == client[p].kind = "generated"

(* clientFileOf: the listed files in order, then the expected path; the      *)
(* first generated one is the entry's client.                                *)
Found(a, e) == {d \in e.files \cup {e.dir} : Generated(<<a, d>>)}

ClientDir(a, e) ==
  LET listed == Found(a, e) \cap e.files
  IN  IF listed = {} THEN e.dir
      ELSE Dirs[CHOOSE n \in DOMAIN Dirs :
                  Dirs[n] \in listed /\ \A m \in 1..(n - 1) : Dirs[m] \notin listed]

Current(a, e) == IF Found(a, e) = {} THEN NoFile ELSE client[<<a, ClientDir(a, e)>>]

(* checkLocal: missing, generated for another hash, or edited.               *)
LocalProblem(l, a) ==
  LET f == Current(a, l[a])
  IN  f.kind = "none" \/ f.hash # l[a].hash \/ f.edited = "yes"

Entries(l) == {a \in AliasSet : l[a].hash # 0}

(* lookupPinnedVersion *)
Lookups(v) ==
  (IF v \in published THEN {"published"} ELSE {"not-published"})
    \cup (Failures[task] \cap {"lookup", "unsupported"})

(* ConfinedWriter.create with force: the plan for one file.                  *)
PlannedMode(p, f) ==
  IF client[p].kind = "none" THEN "create"
  ELSE IF client[p] = f THEN "unchanged" ELSE "overwrite"

Planned(p, f) == [at |-> p, file |-> f, mode |-> PlannedMode(p, f)]

(* Mutant: swfte.json is merged as an environment file is. *)
LockModeMerge(next) == IF lock = next THEN "unchanged" ELSE "merge"

(* planLockWrite: swfte.json exists from the first entry on.                 *)
LockMode(next) ==
  IF Entries(lock) = {} /\ torn = "no" THEN "create"
  ELSE IF torn = "no" /\ lock = next THEN "unchanged" ELSE "overwrite"

(* The run is over; what it reported stays.                                  *)
Over(q, pc) == [Idle EXCEPT !.pc = pc, !.cmd = q.cmd, !.status = q.status, !.found = q.found]

-----------------------------------------------------------------------------
(* A run starts: swfte.json is read before the network is used.              *)

Targets(c) ==
  LET chosen == {a \in Entries(lock) : c.kind = "verify" \/ c.of = {} \/ a \in c.of}
      upTo[n \in 0..Len(Aliases)] ==
        IF n = 0 THEN << >>
        ELSE IF Aliases[n] \in chosen THEN Append(upTo[n - 1], Aliases[n]) ELSE upTo[n - 1]
  IN  upTo[Len(Aliases)]

Start(r, c) ==
  /\ run[r].pc \in {"idle", "done", "failed"} /\ torn = "no"
  /\ c.kind # "add" => Targets(c) # << >> /\ c.of \subseteq Entries(lock)
  /\ run' = [run EXCEPT ![r] =
       [Idle EXCEPT !.pc   = IF c.kind = "add" THEN "fetch" ELSE "ask",
                    !.cmd  = c, !.lock = lock, !.next = lock,
                    !.todo = IF c.kind = "add" THEN << >> ELSE Targets(c),
                    !.found = IF c.kind = "verify" /\ \E a \in Entries(lock) : LocalProblem(lock, a)
                              THEN {"local"} ELSE {}]]
  /\ steady' = steady \cup {r}
  /\ UNCHANGED <<task, latest, published, lock, torn, client, changes>>

Go(r, fields) == run' = [run EXCEPT ![r] = fields]

(* fetchUpgrades: the answers are kept by catalogRef, so of several hashes   *)
(* that were asked about the verdict on one remains.                         *)
Asked(r) ==
  LET q == run[r]
      after == IF q.cmd.kind = "verify" THEN "pins" ELSE "fetch"
  IN  /\ q.pc = "ask"
      /\ \/ \E a \in ToSet(q.todo) :
              Go(r, [q EXCEPT !.pc = after, !.judged = q.lock[a].hash, !.upTo = Hash[latest],
                              !.found = IF q.cmd.kind = "verify"
                                           /\ Crosses(Gated \cup Breaking, q.lock[a].hash, Hash[latest])
                                        THEN @ \cup {"pending"} ELSE @])
         \/ /\ "upgrades" \in Failures[task]
            /\ Go(r, [q EXCEPT !.pc = after,
                               !.found = IF q.cmd.kind = "verify" THEN @ \cup {"unreachable"} ELSE @])
      /\ UNCHANGED <<task, latest, published, lock, torn, client, steady, changes>>

(* fetchBoth, once for the workflow.                                         *)
Fetched(r) ==
  LET q == run[r]
  IN  /\ q.pc = "fetch"
      /\ \/ Go(r, [q EXCEPT !.pc = "entries", !.seen = latest])
         \/ /\ "contract" \in Failures[task]
            /\ \/ q.cmd.kind = "add" /\ Go(r, Over(q, "failed"))
               \/ /\ q.cmd.kind = "sync"
                  /\ Go(r, Over([q EXCEPT !.status =
                                   [a \in AliasSet |-> IF Contains(q.todo, a) THEN "error" ELSE "none"]],
                                "done"))
      /\ UNCHANGED <<task, latest, published, lock, torn, client, steady, changes>>

-----------------------------------------------------------------------------
(* bakeArtifact.                                                             *)

AddRefused(r) == Go(r, Over(run[r], "failed"))

(* A generated, unedited client is regenerated; any other file needs force.  *)
Ours(p) == Generated(p) /\ client[p].edited = "no"

AddPlanned(r) ==
  LET q == run[r]
      a == CHOOSE x \in q.cmd.of : TRUE
      p == <<a, q.cmd.dir>>
      h == Hash[q.seen]
  IN  /\ q.pc = "entries" /\ q.cmd.kind = "add"
      /\ \E found \in IF q.cmd.pin = "yes" THEN Lookups(q.seen) ELSE {"unpinned"} :
           LET pin == IF found = "published" THEN q.seen ELSE 0
               f   == Rendered(h, pin, h)
               e   == [hash |-> h, pin |-> pin, dir |-> q.cmd.dir,
                       files |-> {q.cmd.dir} \cup
                                 {d \in q.lock[a].files : client[<<a, d>>].kind # "none"}]
           IN  \/ found = "lookup" /\ AddRefused(r)
               \/ /\ found # "lookup"
                  /\ client[p].kind # "none" /\ client[p] # f
                  /\ q.cmd.force = "no" /\ ~Ours(p)
                  /\ AddRefused(r)
               \/ /\ found # "lookup"
                  /\ client[p].kind = "none" \/ client[p] = f \/ q.cmd.force = "yes" \/ Ours(p)
                  /\ Go(r, [q EXCEPT !.pc = "plan", !.ops = <<Planned(p, f)>>,
                                     !.next = [@ EXCEPT ![a] = e],
                                     !.lockMode = LockMode([q.next EXCEPT ![a] = e])])
      /\ UNCHANGED <<task, latest, published, lock, torn, client, steady, changes>>

-----------------------------------------------------------------------------
(* syncProject: the entries one after another.                               *)

(* What is found at an entry's path is used after the calls that follow.     *)
Look(r) ==
  LET q == run[r]
      a == Head(q.todo)
  IN  /\ q.pc = "entries" /\ q.cmd.kind = "sync" /\ q.todo # << >>
      /\ Go(r, [q EXCEPT !.pc = "entry", !.have = Current(a, q.lock[a]), !.where = ClientDir(a, q.lock[a])])
      /\ UNCHANGED <<task, latest, published, lock, torn, client, steady, changes>>

AtEntry(r) == run[r].pc = "entry"

(* On to the next entry.                                                     *)
NextEntry(q, status) ==
  [q EXCEPT !.pc = "entries", !.todo = Tail(@), !.have = NoFile, !.where = Dirs[1],
            !.status = [@ EXCEPT ![Head(q.todo)] = status]]

Hold(r, status) == Go(r, NextEntry(run[r], status))

(* Mutant: swfte.json keeps the hash of the contract before. *)
RegenerateKeepsHash(r, f, hash, pin) ==
  LET q == run[r]
      a == Head(q.todo)
  IN  Go(r, [NextEntry(q, "regenerated") EXCEPT
               !.ops  = Append(@, Planned(<<a, q.where>>, f)),
               !.next = [@ EXCEPT ![a].pin = pin, ![a].files = @ \cup {q.where}]])

Regenerate(r, f, hash, pin) ==
  LET q == run[r]
      a == Head(q.todo)
      e == q.lock[a]
      status == IF q.have.kind = "none" THEN "restored"
                ELSE IF f # q.have \/ hash # e.hash \/ pin # e.pin
                THEN "regenerated" ELSE "unchanged"
  IN  Go(r, [NextEntry(q, status) EXCEPT
               !.ops  = Append(@, Planned(<<a, q.where>>, f)),
               !.next = [@ EXCEPT ![a] = [e EXCEPT !.hash = hash, !.pin = pin,
                                                   !.files = @ \cup {q.where}]]])

StaysPinned(r) ==
  LET e == run[r].lock[Head(run[r].todo)]
  IN  e.pin # 0 /\ (e.hash = Hash[run[r].seen] \/ run[r].cmd.moves = "no")

(* Mutant: the schemas of the latest contract stand in for the version's. *)
PinnedSchemaLatest(r, pin) == Hash[run[r].seen]

(* The schemas of a pinned version, as the lookup returns them.              *)
PinnedSchema(r, pin) == Hash[pin]

(* The client of the pinned version is restored, whatever was published.     *)
SyncPinned(r) ==
  LET q == run[r]
      a == Head(q.todo)
      e == q.lock[a]
      f == Rendered(e.hash, e.pin,
                    IF e.hash = Hash[q.seen] THEN Hash[q.seen] ELSE PinnedSchema(r, e.pin))
      have == q.have
  IN  /\ AtEntry(r) /\ StaysPinned(r)
      /\ \E found \in IF e.hash = Hash[q.seen] THEN {"published"} ELSE Lookups(e.pin) :
           \/ /\ found = "unsupported" /\ have.kind # "none" /\ have.edited = "no"
              /\ Hold(r, "unchanged")
           \/ /\ \/ found \in {"not-published", "lookup"}
                 \/ found = "unsupported" /\ (have.kind = "none" \/ have.edited = "yes")
              /\ Hold(r, "error")
           \/ found = "published" /\ have = f /\ Hold(r, "unchanged")
           \/ /\ found = "published" /\ have # f
              /\ have.edited = "yes" /\ q.cmd.force = "no"
              /\ Hold(r, "blocked-edited")
           \/ /\ found = "published" /\ have # f
              /\ have.edited = "no" \/ q.cmd.force = "yes"
              /\ Regenerate(r, f, e.hash, e.pin)
      /\ UNCHANGED <<task, latest, published, lock, torn, client, steady, changes>>

(* Mutant: without a verdict the change is taken as harmless. *)
UnvettedNever(r, e) == FALSE

(* No verdict on a contract that has moved.                                  *)
Unvetted(r, e) == e.hash # Hash[run[r].seen] /\ run[r].judged = 0

NeedsApproval(r, e) ==
  e.hash # Hash[run[r].seen] /\ Crosses(Gated, run[r].judged, run[r].upTo)

(* Mutant: only the platform's word on breaking changes is heard. *)
BreaksServerOnly(r, e, have) ==
  e.hash # Hash[run[r].seen] /\ Crosses(Breaking, run[r].judged, run[r].upTo)

(* Breaking says the platform, or the shapes of the client and the contract. *)
Breaks(r, e, have) ==
  /\ e.hash # Hash[run[r].seen]
  /\ \/ Crosses(Breaking, run[r].judged, run[r].upTo)
     \/ have.kind # "none" /\ Crosses(Breaking, have.schema, Hash[run[r].seen])

(* Mutant: edits are only looked for when the contract has moved. *)
ClobbersIfMoved(r, e, have, f) == have.edited = "yes" /\ e.hash # f.hash

Clobbers(r, e, have, f) == have.edited = "yes" /\ (e.hash # f.hash \/ have # f)

(* The client follows the latest contract; an upgrade pins its version.      *)
SyncLatest(r) ==
  LET q == run[r]
      a == Head(q.todo)
      e == q.lock[a]
      h == Hash[q.seen]
      have == q.have
      pins == e.pin # 0 \/ (q.cmd.moves = "yes" /\ q.cmd.pin = "yes")
  IN  /\ AtEntry(r) /\ ~StaysPinned(r)
      /\ \E found \in IF pins THEN Lookups(q.seen) ELSE {"unpinned"} :
           LET pin == IF found = "published" THEN q.seen ELSE 0
               f   == Rendered(h, pin, h)
           IN  \/ found = "lookup" /\ Hold(r, "error")
               \/ found \in {"not-published", "unsupported"} /\ e.pin # 0 /\ Hold(r, "blocked-unpublished")
               \/ /\ found # "lookup" /\ (e.pin # 0 => found = "published")
                  /\ \/ Unvetted(r, e) /\ Hold(r, "blocked-unvetted")
                     \/ /\ ~Unvetted(r, e)
                        /\ NeedsApproval(r, e) /\ q.cmd.accept = "no"
                        /\ Hold(r, "blocked-reapproval")
                     \/ /\ ~Unvetted(r, e) /\ (q.cmd.accept = "yes" \/ ~NeedsApproval(r, e))
                        /\ Breaks(r, e, have) /\ q.cmd.breaks = "no"
                        /\ Hold(r, "blocked-breaking")
                     \/ /\ ~Unvetted(r, e) /\ (q.cmd.accept = "yes" \/ ~NeedsApproval(r, e))
                        /\ q.cmd.breaks = "yes" \/ ~Breaks(r, e, have)
                        /\ \/ /\ Clobbers(r, e, have, f) /\ q.cmd.force = "no"
                              /\ Hold(r, "blocked-edited")
                           \/ /\ q.cmd.force = "yes" \/ ~Clobbers(r, e, have, f)
                              /\ Regenerate(r, f, h, pin)
      /\ UNCHANGED <<task, latest, published, lock, torn, client, steady, changes>>

EntriesOver(r) ==
  /\ run[r].pc = "entries" /\ run[r].cmd.kind = "sync" /\ run[r].todo = << >>
  /\ Go(r, [run[r] EXCEPT !.pc = "plan",
                          !.lockMode = IF run[r].next = run[r].lock THEN "unchanged" ELSE LockMode(run[r].next)])
  /\ UNCHANGED <<task, latest, published, lock, torn, client, steady, changes>>

-----------------------------------------------------------------------------
(* verifyProject: each pin must still be published.                          *)

PinChecked(r) ==
  LET q == run[r]
      e == q.lock[Head(q.todo)]
  IN  /\ q.pc = "pins" /\ q.todo # << >>
      /\ \E found \in IF e.pin = 0 THEN {"published"} ELSE Lookups(e.pin) :
           Go(r, [q EXCEPT !.todo = Tail(@),
                           !.found = @ \cup CASE found = "published"     -> {}
                                             [] found = "not-published" -> {"vanished"}
                                             [] found = "lookup"        -> {"unreachable"}
                                             [] found = "unsupported"   -> {"unsure"}])
      /\ UNCHANGED <<task, latest, published, lock, torn, client, steady, changes>>

PinsOver(r) ==
  /\ run[r].pc = "pins" /\ run[r].todo = << >>
  /\ Go(r, Over(run[r], "done"))
  /\ UNCHANGED <<task, latest, published, lock, torn, client, steady, changes>>

(* Mutant: what could not be checked is a warning. *)
ExitCodeLenient(found) == IF found \ {"unreachable", "unsure"} # {} THEN 1 ELSE 0

(* "unsure" is a warning only.                                               *)
ExitCode(found) ==
  IF found \ {"unreachable", "unsure"} # {} THEN 1
  ELSE IF "unreachable" \in found THEN 2 ELSE 0

-----------------------------------------------------------------------------
(* ConfinedWriter.commit: file after file, swfte.json last.                  *)

LockThere == Entries(lock) # {} \/ torn = "yes"

(* Nothing is written when a file that was to be created has appeared.       *)
Appeared(q) ==
  \/ \E n \in DOMAIN q.ops : q.ops[n].mode = "create" /\ client[q.ops[n].at].kind # "none"
  \/ q.lockMode = "create" /\ LockThere

Prechecked(r) ==
  /\ run[r].pc = "plan"
  /\ Go(r, IF Appeared(run[r]) THEN Over(run[r], "failed") ELSE [run[r] EXCEPT !.pc = "commit"])
  /\ UNCHANGED <<task, latest, published, lock, torn, client, steady, changes>>

(* Files are opened with O_EXCL or, if they were there, without O_CREAT.     *)
Opens(mode, there) == IF mode = "create" THEN ~there ELSE there

Committing(r) == run[r].pc = "commit"

WriteFile(r) ==
  LET q == run[r]
      o == Head(q.ops)
  IN  /\ Committing(r) /\ q.ops # << >>
      /\ \/ /\ o.mode = "unchanged"
            /\ Go(r, [q EXCEPT !.ops = Tail(@)])
            /\ UNCHANGED <<client, steady>>
         \/ /\ o.mode # "unchanged" /\ Opens(o.mode, client[o.at].kind # "none")
            /\ client' = [client EXCEPT ![o.at] = o.file]
            /\ Go(r, [q EXCEPT !.ops = Tail(@)])
            /\ steady' = steady \cap {r}
         \/ /\ o.mode # "unchanged" /\ ~Opens(o.mode, client[o.at].kind # "none")
            /\ Go(r, Over(q, "failed"))
            /\ UNCHANGED <<client, steady>>
      /\ UNCHANGED <<task, latest, published, lock, torn, changes>>

(* Mutant: swfte.json is written before the clients. *)
FilesWrittenEver(q) == TRUE

FilesWritten(q) == q.ops = << >>

WriteLock(r) ==
  LET q == run[r]
  IN  /\ Committing(r) /\ FilesWritten(q)
      /\ \/ /\ q.lockMode = "unchanged"
            /\ Go(r, Over(q, "done"))
            /\ UNCHANGED <<lock, torn, steady>>
         \/ /\ q.lockMode # "unchanged" /\ Opens(q.lockMode, LockThere)
            /\ lock' = q.next /\ torn' = "no"
            /\ Go(r, Over(q, "done"))
            /\ steady' = steady \cap {r}
         \/ /\ q.lockMode # "unchanged" /\ ~Opens(q.lockMode, LockThere)
            /\ Go(r, Over(q, "failed"))
            /\ UNCHANGED <<lock, torn, steady>>
      /\ UNCHANGED <<task, latest, published, client, changes>>

(* The process dies between two files, or with one truncated.                *)
Crash(r) ==
  LET q == run[r]
      o == Head(q.ops)
  IN  /\ "crash" \in Failures[task] /\ Committing(r)
      /\ Go(r, Over(q, "failed"))
      /\ steady' = {}
      /\ \/ UNCHANGED <<client, lock, torn>>
         \/ /\ q.ops # << >> /\ o.mode # "unchanged" /\ Opens(o.mode, client[o.at].kind # "none")
            /\ client' = [client EXCEPT ![o.at] = TornFile]
            /\ UNCHANGED <<lock, torn>>
         \/ /\ q.ops = << >> /\ q.lockMode # "unchanged" /\ Opens(q.lockMode, LockThere)
            /\ torn' = "yes"
            /\ UNCHANGED <<client, lock>>
      /\ UNCHANGED <<task, latest, published, changes>>

-----------------------------------------------------------------------------
(* The workflow's owner and the developer.                                   *)

Changed ==
  /\ changes < MaxChanges[task] /\ changes' = changes + 1
  /\ steady' = {}
  /\ UNCHANGED <<task, lock, torn, run>>

(* A new contract, invocable by number at once or later.                     *)
Publish ==
  /\ Changed
  /\ latest < Len(Hash) /\ latest' = latest + 1
  /\ published' \in {published, published \cup {latest + 1}}
  /\ UNCHANGED client

Release ==
  /\ Changed
  /\ \E v \in 1..latest \ published : published' = published \cup {v}
  /\ UNCHANGED <<latest, client>>

Unpublish ==
  /\ Changed
  /\ \E v \in published : published' = published \ {v}
  /\ UNCHANGED <<latest, client>>

EditClient(p) ==
  /\ Changed
  /\ client[p].kind = "generated" /\ client[p].edited = "no"
  /\ client' = [client EXCEPT ![p].edited = "yes"]
  /\ UNCHANGED <<latest, published>>

DeleteClient(p) ==
  /\ Changed
  /\ client[p].kind # "none"
  /\ client' = [client EXCEPT ![p] = NoFile]
  /\ UNCHANGED <<latest, published>>

WriteOwnFile(p) ==
  /\ Changed
  /\ client[p].kind = "none"
  /\ client' = [client EXCEPT ![p] = OwnFile]
  /\ UNCHANGED <<latest, published>>

-----------------------------------------------------------------------------

Next ==
  \/ \E r \in Runs[task] :
       \/ \E c \in Commands[task] : Start(r, c)
       \/ Asked(r) \/ Fetched(r)
       \/ AddPlanned(r)
       \/ Look(r) \/ SyncPinned(r) \/ SyncLatest(r) \/ EntriesOver(r)
       \/ PinChecked(r) \/ PinsOver(r)
       \/ Prechecked(r) \/ WriteFile(r) \/ WriteLock(r) \/ Crash(r)
  \/ Publish \/ Release \/ Unpublish
  \/ \E p \in Paths : EditClient(p) \/ DeleteClient(p) \/ WriteOwnFile(p)

Spec == Init /\ [][Next]_vars

-----------------------------------------------------------------------------
(* Properties.                                                               *)

Steady(r, kind) == r \in steady /\ run[r].pc = "done" /\ run[r].cmd.kind = kind

(* verifyProject: exit code 0, with nothing changed since it started, means  *)
(* that every client is there, unedited and generated for the contract in    *)
(* swfte.json, that its pinned version can be called (unless verify warns    *)
(* that it cannot tell) and that nothing waits for an approval or breaks     *)
(* callers.  (Of aliases at several contracts the platform's word on one     *)
(* stands for all, bake.ts:470: it then holds of the furthest at least.)     *)
VerifiedIsSound ==
  \A r \in Runs[task] : Steady(r, "verify") /\ ExitCode(run[r].found) = 0 =>
    \A a \in Entries(lock) :
      /\ ~LocalProblem(lock, a)
      /\ lock[a].pin \in published \cup {0} \/ "unsure" \in run[r].found
      /\ \/ ~Crosses(Gated \cup Breaking, lock[a].hash, Hash[latest])
         \/ \E b \in Entries(lock) : lock[b].hash > lock[a].hash

(* syncProject: an entry that is reported as regenerated or restored, with   *)
(* nothing changed since, has its client, of the contract and of the version *)
(* that swfte.json names.                                                    *)
SyncedIsClean ==
  \A r \in Runs[task], a \in AliasSet :
    Steady(r, "sync") /\ run[r].status[a] \in {"regenerated", "restored"} =>
      ~LocalProblem(lock, a) /\ Current(a, lock[a]).version = lock[a].pin

(* lookupPinnedVersion, pinContract: a client that calls a version by number *)
(* has the types of that version, however far the workflow has moved.        *)
TypesMatchPin ==
  \A p \in Paths : Generated(p) /\ client[p].version # 0 =>
    client[p].schema = Hash[client[p].version]

Writes(r)  == Committing(r) /\ run'[r] # run[r]
Commits(r) == Writes(r) /\ run'[r].pc = "done" /\ lock' # lock

(* No other run has written beside this one (lock.ts:278 loses what it did). *)
Undisturbed(r) == Runs[task] = {r} \/ r \in steady

(* syncProject: no entry is moved to another contract without a verdict, and *)
(* without acceptance to one that asks for more capabilities only if it came *)
(* after the run's question about upgrades.  (Of two aliases at different    *)
(* contracts one is judged by the other's verdict, bake.ts:470, and nothing  *)
(* is said of that one here.)                                                *)
GateHolds ==
  \A r \in Runs[task] : Undisturbed(r) /\ Commits(r) /\ run[r].cmd.kind = "sync" =>
    \A a \in Entries(lock) : lock'[a].hash # lock[a].hash =>
      /\ run[r].judged # 0
      /\ \/ run[r].cmd.accept = "yes"
         \/ run[r].judged # lock[a].hash
         \/ ~Crosses(Gated, lock[a].hash, Min({lock'[a].hash, run[r].upTo}))

(* syncProject, upgradeAlias: only add and upgrade change a pin, and a plain *)
(* sync takes a client that is there only over such breaks as swfte.json is  *)
(* past already.                                                             *)
PinHolds ==
  \A r \in Runs[task] :
    /\ Undisturbed(r) /\ Commits(r) /\ run[r].cmd.kind = "sync" /\ run[r].cmd.moves = "no" =>
         \A a \in Entries(lock) : lock'[a].pin = lock[a].pin
    /\ Undisturbed(r) /\ Writes(r) /\ run[r].cmd.kind = "sync" /\ run[r].cmd.breaks = "no" =>
         \A p \in Paths : Generated(p) /\ client'[p].kind = "generated" =>
           \A h \in Breaking : client[p].schema < h /\ h <= client'[p].schema => h <= lock[p[1]].hash

(* bakeArtifact, syncProject: an edited client is replaced only with force,  *)
(* and so is a file of the developer's that add finds in its way, unless     *)
(* something changed while the run was on.                                   *)
EditKept ==
  \A r \in Runs[task] \cap steady, p \in Paths :
    /\ Writes(r) /\ client'[p] # client[p]
    /\ client[p].edited = "yes" \/ (client[p].kind = "own" /\ run[r].cmd.kind = "add")
    => run[r].cmd.force = "yes"

(* No step of a run does what nobody asked it for: take an entry over a gate *)
(* (bake.ts:873-892), move a pin or break a client in a plain sync           *)
(* (808-893), replace an edit (315-321, 894-897).                            *)
NothingUnasked == [][GateHolds /\ PinHolds /\ EditKept]_vars

(* ConfinedWriter.commit: what swfte.json says of an entry is written when   *)
(* the entry's client already is, so that a crash leaves no entry that no    *)
(* client was ever written for.                                              *)
ClientFirst ==
  \A r \in Runs[task] \cap steady : Commits(r) =>
    \A a \in AliasSet : lock'[a] # lock[a] =>
      \E d \in lock'[a].files : client[<<a, d>>].hash = lock'[a].hash

(* No step of a run puts swfte.json ahead of the clients (fsguard.ts:526).   *)
LockFollowsClients == [][ClientFirst]_vars

-----------------------------------------------------------------------------
(* What the documentation promises and the code does not keep.               *)

(* bake.ts: "a moved contract is taken only after the server vetted it".     *)
VettedOnly ==
  \A r \in Runs[task] : Commits(r) /\ run[r].cmd.kind = "sync" /\ run[r].cmd.accept = "no" =>
    \A a \in Entries(lock) : ~Crosses(Gated, lock[a].hash, lock'[a].hash)

(* syncProject: without acceptance no entry passes an approval gate.         *)
EveryMoveIsVetted == [][VettedOnly]_vars

=============================================================================
