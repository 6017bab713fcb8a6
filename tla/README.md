# Verification of the Swfte MCP server

TLA+ models of the Swfte MCP server (`src/`), the TLC runs that check them and
TLAPS proofs about them. The server is a TypeScript program that gives a coding
agent tools over the Swfte platform: it builds, wires and publishes artifacts
there, bakes clients for them into the developer's repository, and can be hosted
over HTTP behind OAuth. The platform itself is not in this repository; it is
modelled, and marked external, from the way the code calls it.

Paths below are relative to `src/src` unless they start with `api/` or `docs/`.

## The system

| Component | State | Operations | What is hard | What makes it correct |
|---|---|---|---|---|
| Token verification and revocation (`oauth.ts`) | per process: a Map of verified tokens, in insertion order, with an end of validity | `verifyAccessToken`, `revokeToken` | requests interleave at every await; platform tokens die by themselves; lost answers and retries | the map is bounded; a dead token is accepted for a bounded time; revocation kills the presented token and no other |
| Authorization-code flow (`oauth.ts`) | pending authorizations and codes, sealed into self-contained strings or kept in maps | `authorize`, `handleCallback`, `exchangeAuthorizationCode`, `registerClient` | the three legs run in different processes, repeat and expire | a code is used by the client and verifier it was issued for, in its lifetime |
| HTTP client (`client.ts`) | none between calls | `request` (retries), `requestOnce` (abort timer), `pollUntil`, `paginate`, `mergePut`, `withDeadline` | a call that was given up may take effect later; PUT is retried | deadlines end loops; only what may be repeated is repeated |
| Orchestrator (`orchestrator.ts`) | locals of one run: order, ids, outcomes, wire results, inputs | build pass, wire pass, input pass, review pass, verdict | partial failure, two nested deadlines, other users changing what was confirmed | dependencies first; nothing on a failed dependency; whatever was left behind is named; READY means live |
| Build order (`orchestrator.ts`) | the order so far | `orderComponents` | cycles, repeated keys | dependencies precede; exactly what hangs on a cycle is left out |
| Wiring (`wiring.ts`) | none; each wire is a field of an artifact on the platform | `writeWire` with its writers and readers | read-modify-write of a record others write too | a wire reported connected was seen in the record |
| Knowledge build (`knowledge.ts`) | locals: uploaded files, attached documents, checks | `buildKnowledge` | asynchronous ingestion, a deadline, partial uploads | what is reported as ready can be retrieved |
| Solution analysis (`solution.ts`) | none | `mapSolution`, `verifySolution`, `diffSolution` | reads of live state, one by one | no check passes on something that was not read |
| Confined writes (`fsguard.ts`) | planned files of one operation, then the project's files | `create`, `createBytes`, `mergeEnv`, `mergeJson`, `commit` | the developer and a second run change files between plan and commit; a crash inside commit | a refusal leaves the tree untouched; nothing of the developer's is overwritten unasked |
| Lock file (`lock.ts`) | `swfte.json` | `loadLock`, `migrateLock`, `upsertArtifact`, `planLockWrite` | two runs rewrite it; old versions | one entry per alias and language; entries of others survive |
| Baked clients (`bake.ts`, `tools/scaffold.ts`) | the lock, the generated files, the artifact's published versions | `bakeArtifact`, `verifyProject`, `syncProject`, `upgradeAlias` | the artifact is re-published, re-priced or withdrawn between two reads | no pin moves over an approval gate; verify and sync agree |
| Streamable HTTP (`http.ts`, `api/index.ts`) | one transport and server per request | POST, GET, DELETE handlers, 401 gate | bodies that end early, cancelled streams | each transport is closed once, whatever ends it |
| Approval-gated actions (`actions.ts`, `tools/wire.ts`, `tools/ship.ts`, `tools/hub.ts`) | an ActionRequest on the platform | propose, execute after approval, write the code side | the human decides between two calls; requests expire | nothing is executed that was not approved |
| Publishing (`tools/solution-publish.ts`) | a marketplace listing on the platform | create, price, visibility, submit, publish | read-then-PUT on a listing that moves | no transition outside of the lifecycle |
| Compliance (`compliance.ts`, `tools/compliance.ts`) | none | assess, scan, verify a record | incomplete scans, files left out, two checks of a record at once | what was not checked is never reported as passed, and a dead record never as current |
| Preflight (`preflight.ts`, `preflight/`, `tools/preflight.ts`) | none; a snapshot per call | derive a manifest, read the solution, run the rules, publish on a pass | reads one at a time while people edit; requests that fail; a walk with a ceiling | a mistake that was there all along is reported, a clean solution passes |
| Decision import (`nexus-ingest.ts`) | none | read, bound and preview local decision files | files that change or exceed every limit | limits hold for every input |
| Mock server (`devserver.ts`), catalog client (`catalog.ts`), generator (`codegen.ts`, `adapters.ts`, `stack.ts`) | none | example answers; reads and a contract hash; text from schemas | – | output is a function of the input |
| Kinds and build sessions (`kinds/`, `tools/ship.ts`) | none; sessions, artifacts, executions and deployments are on the platform | build, poll, steer, refine, create, run, deploy, tear down, verify | sessions are swept and expire; answers get lost after something was stored or started | one artifact per description, one execution per call, reports that are so |
| Tool registry (`server.ts`, `tools/index.ts`), one-call tools (`tools/`) | none | dispatch; one request and its formatting | – | – |
| Configuration, hosts, guidance, mapping, CLI | none | pure functions of their input | – | – |

The orchestrator calls the client, the kinds' sessions, the wiring and the
solution review; the tools of `tools/` call everything; `bake.ts` calls the
catalog, the generator, the lock file and the confined writer; the HTTP endpoint
calls the OAuth provider before it reaches a tool. Nothing is shared between two
requests inside a process except the OAuth provider's maps. Everything else that
can interfere does so through the platform or through the project's files.

## Modules

| Module | Stands for |
|---|---|
| `TokenVerification` | `verifyAccessToken` and `revokeToken` on any number of instances |
| `TokenVerificationProofs` | its properties, proved |
| `OAuthFlow` | registration, login, callback and code exchange of `oauth.ts` |
| `HostedServer` | `http.ts` and `api/index.ts` in front of `OAuthFlow` |
| `HostedServerProofs` | logins are sound and requests are apart, proved |
| `SolutionPlan` | plans, their wires and dependencies, and the build order as a recursive function |
| `BuildOrder` | `orderComponents`, one look at one key per step |
| `BuildOrderProofs` | dependencies come first and what is left out hangs on a cycle, proved |
| `DependencyBuild` | what a build pass promises, whatever the calls |
| `SolutionBuild` | `orchestrateSolution`, refining `DependencyBuild` |
| `SolutionBuildProofs` | its invariants and the refinement, proved |
| `Platform` | artifacts that exist, and how a call of `client.ts` can end |
| `WireWrite` | `writeWire`, `mergePut` and `swfte_agent_ground`, several calls at a time |
| `KnowledgeBuild` | `buildKnowledge` |
| `Grounding` | `KnowledgeBuild` and then `WireWrite` on one `Platform` |
| `GroundingProofs` | its invariants and what may go lost, proved |
| `PreflightRules` | the rules of `preflight/lib/rules.mjs` over one snapshot |
| `PreflightSolution` | the solution preflight's controls use, and the mistakes to notice |
| `Preflight` | manifest, snapshot, rules, gate and publish, against edits and failures |
| `Studio` | one artifact and a caller, shared by the next three |
| `BuildSession` | `swfte_build` … `swfte_create` over the wizards' sessions |
| `Execution` | `swfte_run` for every kind, and the connection check before it |
| `Deployment` | `swfte_deploy`: preview, gates, deployment, teardown |
| `Shipping` | the three together, and `swfte_verify` |
| `ShippingProofs` | what is stored, run, deployed and verified, proved |
| `BakedClient` | add, sync, upgrade and verify over `swfte.json` and the generated files, by several runs |
| `BakedClientProofs` | types, pins, gates, the order of writes and what verify and sync report, proved |
| `Errand` | a caller of tools one at a time, shared by the next three |
| `Approvals` | action requests, and the wiring of an application that follows one |
| `Listings` | the marketplace listing under `tools/solution-publish.ts` |
| `Compliance` | assessment, scan and evidence record |
| `Delivery` | the three together |
| `DeliveryProofs` | approvals, listings and compliance, proved |
| `MC…` | instances of these for TLC |

How they compose: `TokenVerification`, `BuildOrder` and `BakedClient` stand alone;
`HostedServer` extends `OAuthFlow`; `SolutionBuild` starts from the order of
`SolutionPlan`, which `BuildOrder` computes step by step, and implements
`DependencyBuild`; `Grounding`, `Shipping` and `Delivery` join components that share
state on the platform, as conjunctions of one component's step and the others'
`UNCHANGED`.

### `TokenVerification`

`now` is the clock. `live` and `diedAt` are agents-service, the only authority on
tokens; `cache[i]` is the `verified` map of instance `i` as a sequence of entries,
because eviction follows insertion order; `req[h]` is a request in progress: its
`pc` says at which await it stands and the other fields are its locals. One
action stands for the code between two awaits: `VerifyMiss` up to the call of
`/v2/auth/me`, `IdentityAnswered`, `IdentityFailed` and `IdentityRetried` for the
client beneath it (`request` with `retries: 1`, and no retry after a status that
says it is of no use; `requestOnce`: a timeout), `VerifyDone` for everything after the await,
`RevokeStart`, `RevokeListed`, `RevokeDeleted`, `RevokeDone` for `revokeToken`.
The answer is produced at agents-service in one step and processed in another, so
that a token can die between the two. `Tick` stops at the deadline of a request
in progress: the abort timer fires, no answer is later than that. `revoked` is a
history variable: what `revokeToken` told the user, and whether an answer about
the token was in flight on that instance at that moment.

### `SolutionPlan`, `BuildOrder`, `DependencyBuild`, `SolutionBuild`

A plan is a record of components and wires, as in the source, with the data of a
component cut down to what decides the control flow: whether it exists already
(`given`), how its kind is made (`maker`) and whether it is an entry point.
`BuildOrder` is `orderComponents` one look at one key at a time; `SolutionPlan`
has the same sort as a recursive function, and `SolutionBuild` starts from it.

`SolutionBuild` is one run of `orchestrateSolution`. `pc` is the pass, `pos` the
component or wire it is at, `step` the call it waits for. `outcome`, `ids`,
`wired`, `inputs` and `review` are the locals that the report is made of. The
platform is external: `session`, `stored`, `content`, `linked`. A request goes
into `sent` when it is made and takes effect by `TakesEffect` at any time
afterwards, or never; the run goes on with an answer, an error or a timeout
whatever became of the request. A generation goes on by itself (`Generates`), and
other users interfere (`SomeoneEdits`). The two nested deadlines of the client
are the set `late`: a deadline passes at any time, and the guards ask where the
code asks (`remainingMs`, `assertDeadline`).

`DependencyBuild` says what the build pass promises and nothing about how:
work begins once per component and only when everything it needs can be referred
to. `SolutionBuild` implements it under the mapping at `Promise`.

### `BakedClient`

`lock` is `swfte.json`, one entry per alias; all aliases are of one workflow.
`client` is the file at each alias and directory. `latest` and `published` are
the workflow on the platform: the version the catalog's contract describes and
the versions that can be called by number. A contract is its hash; `Gated` and
`Breaking` are the hashes that ask for more capabilities or break callers of the
hash before. `Hash` may give two versions one hash, because the hash leaves the
version out.

A run (`run[r]`) reads `swfte.json` at `Start`, asks for verdicts in `Asked`, for
the contract in `Fetched`, goes through the entries in `Look` and
`SyncPinned` or `SyncLatest` (or `AddPlanned`), checks in `Prechecked` that no file it is to
create has appeared, and writes one file per `WriteFile`, `swfte.json` last in
`WriteLock`. `Start` with `verify` holds `checkLocal`, `PinChecked` the lookup of
a pinned version. Between any two of these the workflow's owner publishes,
releases or withdraws a version, the developer edits, deletes or creates a file,
another run takes its steps, or the process dies, with a file truncated or not.

`Look` reads the file at an entry's path before the calls that follow, and
`SyncPinned` or `SyncLatest` decides on what it found after them. Adapters and `.env.example`
are not modelled (the plain frameworks have no adapter), nor are other kinds than
workflows, which are never pinned, nor a workflow that is deleted.

`steady` is a history variable: the runs since whose start nothing but
themselves has changed anything. Some properties speak of these only; each says
so.

### `OAuthFlow`, `HostedServer`

Nothing is kept between two requests of a login: a client id, the state of a login and
an authorization code are sealed envelopes that carry their contents, so the state is
what has been handed out: `id`, `started`, `upstream` (one-time codes of
agents-service, with the login that led to each), `codes`, `post` (token requests in
progress) and `granted`, a history of the tokens given. A callback can be reloaded and
a code presented by anybody who has it, late, or after `Rotate` has changed the signing
secret. `Redeemed`, `NotRedeemed` and `TokenAnswered` are the exchange with its failures.

A callback takes the state of any login with any one-time code that was issued, since
`handleCallback` does not ask whether they belong together: that is left to agents-service.

`HostedServer` adds `built`, the memo of a deployment, and `mcp`, one record per request:
gate, connect, handle, body, release. `ToolAnswers` comes at any time after the handler
has returned, `BodyCancelled` as well: the order in which `http.ts` closes the transport
is what the properties are about.

### `Platform`, `WireWrite`, `KnowledgeBuild`, `Grounding`

A call ends answered, refused for good, or with unknown effect; in the last case its
effect may still `Land`. A record is what its effective fields refer to and an edition
that stands for all the rest, so that an overwritten edit shows. A wiring call reads
its target, the list, the whole record again in `mergePut`, writes the whole of it and
reads back; `Again` is the retry rule of the client. `met` and `first` are history
variables: what the record has held since the call began, and when it began.

`KnowledgeBuild` has the documents one at a time through upload, confirmation and
attachment; `Index` is the platform's, which calls a document COMPLETED with nothing
in it. `Grounding` lets a build's dataset become the target of `swfte_agent_ground`.

Nothing is deleted on the platform in these modules, and persons edit records without
removing a link; `swfte_agent_ground` does not check that its dataset exists.

### `PreflightRules`, `PreflightSolution`, `Preflight`

A workflow's nodes keep what the rules tell apart: a template token is the path it
names, code is what it returns and what it reaches for, a table is its name and row
count. `PreflightSolution` is the solution of `preflight/fixture.mjs` and the mistakes of
`preflight/mutation.mjs`, by the rule that has to notice them. `Preflight` is one call:
the manifest is written by hand or derived (`probeKind`, `walkLive`, `finish`), the
records and lists are read, `Judge` runs the rules, `Post` publishes. `since` is a
history variable: the mistakes that have been there since the call began.

`Hides` and `Noted` say where a mistake is not reported: another one takes away what it is
recognised by; or the result itself says that something was skipped, unread or cut off.
Where neither holds nothing is said at all, although the repository says that something
would be: `InputLost`, where a rule lost its input, and `BranchIdle`, where a spec leaves
a branch of a rule idle. `VerdictInv` excepts these two, and no more (under Findings).

### `Studio`, `BuildSession`, `Execution`, `Deployment`, `Shipping`

`Studio` has one artifact of some kind: `stored` counts how often it has been stored,
`flaws` is what is wrong with it, `known` is what the caller knows. `call` is the tool call
in progress, `said` what the last one returned, and the caller acts on nothing else.
`BuildSession` has the wizards' sessions, which the platform sweeps and lets expire;
`unseen` and `lapses` count what may have been stored without anybody being told.
`Execution` has the routes of a run, of which each kind takes its own, the poll and its
deadline; `started` counts what was really started and `shed` the answers after which the code starts
again: of a platform that is overloaded, to an agent's turn, and a 409 to the first look at
an execution of the record, which is taken for "not published". `Deployment` has the two routes of a workflow's deployment, the
widget's three requests, and others who deploy, tear down and pause. `Verify` in
`Shipping` is each kind's `verify`: the record, what more is asked, and a run.

### `Errand`, `Approvals`, `Listings`, `Compliance`, `Delivery`

A caller uses the tools one at a time and follows the instructions they return (`plan`,
`Heeds`). `actions` is the queue in Studio; people approve, reject, let expire and run
actions at any time (`Review`). The caller knows of an action what a tool has returned of
it: `stray` says of each that it was told, that the answer to its proposal was lost, or that
a wiring tool proposed it and has not returned (`Tells`). A wiring tool whose action needs
no approval executes it at once; what it throws after that (`OverwriteRefusedError`, an
execution that timed out) names no action, and the caller's next call proposes another. A listing is its status, its visibility, its price and
which field carries the solution; `Changed` is another session or the audit. A scan is
asked for files by their nature (one that holds something, a link, an unreadable one, a
directory that cannot be listed or whose name is skipped, credentials, …) and for a snippet,
with limits that files on disk and files in the call have each for themselves; `missed` says
how what holds a finding went unread. A control passes, passes in part, fails, is not
available or does not apply, which `summarizeAssessment` puts in no list. A record can be altered, revoked, past its date or
of an earlier version, and becomes so while it is verified (`Ages`).

## Runs

| Run | Instance | What it shows |
|---|---|---|
| `TokenVerification` | 2 tokens of one prefix, 1 instance, 2 requests, room for 1 entry, TTL 1, flight 1, a second of 3 ticks, clock to 3 | the cache is bounded; a dead token is accepted for at most TTL and one flight; what is served is not expired; a revocation reported as done holds and kills no other token; every request ends |
| `TokenRevokedIsDropped` | 1 token | finding: a verification in flight puts a revoked token back |
| `BuildOrder` | every relation over 3 and 4 components, and a plan that uses a key twice | dependencies first; what is left out is what hangs on a cycle; the sort returns |
| `SolutionBuild` | six plans of one to three components, with another user at work on the two smaller ones | nothing on a failed dependency; what is left behind is named, but for what was never told or has no id; READY is live, but for placeholders that the review does not look for; the abstract build; every run reports |
| `BakedClient` | 1 alias, 3 versions (one gated, one breaking): a developer alone with every command, every failure and 4 changes; or two runs that are alike (`Twins`) and 2 changes | what verify and sync report is so; gates, pins, edits and types hold; files before the lock |
| `BakedGateRace` | the same, one run, no failures | finding: a verdict used for another version |
| `HostedServer` | 2 installs, 2 redirect URIs of which 1 is usable, 2 logins, 1 one-time code, 2 signing secrets, clock to 2; 2 MCP requests | tokens go where a login began, in time; requests work under their own token, are answered whole and release their transport |
| `Grounding` | 10 artifacts, 11 jobs, 2 calls, 1 edit; documents of 4 lists | what a wire or a build reports is so, nothing dangles, only an overlap loses anything, every call reports |
| `Preflight` | a solution with none, one or two of the mistakes, 6 ways to come by a manifest or to skip the gate, 2 ceilings, 2 edits or failures | a mistake that was there all along is reported or the result says where it may have been missed, but for two cases (under Findings); a clean solution passes; the call ends |
| `PreflightFetchFails` | the same | finding: a failed fetch passes |
| `Shipping` | all eight kinds: five calls from a description to an artifact, or one call on an artifact with any one flaw | stored once, started once, deployed through the gate, and reported as it went |
| `Delivery` | three calls for approvals, two for the marketplace, one for compliance | nothing unapproved or unconfirmed, nobody asked twice that could be told, no pass but for what git ignores and walks pass over, no current record that is not one |

An invariant that ends in `Inv` is the conjunction of a component's type invariant and
of the named parts that stand before it in its module, each with its own comment;
`NothingUnasked`, `DeploysHold` and `ListingsHold` are the conjunctions of what a step
may not do. Each part that is about behaviour has a mutant of its own.

**Bounds, and why they are enough.** `Capacity` 1 makes every second
verification evict; with two requests any two tokens race for the room. A TTL of
1, a flight of 1 and a clock to 3 let an entry be cached, die, expire and be
refreshed by an answer that was slow; the theorem on staleness has no bound. A
second of 3 ticks makes TTL no multiple of it, where rounding matters. One prefix for
both tokens is the case in which the rows of `revokeToken` cannot be told apart.

The plans of `SolutionBuild` have a chain of three, two wires contending for one
field, wires that no writer can carry, a cycle; a longer chain repeats the step
of a chain of three. `MaxEdits` bounds other users, and is a function of the plan: 1 for
the two smaller ones, where every defect is possible, 0 for the others.

`Straight` has three versions so that a gate and a breaking change lie between different
pairs of them and a run can be two behind; `MaxChanges` 4 leaves two changes of files
after two publishes. Two runs are what the races on `swfte.json` need; both may give the
same commands, so TLC counts states that differ in who is who once (symmetry is sound here: the
run checks no liveness). `Tasks` says which:
"alone", "together", and "raced" for the finding; the other constants are functions of it.

In `HostedServer`, two logins and one one-time code: the callback comes with the state of
either, is reloaded, and gives codes that two installs present before and after a new
secret; the clock passes both lifetimes.
`Overlap` FALSE looks at logins and at MCP requests one after the other: they share
`built` and nothing else. In `Grounding`, `Overlap` and `Apart` FALSE keep a build apart from
the wires (they meet in the dataset) and two calls to one record, where alone they can
interfere. Two calls are a lost update; one edit is a third writer.

`Preflight`: the second of two mistakes is one of the six that take something away from
other rules or stop a rule; the ceilings 4 and 7 cut the walk in the middle and not
at all. `MaxTrouble` 2 and `MaxLost` 1 are an edit and a lost request in
either order. `Shipping` and `Delivery` give their bounds by task: five calls are build,
status, steer, refine and create; two requests in trouble lose an answer and the retry
after it. One call is enough for the tools that keep nothing between two calls, since
`Init` has every state of the artifact, its deployment and its release. In `Delivery` three
calls are propose, execute and propose again, two a look at the listing and its change;
`TotalFiles` 2, `BatchFiles` 2 and `MaxFiles` 3 make a scan with a file beyond the limit, a
batch that is answered in part, and a second request for the snippet or for a third file
that came with the call.

`CHECK_DEADLOCK FALSE` appears where the system really stops: a run that has reported, a
caller with no more calls, a `swfte.json` that a crash has truncated (every run refuses it
until the developer repairs it).

**Fairness.** `TokenVerification` assumes that each request in progress is
eventually answered or times out: the abort timer of `requestOnce` guarantees it,
and Node's event loop runs every callback that is due. Arrivals and the death of
tokens are under no obligation. `SolutionBuild` assumes that the run takes its
next step, for the same reason, and that the time budget ends; that the platform
answers or generates anything is not assumed. `BuildOrder` is a sequential loop.
`Grounding`, `Preflight` and `Shipping` assume weak fairness of the step a call in
progress takes next, an answer or a timeout alike; in `KnowledgeBuild` the clock reaches
the deadline of the wait, and no listing has to succeed. What the platform does by
itself (`Index`, `Land`, `Execute`, `DepMoves`, `SessionPlatform`) and what persons do is
never fair. `HostedServer` assumes that Node runs what is due and that a stream which is
held open is cancelled when the invocation's time is over; a tool need not answer.
`BakedClient` and `Delivery` state no liveness.

## Proofs

Proved with TLAPS, for all values of the constants under the assumptions the modules name.
Most of what is proved is not inductive by itself. Each proof therefore states an invariant
that is, proves that `Init` gives it and that every action keeps it, and derives the
properties from it. These invariants were run through TLC on the instances above before they
were proved.

**Tokens** (`TokenVerificationProofs`; `Capacity` is a positive number, TTL and flight are
numbers, a second is not zero).

- `CacheStaysBounded`, `VerifierIsTyped`: `TypeOK` and `CacheBounded` need each other, since
  `MakeRoom` deletes one entry, which is enough only because the map was within its bound.
- `StalenessIsBounded`: the bound says nothing of an answer that was given while the token
  lived and is processed after its death. `Freshness` does: an entry outlives the last positive
  answer by at most TTL, and an answer in flight is at most one flight old and was positive
  only if the token lived when it was asked for.
- `ServedStaysAccepted`: an entry ends no later than the second its end is rounded up to (`Lasts`).
- `RevocationAlwaysHolds`, `NobodyElseDies`: the row that is deleted was listed alone and is
  the presented token's own (`RowIsOwn`), it is dead when the DELETE has been served
  (`RowIsDead`), and a key is cached once, so that one delete is enough (`Distinct`).

**Logins and requests** (`HostedServerProofs`; lifetimes are positive, what can fail is in a
fixed list, the bounds are numbers).

- `LoginIsSound`: a code repeats the client, challenge, redirect and expiry of the login whose
  state its callback carried (`CodesRepeat`), whichever one-time code came with it, and so do
  the requests and the tokens that come of it (`Fits`). It says for whom a login was begun;
  whose account the token is for depends on the one-time code, which the server takes as it
  comes.
- `RequestsAreApart`: from the gate on a request's server works under its own bearer token, and
  its transport is open exactly from its connection to its release (`Sound`).

**Build order** (`BuildOrderProofs`; the key lists are sequences over the keys).

- `SortIsTyped`, `OrderRespectsDeps`: `TypeOK` and `DepsPrecede` are inductive together.
- `LeftOutHangsOnACycle`: what the sort returns is what `SolutionPlan` computes, and what it
  leaves out is exactly what hangs on a cycle. `SortInv` says which pass and which look of
  `SolutionPlan` the sort has come to; a pass that places nothing settles all that follow, and a
  pass that places something makes the order longer, so there are never more of them than
  keys (`OrderFits`). The rest is about the graph at the end: `Downstream` is the least closed set
  (`DownIsClosed`, `DownIsLeast`; as many rounds as there are keys suffice, because each round
  that is not the last adds one). All that a placed key hangs on stands before it; and of the keys
  that an unplaced one hangs on, the unplaced key that hangs on the fewest waits for one that
  comes back to itself.

**The orchestrator** (`SolutionBuildProofs`; plans are lists, `MaxEdits` and `Defects` are functions
of the plan).

- `RunIsTyped`, `NothingStandsOnAFailure`, `WhatIsLeftIsNamed`, `ReadyMeansLive` from one
  invariant: the order has every key of the plan once (`OrderInv`), components are concluded one
  after the other (`PassInv`), what a run knows of a component, has asked for and what the
  platform holds of it go through one life (`KeyInv`), a wire write that was given up failed
  (`WiresInv`), and what the review read is still so but for what others changed (`ReviewInv`,
  `ReadyInv`). `WhatIsLeftIsNamed` excepts what the run was never told of and what a finished
  build stored without giving an id (`Traceable`); `ReadyMeansLive` says nothing of a
  placeholder outside of what the review scans. Both exceptions are under Findings.
- `RunKeepsThePromise`: the refinement. Every step of `SolutionBuild` is a step of `DependencyBuild`
  under the mapping `Promise`, or leaves it alone.

**Wiring and knowledge** (`GroundingProofs`; records begin with references to what there is, jobs
and document lists are what a tool accepts, the dataset is still to be made).

- `WiringReportsWhatIs`: what a call carries at each step was read, and is fit for the field it goes
  to; what it reports was in the record since it began (`CallOK`, `Told`). The same holds of the
  writes that the client has given up (`FlightOK`), which may be served long after.
- `WritersLoseOnlyOverlaps`: the action property. A body that is about to replace a record has
  everything that is in the record but for what came while some call on that record was under
  way (`Replaces`), and so has everything a call found when it began (`Found`).
- `UsableKnowledgeIsThere`: where a build is in its documents, which files were kept, and that a
  row which was read at its end is the index's still (`Reached`, `Indexed`, `Judges`).

**Baked clients** (`BakedClientProofs`; a version is published with a contract, later ones with the
same or a later one, `add` names one alias, no alias has two entries, the project has a directory).

- `ProjectIsTyped`, `PinnedTypesFit`: what a run holds is well formed by itself (`Sound`): every entry
  that is pinned has its version's contract, every file in its plan is a client of the contract the
  alias is taken to.
- `RunsDoAsAsked`: while nobody has written beside a run, what it read of `swfte.json` is what is
  there, and its plan breaks no client that `swfte.json` is not past (`Tame`).
- `LockComesLast`: if nothing else has changed, what a run will say of an entry is said by its
  client, or will be by the time it is said (`Calm`).
- `VerifyIsHonest`: while nothing else changes, a `verify` has found what is wrong locally, has still
  to ask about a pin or has noted its answer, and was told of one entry at least that nothing waits
  for it (`Checked`). The property says no more of the gates than that: of entries at several
  contracts the furthest is clear, because verdicts are kept by `catalogRef` (under Findings).
- `SyncIsFaithful`: while nothing else changes, an entry that a `sync` has still to come to is not in
  its plan, and one it has come to and will report as regenerated has one file in it, for the
  directory where its client is looked for first, which holds that client or will (`Reported`).
  This holds for any number of aliases and directories; `Targets` names every alias once
  (`TargetsFit`).

**From a description to production** (`ShippingProofs`; the bounds are numbers, the kinds are
among those that have an adapter, `None` is neither an outcome nor a word of a question).

One invariant for every kind and any number of calls, lost answers and edits. What a call holds at
each of its awaits (`Shape`) fits what the caller knows and what the wizard has come to (`Goes`).

- `OneIsStored` (`SessionInv`): that an artifact is stored once cannot be kept by a step that looks
  at the store alone, since a generation that is still running will store one more. `Books`
  therefore counts what is stored together with all that may still be stored; it is paid for by
  what was lost to the caller, but for one: the session in hand (`Mine`) or the one that may be
  begun (`Free`).
- `RunOnce` (`RunInv`): executions are counted by the requests that the call in progress has sent;
  one that may have started something is not sent again, but for the turn of an agent whose
  platform said, or seemed to say, that it is overloaded, and for a workflow whose execution
  could not be looked at for a 409, once, on the last way to run it (`Again`). `shed` counts
  both (`Starts`).
- `VerifyLooks` (`VerifiedIsSound`): while nobody edits, the findings of a verification are those of
  the defects it has read, and the checks it has still to make are what is left of the kind's
  list (`Weighs`, `Doubts`).
- `DeploysAreSo` (`DeploysHold`, an action property): a call past its gate carries the confirmation
  and what its gate saw of a workflow's record or what it saved of a widget, for as long as nobody
  has edited since it looked (`Clears`).

**Delivery** (`DeliveryProofs`; the bounds are numbers, a batch has room for a file).

- `NothingUnapproved`: of the actions that the caller was told of there is one open per wish, and
  its `plan` names it (`Ledger`); the action of a call in progress is that one, or one that the
  call has proposed and not yet told of (`Pends`), which `LedgerTells` and `LedgerNames` take
  in when the tool returns; a call that gets to executing or writing holds its action (`Bears`).
  Actions that nobody was told of are excepted, and they are of two sorts: a proposal whose
  answer was lost, and one that needs no approval, run by a wiring tool that then threw.
- `NothingUnconfirmed`: what a call on the listing has made sure of since it began (`Assured`). Of a
  price it is that a listing read as PUBLISHED was confirmed; the race with a publication after
  the read is under Findings.
- `WhatIsSaidWasLookedAt`: what a scan missed makes it incomplete, but for what git ignores and
  what a walk passes over, and what is answered of a record was so at some time of the call
  (`Finds`, `Telling`). A refusal lists its required control, or names it among what blocks where
  the control does not apply.

Lemmas about the operators are stated once: `Put`, `MakeRoom`, `Drop` (insertion-ordered maps);
`Visit`, `Pass`, `OrderOf`; `Marks` and `Field`; the batches of a scan; the answers of a request.
`BuildOrderProofs`, `SolutionBuildProofs` and `BakedClientProofs` begin with what takes the place of
induction: a set of numbers has a least one, N steps that stay in a set have
a result (`Repeated`), and two functions that start and go on alike are alike (`StayAlike`).

**Only model-checked.**

- Liveness: `RequestsEnd`, `SortReturns`, `RunReports`, and the ends of calls in `HostedServer`,
  `Grounding`, `Preflight` and `Shipping`. They rest on fairness, which the prover does not treat.
- `VerdictInv` of `Preflight`. Its main parts say that every mistake is noticed and that what is
  clean passes. Both are settled by evaluating the rules over the one solution of
  `PreflightSolution`, mistake by mistake; no constant makes that solution larger, so that a
  proof would be the enumeration that TLC does. Edits, failures and ceilings are bounded as listed.

## Findings

Each finding is a run with one property, taken from a comment or a document of the
repository, which TLC shows violated by what the code does.

| Run | What happens |
|---|---|
| `TokenRevokedIsDropped` | `revokeToken` drops the cached verification once; a verification whose positive answer is on its way caches the revoked token again for up to the TTL |
| `BakedGateRace` | a version published between verdict and contract passes the approval gate |
| `PreflightFetchFails` | the snapshot swallows a failed fetch and the gate never looks at `fetchErrors`: when the workflow's record cannot be read, every rule about its graph passes over no nodes and the workflow is published, where the comment says that a failed fetch blocks |

Disagreements of the same sort that the models contain and that no run is spent on:

- With two components under one key the sort leaves `order` short and reports no cycle,
  which is taken for success (`orchestrator.ts:338`): one is never built and the run can
  report READY. A component with a blocking wire to itself is ordered
  (`orchestrator.ts:160`) and then skipped as depending on itself.
- An unresolved placeholder makes the run BROKEN (`solution.ts:886` fails the check), where
  `orchestrator.ts:575` and the tool's description (`tools/orchestrate.ts:86-87`) say
  NEEDS_INPUT.
- A build that finishes with nothing to persist, or without the id of what it stored, is
  reported with neither id nor session (`orchestrator.ts:279-303`), where a test says that
  "ordinary generation and dataset failures preserve known session and artifact IDs"
  (`test/orchestrator-deadline.test.ts:147`). `LeftBehindIsNamed` excepts it.
- A placeholder is "never shipped, always surfaced" (`orchestrator.ts:130`). The inputs pass
  drops a component whose read fails as "already reported by the review pass" (`:525`), whose
  own read succeeds and which scans less: the solution is READY over the placeholder.
  `ReadyIsLive` excepts it; in the models it is the defect "unscanned stub".
- `dryRun` counts every wire as resolvable (`orchestrator.ts:386`).
- `swfte upgrade` does not move the pin when the contract is the same (`bake.ts:810`;
  the repository's `README.md:409-410` says that it does).
- Of two adds at once one loses its entry (`lock.ts:278`; `fsguard.ts:24-25` says that
  the lock file is merged, never rewritten). `GateHolds` and `PinHolds` speak of runs beside which no other
  has written for this reason: two adds that cross can leave a client that is older than its
  entry, and a plain sync then takes it over a break that `swfte.json` is already past.
- `fetchUpgrades` keeps verdicts by `catalogRef` (`bake.ts:470`): of two aliases at
  different contracts one is judged by the other's verdict, in sync and in verify. In
  the models it is the choice in `Asked`.
- `swfte_sync` with `upgrade:true` passes no `movePin` (`tools/scaffold.ts:167`), so
  the tool cannot move a pin, "like `swfte upgrade`" notwithstanding.
- A file of the developer's at an entry's path has no marker, so the entry counts as
  missing and sync writes over it with `force` (`bake.ts:898-900`, "replacing it is not an
  overwrite of user work"). `EditKept` therefore speaks of such files under `add` only.
- An alias added into a second directory keeps its first client in `files`; `checkLocal`
  compares only the first one it finds (`bake.ts:531`).
- `knowledge.ts` says that a document is "not attached until confirmed" and that a dataset
  is ready when it "answers a retrieval probe"; a probe that could not run is no reason
  against it, and a file whose confirmation says nothing of it is attached.
- A run's traces or a dataset's documents that could not be fetched count as none: the rule
  neither skips nor is the failure recorded (`preflight/lib/snapshot.mjs:61`, `:90`), where
  lines 8-9 say that it skips and that skips are printed. A manifest from a spec declares no
  tables, so that the "not declared" branch of DT-TABLE-NAME never runs and `unexercised` does
  not name it (`preflight/derive.mjs:400`), where line 398 says that idle branches are
  printed. In the models these are `InputLost` and `BranchIdle`.
- A manifest that `swfte_publish` derives expects the workflow live, so WF-PUBLISHED blocks
  the first publish of a clean draft; `tools/guidance.ts:73` knows the condition.
- "Never auto-retry a start: a duplicate here means two real executions"
  (`kinds/workflow.ts:179`): a 409 that answers the poll on the execute route is caught as
  "not published" (`:358`) and a test run is started besides. Whether the platform ever
  answers a poll so is not to be seen in this repository.
- A wiring tool that proposes an action, executes it and then throws names no action, and
  `OverwriteRefusedError` says to call again with force:true (`fsguard.ts:561-570`), which
  proposes and executes a second one. `swfte_get_action_status` without an id lists actions;
  nothing tells the caller to look there, and that call is not modelled.
- A caller that is refused with 410 by a wiring tool is told to call again and to propose
  again (`tools/wire.ts:69` reads the instruction off the action it fetched before); a FAILED
  action's 409 says to ask a human to approve it.
- `ScanReport.ok` may be true of a PARTIAL scan that is incomplete, although
  `compliance.ts:488` says that every file was checked; one unreadable file ends the scan
  with an error.
- Links that a walk meets, directories that it cannot list and those of `SKIP_DIRS` are passed
  over in silence and the scan is PASS, where `tools/compliance.ts:74-77` says that links are
  reported and that PASS means everything was checked. `PassIsChecked` excepts what git
  ignores and these.
- A listing's status is read one request before the price is put, which carries nothing to
  compare with: one that is published in between is repriced without the confirmation that
  `tools/solution-publish.ts:474-476` calls for. `RepricedIsConfirmed` excepts it.
- An assessment that is refused for a control that does not apply has it among what blocks
  and nowhere else (`compliance.ts:176-191`): no reason, no remedy.
- `swfte_solution_publish` publishes a listing even where `installability` says that there is
  nothing to install.
- The id that a chatflow has before it is built (`kinds/chatflow.ts:41-42`) is dropped by
  `tools/ship.ts:158`, so that one whose build fails may be stored all the same, and the
  caller that builds again may have two (in `BuildSession` a build that fails stores
  nothing); a stored workflow that is refined and created again may be stored twice;
  `swfte_verify` with `run` on a published workflow runs its release, not its record.
- The POST to the token exchange (`oauth.ts:757`) has no timeout and is not repeated.

## Not modelled

Rendering, parsing and wording (`codegen.ts`, `adapters.ts`, `openapi.ts`,
`embed.ts`, the reports) are functions from input to text. Tools that make one
call and format the answer keep no state; dispatch is a static table. `devserver.ts`,
`nexus-ingest.ts`, `config.ts` and `hosts.ts` are functions of files or of the environment.

Inside of the modelled parts: client metadata documents and the Express pages of
`oauth.ts`; the solution map and the drift report of `solution.ts`; path confinement,
environment and JSON merges of `fsguard.ts`; migration of old locks; adapters, fixtures
and dry runs of `bake.ts`; pagination, multipart bodies and downloads of `client.ts`;
redaction, export and history of compliance records; what `swfte_hub` proposes; the
process-wide limit of 32 sessions of an MCP server artifact, and a restart of the
process, which keeps nothing. `components` in `PROJECT.json` lists every part with its
status and reason.

What the models assume of the surroundings: a caller follows what a tool returned and
calls one tool at a time (`Shipping`, `Delivery`); an answer has the id or session it is
about, or counts as lost; one thing is wrong with an artifact at a time in `Shipping`;
a deployed release may differ from the record; the status of a workflow's deployment has
its `terminal` (the fallback to the phase is exercised by applications and models); preflight reads each record in one step;
the files of a scan come one at a time.

Hazards that no property covers: a placeholder that the review does not look for
(`orchestrator.ts:523`, above); the answer to a dataset's POST is lost, so that neither
an id nor a session is known (`orchestrator.ts:245`); verdicts are kept by `catalogRef`
(`bake.ts:470`, above); an alias in two directories (`bake.ts:531`, above); a widget whose
deployment fails stays enabled (`kinds/widget.ts:79`); the first poll of a model's deployment
may show the end of the one before (`kinds/model.ts:67`); a teardown that reached nothing is
reported as done (`tools/ship.ts:428`). For none of these does the repository promise
anything that could be violated.

## Plan

Done in this order: tokens, build order, orchestrator, baked clients; then the hosted
server, knowledge and wiring, preflight, the kinds, and what is delivered; then the proofs
above, of which `ShippingProofs` came last. What is proved covers every safety property of the
passing runs but `VerdictInv`; that one and the liveness properties stay with TLC, for the
reasons given under "Only model-checked".
