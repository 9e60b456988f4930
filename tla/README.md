# A TLA+ verification of bicameral-integrations

bicameral-integrations is a Python library of read-only evidence adapters. It
turns webhooks and polled rows of external tools into emissions, screens them,
and hands them to the Bicameral Bot. It is a library, not a server: threads,
processes, schedules and retries belong to the host that calls it, and most of
what can go wrong lies in how several calls, of several threads or processes,
work on the state it keeps.

The modules in this directory model that state and the calls that change it.
TLC checks the models on small instances, and TLAPS proves the main properties
for every value of the constants. `PROJECT.json` ties every definition to the
source lines it translates, lists the hazards of the code with the properties
that cover them, and names the runs, the mutants and the theorems.

Run inside this directory:

    tlc -workers 2 -config MCParts.cfg MCParts    # any run below
    tlapm GatewaySink_proofs.tla                  # any *_proofs

## 1. The system

```
  providers --webhooks--> connectors (verify, dedup, parse) --+
            --pages-----> poll / poll_graphql ----------------+--> normalize --> sink.emit --> Bot
            --issues----> GitHubIssueIngestRuntime -----------+    (screening,     (handshake,
                              |        ^                            redaction       POSTs)
                              v        |                            worker)            |
                           cursor store  <--- verdict: save, retry, quarantine <-------+
```

| component | state it keeps | operations | what is hard | what makes it correct |
|---|---|---|---|---|
| gateway sink `runtime/sinks.py` | whether the Bot's contract was verified; the loop over a batch | `emit`: screen, handshake, POST each | one emission of several fails; an answer is lost; contract and token change under way | a failure leaves an acknowledged prefix; screening is all or nothing; the verdict fits the failure |
| cursor policy `runtime/cursor_policy.py` | none | `resolve_cursor_action` | overlapping classes of failures, opaque reasons | moves for the causes it knows only, fails closed |
| GitHub ingest `protocol/.../github/ingest.py` | one cursor per repository, in a file | `ingest_webhook`, `poll_backfill`, `_emit_and_commit` | crash between POST and save; late and repeated webhooks; two pollers; stamps of one second | the watermark never passes what the Bot lacks; backfill completes |
| dedup cache `adapter/core/webhook_security.py` | buckets of delivery ids with their times | `is_duplicate`, `mark_seen` | threads, eviction, expiry, replay | evicts and expires only what it must; admits once; drops only repeats |
| webhook delivery `runtime/delivery.py`, ten connectors | none besides the cache | `deliver_webhook` | checking and marking are two steps; retries after failures | see dedup cache |
| redaction worker `adapter/core/redaction_receipt.py` | a child process, a pipe, a lock | `call`, `_spawn`, `_kill`, `_worker_loop` | threads share one pipe; the child hangs, dies or will not start; deadlines | replies reach their own callers; one child; bounded latency |
| pagination `runtime/poll_client.py`, `runtime/graphql_poll.py` | position, rows so far, caps | `poll`, `poll_graphql`, the three pagers | the listing changes under the walk; the token is the provider's word | each row once; no page twice; every walk ends |
| emission pipeline `adapter/core/{pipeline,redaction,sensitive,heuristics}.py`, `runtime/{gateway_mapping,sdk_evidence}.py` | none | `redact`, `sanitize`, `normalize`, the heuristics, the mappings | passes that work on each other's output; one bad observation among good ones; malformed signals | nothing sensitive leaves; a batch leaves whole or not at all; advisories change nothing else |
| operator configuration `runtime/{configure,config_write,local_config}.py` | `config.json`, which holds the secrets too | `configure`, `run_configure`, the gate and the resolver | read-modify-write of a shared file; a walk that ends between its two writes; placeholders | saves are lost to overlaps only; what is enabled was verified; the gate agrees with what runs |
| OAuth `runtime/{google_oauth,oauth_consent,doc_fetch}.py` | cached access token, with its deadline | `resolve`, the consent, the fetch of a document | lifetimes that are missing, short or odd | no expired token is handed out; a failure costs one call |
| provider discovery `protocol/provider_acquisition/*` | none (an opaque cursor in each call) | `list`, `get`, `fetch` of three providers and a stub | signals of one answer contradict each other; partial pages | whole and screened, or an error of the right class |
| ingest conformance `runtime/{ingest_conformance*,ingest_phase_contract,transformation_trace}.py` | checkpoints and phases of one run | trace, projection, validation, grading | phases that fail or are skipped; traces changed afterwards | a trace tells what happened; only real recordings pass |
| connectors' parsers `connectors/*/connector.py` | none | parse one row; `deliver_poll` | rows that are not what the parser expects | a row fails alone |
| mods `src/mods` | none | manifests, `run_mods`, eighteen bundled mods | a mod that writes more than it declared | every artifact keeps the manifest |
| redaction evaluation, scripts | none | offline validation | | |

The components interact by calls and by three pieces of shared state: the cursor
file (between all processes that ingest), the configuration file (between the
walks of operators) and the dedup cache (between all threads that serve
webhooks). Nothing in the library retries by itself. A
verdict (`CursorAction`) tells the host what to do with its cursor.

## 2. Modules

| module | models | composes |
|---|---|---|
| `CursorPolicy` | `resolve_cursor_action` as operators over classes of statuses and reasons | |
| `GatewaySink` | `GatewaySink.emit`, one sink per process, and what a sink can observe of the Bot | extends `CursorPolicy` |
| `GitHubProvider` | the issues listing, stamps and pages (external) | |
| `Backfill` | the abstract promise of polling: the watermark takes only covered values | extends `GitHubProvider` |
| `GitHubIngest` | `GitHubIssueIngestRuntime` in several processes | extends `GitHubProvider`, instantiates `GatewaySink` and `Backfill` |
| `DedupCache` | `DeliveryDedupCache` as operators from cache to cache | |
| `WebhookConnectors` | how the ten webhook connectors differ before the cache | |
| `WebhookDelivery` | `deliver_webhook` in several threads over one cache | extends `DedupCache` |
| `RedactionWorker` | `_WorkerManager` and `_worker_loop`: threads, lock, pipe, child | |
| `PollWalk` | `poll`, the pagers, `poll_graphql`, `deliver_poll` | |
| `Selection` | a sequence filtered or cut, said by the positions that stay | |
| `Redaction` | the sensitive catalog, the redactor's passes, the sanitizer of an observation | |
| `Heuristics` | provider signals and universal rules to advisories | |
| `EmissionPipeline` | `normalize`, the contract of emissions, envelope and SDK evidence | extends `Redaction`, `Heuristics` |
| `TransformationTrace` | checkpoints and phases of an ingest, their contract, projection and validator | extends `EmissionPipeline` |
| `ConformanceHarness` | `run_entry`, the grading of a recording | extends `EmissionPipeline`, instantiates `CursorPolicy` |
| `ProviderDiscovery` | `list`, `get`, `fetch` of GitHub, Linear, Google Drive and the stub | extends `Redaction` |
| `LocalConfig` | descriptors, the file and the environment, the gate, the resolver, OAuth tokens | |
| `ConnectorRun` | `run`: gate, resolver, builders of requests, runners | extends `LocalConfig`, `Redaction` |
| `OperatorState` | walks and saves of several processes over the two files | extends `ConnectorRun` |
| `ConnectorParse` | what each parser makes of a row, and `deliver_poll` over a batch | |
| `Mods` | manifests, the runner, the bundled mods | extends `EmissionPipeline` |
| `MCEmissionCases`, `MCProviderCases`, `MCRunCases`, `MCRowCases` | the inputs of `MCOperations`, and what is claimed of each operation | the modules above |
| `MCOperations` | one call of one operation per behaviour, and a manifest file line by line | the four cases |
| `MCParts` | the sinks, the operator's files and the operations, side by side | extends `MCGatewaySink`, `MCOperatorState`, `MCOperations` |
| `GatewaySink_proofs`, `GitHubIngest_proofs`, `WebhookDelivery_proofs`, `RedactionWorker_proofs`, `PollWalk_proofs`, `OperatorState_proofs` | theorems | the module of the name |
| `Emission_proofs` | theorems on any text, signals, batch, trace and entry of the harness | `MCEmissionCases` |
| `Operations_proofs` | theorems on any input of the other operations, and the properties of `MCOperations` | `MCOperations`, `Emission_proofs` |
| other `MC*` | instances for TLC | |

**Sink.** `phase[r]` is the place in `emit`: `Emit` covers validation, receipts
and the endpoint check, which all precede the network; the handshake and each
POST are actions of their own, so other processes, the Bot's redeployment and a
crash come between them. `Fail` is `raise GatewayEmissionError(status, reason)`.
Reasons are the classes `sinks.py` raises with, and the status of an error is
whatever the answer had, for `sinks.py` raises with any code. `PostRejected` is
the Bot's refusal of the emission, of the contract or of the token.
`PostStrayed` is a status that is not about the emission and may come whatever
is posted (`Strays`): a redirection, a route that is gone, a limit of something
on the way, a success other than 201. `PostUnanswered` is the POST whose answer
is lost. In the last two the Bot may have appended the evidence. `Return` is
the caller taking the result.

**Ingest.** `PollLoad` reads the cursor, `PollFetch` is the single request and
the call of `emit` with its rows, `Deliver` is one step of that call, `Commit`
is `save` after `emit` has returned, `GiveUp` the exception or the verdict.
`hooks` is never emptied: a webhook may arrive late, twice or never. The
provider's clock has the resolution of `updated_at`, so that several updates may
share a stamp (`SameSecond`).

**Webhooks.** `Receive` is verification and the tests before the cache,
`PassCheck` and `DropDuplicate` are `is_duplicate`, `StoreMark` is `mark_seen`
with the parse, `Emit` the rest. `marks` is a history of the calls of
`mark_seen`; `base` says how many there were when the same delivery asked.
An `OrderedDict` is a sequence of entries in its order, so "oldest" and
"newest" are positions; `Newest` is the loop of `popitem`. `Tick` does not come
between verification and marking: a tick stands for hours, the unit of
`ttl_seconds`.

**Redaction worker.** `left` counts a caller's budget down. A primitive with a
timeout (the lock, the poll, the joins) returns when its time is over, so `Tick`
waits for it (`MayPass`); `send` has none. The child's steps are separate
actions, and it may die at any of them. Requests and replies carry the caller,
which stands for the observation, so a reply read by another shows.

**Pagination.** Rows are numbers in listing order. A token names the row after
which the next page starts. The provider may answer anything: no token, a
poisoned one, one that leads back or ahead. `Truthful` says which answer is
right, and `honest` records whether all were. Rows come and go during the walk;
`kept` are those listed all the while.

**Redaction and the pipeline.** A text is a sequence of tokens, one per class of
span that the patterns tell apart, and a pass rewrites tokens in place: what a
pattern takes of a span, and what it leaves, is a token too. So the order of
the passes matters in the model as it does in the code. "hit" in other modules
is a span of letters and digits that the catalog knows. `Normalize` sanitizes,
builds, annotates and validates in the order of `pipeline.py` and gives the
first error or all emissions.

**Traces and harness.** A trace is the list of phases with the digests of what
went in and came out; digests are the values themselves. `TraceIngest` is the
whole of a conformance run; the projection onto a chain of records and its
validator follow `transformation_trace.py` test by test. `RunEntry` is the
ladder of tests of `run_entry`, each with the label the harness gives.

**Discovery.** A call is a record of what is asked and of the answers the
transport will give; the result is a value or a class of error. The three
providers differ in the order in which they look at status, error signals and
shape, and these orders are kept.

**Operator.** `OperatorState` has a process per walk (`configure`) or save
(`JsonCursorStore.save`). `Load` and `Replace` are the two steps of a
read-modify-write that another process can see, `SaveFails` its error; the
temporary file between them is read by nobody and is not modelled. A walk that
verifies makes the save twice, with `Verify` between. `RunVerify` resolves like
any other run: a key that is set in the process's `Environment` goes before the
one in the file, the walk's own paste included. `PowerLoss` may leave an
unsynced configuration empty. `latest`, `overlapped`, `enabler` and `crowded`
are history: what was last saved under each key, whether two processes ever
held one file, which process's walk enabled each connector's active mode, and
which connectors had two walks at once.
The descriptors are those of the ten connectors that `run` knows.

**Rows.** A row gives each field of a connector a class of value (text,
sensitive, white space, missing, null, not a string). A parser is the fields it
needs, where excerpt and identity come from, and which fields it hands on raw.

**Mods.** A reading is an emission with the facts the mods look for and the
vocabularies its text has words of. What a mod returns is a set of artifacts,
since no check of `RunMod` looks at their order. The manifest loader reads a file
line by line (`LoadManifest` opens it, `ReadManifestLine` takes one line of five
kinds, `BuildManifest` makes a manifest of what was read), so that what it has
read so far is a state, and can be spoken of in an invariant.

**Lists.** A loop that appends what passes a test is a selection of positions
(`Selection!Filtered`), not a recursive function: the two are the same sequence,
and the first can be proved about.

## 3. What the runs check

| run | instance | shows |
|---|---|---|
| `parts` | one of three, with no state in common (1.39 million states): | |
| - sinks | 4 processes (2 working, 1 without endpoint, 1 with a v1 path), 5 emissions (2 accepted, 1 vetoed, 1 screened by the Bot, 1 invalid), stray statuses 202, 302, 404, 413, 429 and 503, the Bot drifts | `AckedPrefixIngested`, `ScreenedAsAWhole`, `AdvanceOnlyPastRefusals` |
| - operator | 2 processes, the second with a good key of `linear` in its environment, `linear` and `google_drive`, 2 repositories, good and bad secrets, 2 jobs, 2 kills or losses of power | `SavedUnlessOverlapped`, `RunnableWasEntered`, `EnabledIsVerified` |
| - operations | every input of the four cases modules, one call per behaviour, a manifest line by line (59 000 states) | see the next table |
| `sink_transient` | the sinks of `parts`, Bot steady | violated: a 429 or 503 to the capabilities request quarantines (finding) |
| `ingest_poll` | 2 pollers, 3 issues (1 vetoed, 1 refused by normalize), pages of 2, equal stamps | `WatermarkCovers`, the refinement `ImplementsBackfill`, the inductive invariant `IInv` |
| `ingest_hooks` | 2 processes, issue and pull request, webhooks and polls | `CursorNamesDelivered`, inductive invariant `CommitInv` |
| `ingest_live` | 1 poller, 3 issues, distinct stamps | `BackfillCompletes` |
| `ingest_jump` | 2 processes with webhooks | violated: a webhook moves the watermark past issues not delivered (finding) |
| `ingest_vetoed` | 1 poller, a vetoed issue | violated: the refused row comes first in every later poll (finding) |
| `receipts` | the operations, one call per behaviour | violated: the conformance harness calls a recording delivered whose sink only collected it (finding) |
| `rows` | the same | violated: a row with a field of another type refuses the whole batch, a bad result its whole report (finding) |
| `webhook` | 2 threads, 3 kinds of connector, cache of 2 ids and 1 partition | `RecentIsRemembered`, `OnlyRacesRepeat`, `WindowedOnce`, `DropsOnlyDuplicates` |
| `redaction_worker` | 2 callers, 3 processes, budget 2, grace 1 | `OwnReply`, `OneWorker`, `BoundedLatency`, `EveryCallReturns`, inductive invariant `IInv` |
| `poll_walk` | 5 rows (1 malformed, 1 breaching), pages of 2 (graphql: 1), caps of 3 pages and 5 items, 2 changes | `TokensOnceEach`, `CountsOnceEach`, `AskedOnce`, `WalkEnds` |

The properties of operations compare an operation with a definition of what it
should do that is not written the way the code is:

| property | of | claims |
|---|---|---|
| `RedactedIsClean` | the redactor | nothing the patterns know is left, but two named residues; no other word is lost; no findings exactly when unchanged |
| `RedactAndPass` | `normalize`, envelope, SDK evidence | a batch passes exactly when all of it is fit, whole and in order; then nothing sensitive is in it |
| `AdvisoriesFailOpen` | heuristics | a signal, however malformed, neither changes the evidence nor silences a rule |
| `TraceIsEvidence` | traces | a projected trace is valid, and a change to it is caught, but for those a chain without anchors cannot see |
| `HarnessGrades` | harness | exactly what a real receiver acquired and what comes out as committed passes, and only that is handed to a sink; what to say of a sink that only collects is left to `receipts` |
| `FailsClosed` | cursor policy | the cursor moves for an acceptance or a refusal with a cause of its own, and for nothing else |
| `AnswersClassified` | discovery | what was asked, whole and screened, or an error that says what the provider said |
| `GateMeansCredentialed` | configuration | what the gate lets pass never fails for want of a credential; it is sent, to a pinned host, exactly if the runtime values, the endpoint and the secret are in order too, which the gate does not look at; what it blocks makes no request |
| `TokenOutlivesItsUse` | OAuth | no expired token is handed out; a failed refresh costs one call |
| `ModsKeepTheirContract` | mods | every artifact of every bundled mod on everything the pipeline emits keeps the manifest |
| `ManifestFailsClosed` | manifests | what loads is exactly what declares a whole manifest |
| `RowsFailAlone` | parsers, `deliver_poll` | an unexpected row costs itself only, but for raw fields, sensitive identities, white space, and a result that fails its SARIF report; what the comments of the code claim without exception is left to `rows` |

`parts` checks three specifications in one run: its state is the three states
side by side, and a behaviour takes steps of the one that `part` names. The parts
share neither state nor calls here, so this loses nothing that they show, and
each property is stated and explained in the module of its part. It says
CHECK_DEADLOCK FALSE, because an operation is one call, and the operator's part
ends when its jobs and kills are used up; `receipts` and `rows` say so too. The
sinks by themselves never stop: `Emit` is open to every idle process.

Every property of a passing run has a mutant: a definition of the model changed
the way a plausible bug would change the code, on which TLC finds the property
violated under the run's own configuration. Mutants stand beside the definition
they change, marked `(Mutant)`.

### Bounds, and why they are enough

* *Two processes or threads* show every pairwise race of the code; each
  component has one shared variable per lock or file, and no step waits for two
  others.
* *Strays* have one status for each way the sink and the policy can go on with it: a
  success that is not 201, a redirection, two of the 4xx that advance, the throttle,
  a server's error. The theorems take any set.
* *Pages of two* over three issues give a full page, a short one, and a page
  boundary between rows of one second; two revisions let an issue move behind
  the watermark while it is being fetched.
* *A cache of two ids and one partition* with six events evicts in both
  dictionaries; `Ttl = 2` with a clock up to 3 reaches equality and expiry;
  `MaxMarks = 3` allows mark, eviction or expiry, and mark again.
* *Budget 2, grace 1*: time passes before, at and after each timeout, and both
  joins of `_kill` take time. The third process is the one that is spawned while
  a dead one is still referenced and an orphan lingers.
* *Three pages of two rows* over five rows: full, full, short; or the cap.
  `MaxItems = 5` is reached only by a walk that sees rows twice.
* *Texts* of up to three tokens give every pair of neighbours that patterns can
  join, with a third one beside them, and of four for the tokens that join most;
  batches of up to two observations put a good one before and after a bad one.
  Traces are of one observation, since phases are per observation; the changes
  tried on a record alter its input, output, trace or authority, and records are
  dropped, doubled and swapped.
* *Rows*: any set of a connector's fields is missing while one takes each of the
  six classes and the rest are text; the row comes behind a good one, or in one
  piece with it where the connector splits a report.
* *Two jobs* between two processes are two walks, two saves or one of each;
  with two kills each of them may die, or the power fail after a kill.
  `linear` has two keys of one mode each, `google_drive` an OAuth credential
  with auxiliary keys: the two shapes of descriptors.
* The theorems of section 4 hold for every value of these bounds.

### Fairness

* `GitHubIngest!Fairness`: the host polls again and again, calls return, and
  requests do not fail for ever, which is the environment the documentation of
  backfill presumes; strong fairness stands where an attempt may fail (handshake,
  POST, fetch) or a crash intervenes (`Commit`), weak where the thread just runs.
* `RedactionWorker!Fairness`: threads run, time passes, and a child that starts
  comes up and reads its pipe or dies. Nothing is assumed about its answering.
* `PollWalk!FairSpec`: a walk is one thread, and a request ends, if by the
  transport's timeout. Nothing is assumed about what it answers.

## 4. What is proved

TLAPS checks all of these for every value of the constants that satisfies the
modules' named assumptions.

| theorem | of | establishes |
|---|---|---|
| `PrefixDelivery` | sink | types, and after any partial failure an acknowledged prefix |
| `AllOrNothing` | sink | the Bot receives nothing of a batch with an invalid emission |
| `MovesPastRefusals` | sink | the cursor moves only past an emission whose POST was answered, after a good handshake, with a 4xx other than 400, 422 and 429: the Bot's refusal of it, or one of the two that say nothing about it, the 401 of the token and a stray status |
| `TypeCorrect` | ingest | types of runtimes, sinks and provider together |
| `CommitInvariant`, `TwoPhaseCommit` | ingest | the stored watermark is a stamp of a row answered 201 |
| `PollInvariant`, `WatermarkSafe` | ingest, no webhooks | what lies below the watermark is with the Bot |
| `RefinesBackfill` | ingest, no webhooks | polling implements `Backfill` |
| `Consistent`, `RepliesAreOwn`, `NoSecondWorker`, `LatencyBounded` | worker | the invariants of the run |
| `WalkInvariant`, `CapsHold` | pagination | the inductive invariant; caps hold whatever is answered |
| `TokenWalks`, `NoPageTwice` | pagination | each row once along true tokens; no page twice |
| `CountingWalks` | pagination | counting walks miss rows only when rows go and repeat them only when rows come |
| `NothingSavedIsLost` | operator | saves are lost to overlaps only |
| `PlaceholdersNeverPass` | operator | what the gate lets run has values some walk saved |
| `EnabledWasVerified` | operator | what a walk enabled runs, and is accepted, in the environment of the process that verified it, and in none if that process had none of its keys set; unless others were at it meanwhile |
| `DeliveryInvariant`, `TypeCorrect` | webhooks | the inductive invariant; neither dictionary exceeds its limit or repeats a key |
| `RecentAreRemembered` | webhooks | only expiry and enough newer ids or sources make the cache forget |
| `OnlyRacesAdmitTwice`, `SignedOnce` | webhooks | second admissions come from races, expiry and floods only; a signed request is admitted once per thread |
| `DropsAreDuplicates` | webhooks | nothing is dropped but repeats of what was admitted within the ttl (an action property) |
| `PolicyFailsClosed`, `PolicyIsClosed` | cursor policy | any integer status, any reason: the cursor moves for known causes only; with it `FailsClosed` |
| `AnyRun`, `WhatPassesRuns` | configuration | on any blocks, environment and answer: what the gate blocks sends nothing, what it passes never lacks a credential, and is sent if and only if the rest is in order; `GateMeansCredentialed` |
| `AnyThreeCalls`, `NoTokenOutlivesItsUse` | OAuth | three calls of the resolver at any moments, with any lifetimes; `TokenOutlivesItsUse` |
| `AnyText`, `TextLeavesClean` | redactor | a text of any length leaves clean, and loses nothing else; `RedactedIsClean` |
| `AnyBatch`, `BatchLeavesClean` | pipeline | any batch of any observations leaves whole and clean, or not at all; `RedactAndPass` |
| `AnySignals`, `AdvisoriesNeverDecide` | heuristics | any signals on any emission change nothing but advisories; `AdvisoriesFailOpen` |
| `AnyTrace`, `TracesAreChains` | traces | the trace of any one observation is valid, and no change to a record passes; `TraceIsEvidence` |
| `AnyEntryGraded`, `HarnessPassesWhatConforms` | harness | any entry with any sink is graded by what comes out of it; `HarnessGrades` |
| `AnyReading`, `AnyArtifact`, `ModsStayAdvisory` | mods | every bundled mod on any emission, and the runner on any artifact; `ModsKeepTheirContract` |
| `AnyManifest`, `ManifestsAreWhole` | manifests | a file of any length loads exactly when it declares a whole manifest; `ManifestFailsClosed` |
| `AnyAnswer`, `AnyFixtures`, `AnswersSayWhatWasSaid` | discovery | any call with any answers and lists of objects, and the stub with any fixtures; `AnswersClassified` |
| `AnyBatchOfRows` | parsers | a batch of any number of rows loses only what its rows cost, and is refused only for one of the rows named |
| `AnyRows`, `BadRowsFailAlone` | parsers | any row of any connector behind a good one; `RowsFailAlone` |

The arguments:

* *Sink.* `SinkInv` says of each call that the first `sent` emissions are with
  the Bot and, once past screening, that the batch is valid. `AckedPrefixIngested`
  alone is inductive only because the Bot never forgets, and because a call
  waiting for its handshake has sent nothing, hence that conjunct.
* *Two-phase commit.* `CommitInv` adds to the sink's prefix property that the
  proposed cursor is the stamp of the last row of the batch: when `emit` has
  returned, that row is acknowledged, and then `Commit` stores its stamp.
* *Watermark.* `IInv` claims coverage not only of the cursor but of the cursor
  each poll loaded (another poller may have moved the store since) and, for each
  batch, of its proposed cursor by what the Bot has and what the batch holds.
  A new update has the provider's current second, which is not below any claim
  (`StampsInPast`). A page is the oldest rows at or above `since`, so all below
  its last stamp are in it. `RefinesBackfill` follows step by step.
* *Worker.* `OwnReply` is not inductive: a reply is the caller's own because a
  call starts on a quiet worker and everything in the pipe is then its own
  (`Handover`), and a caller that gives up kills the child before it releases the
  lock (`LockHeld`). `Deadlines` ties the budget to what remains of the joins.
* *Pagination.* `UpToHere`: along true tokens the walk has collected exactly what
  stays up to its position, and nothing behind it; rows that come or go change
  neither. `NewPosition`: counting walks move on, `poll_graphql` refuses cursors
  it has followed.

* *Counting walks.* While nothing goes, the rows before a position keep their
  ranks in the listing or gain some; while nothing comes, they keep or lose some.
  `CountInv` has the one for `removed = FALSE` and the other for `added = FALSE`:
  the rows passed are those of the lowest ranks, a page is the next `Limit`
  ranks, and behind a short page there is none.
* *Refusals.* Every reason a call can fail with is one `emit` raises, and the
  policy advances on none of them but a 4xx of a POST other than 400, 422 and
  429. A 4xx comes from a refusal of this emission, from the token, or is stray;
  `Strays` is any set of statuses, all of them if one likes, so that the theorem
  does not depend on what stands between sink and Bot.
* *Operator.* `AgreeInv` says of every process that has a file loaded, as long as
  it is alone with it, that what it loaded and will write has `latest` for every
  key but those it is about to save. `EnteredInv` says that every value that is
  not a placeholder, in the file or in a copy of it, is under a key somebody
  saved or is about to save.
* *Verified.* `EnabledIsVerified` speaks of a finished walk, but a walk verifies
  and enables in different writes of the file. `VerifiedInv` follows it through
  both: once a walk has written (`Stored`), the file has all that the walk
  collected, and once it has been answered (`Answered`), what the file has is
  accepted; both as long as nobody else was at its connector or had the file
  loaded. `Alone` says that two walks at one connector have been noticed, and
  `AgreeInv` is needed because the second write is of a copy loaded before it: the
  copy agrees with the file. That every walk verifies before it ends is read off
  the descriptors (`VerifyIsLast`). What is accepted is accepted in the
  environment of the process that walks, which may hide a secret of the file; a
  connector none of whose keys is set there resolves to the same in no environment
  at all. The environment may hold keys of any connector, and the run of one reads
  no other's but one: the part of a block that matters is the connector's own.
* *Webhooks.* None of the properties is inductive, for all are about the log of
  marks while the code decides by the cache. `DeliveryInv` ties the two:
  `Remembered` says that the last mark of an id is an entry of the cache, and that
  whatever is more recent than it there, among the ids of its bucket and among
  the buckets, was marked since, unless the log shows it flooded. So an eviction
  happens only when as many others were marked as the limit allows: the lemmas on
  `Pop`, `Newest` and `Assign` count what follows an entry. `Stamped` is the
  converse, every entry is a mark, which is what makes a drop a repeat. `Working`
  keeps the reason why a thread passed its check until it marks, against what
  the other threads mark meanwhile; `MarkedAfterCheck` is that reason kept with
  the mark, and `OnlyRacesRepeat` and `WindowedOnce` are read off it. Sets of keys
  are finite and counted by the library's theorems on cardinality.
* *Operations.* The state is one call, so each property is proved in two steps.
  A theorem `Any...` says what the operation does on any input of its type, with
  no bound on lengths, numbers or contents. The property of the run follows,
  because the inputs of the cases are such inputs (`...Are`) and what `done` holds
  was left by the one action that leaves it (`Called`). Only the reader of manifests
  keeps something from step to step.
* *Gate.* The gate and the resolver read the same values by the same keys, so a
  credential the gate has seen is found (`ResolvedAs`, `SecretIs`). Only the triple of
  google_drive makes a request of its own, and it is resolved for every connector's
  run, so its values may stop any of them (`OnlyTheTriple`, `PoisonIsTheTriples`). What
  else a run needs is said builder by builder (`BuildsIf`, `FetchesIf`).
* *Redactor.* A pass rewrites tokens one by one and looks at their neighbours at
  most, so it is described position by position (`...At`), and the passes
  compose: what stands at a place in the end depends on what stood at it and
  beside it. That the numbers and keys of the text are still whole when their
  pass comes is the part that rests on the order of the passes.
* *Pipeline.* A batch is normalized element by element; the first that fails is
  the least position with an error, and there is none exactly when each is fit.
  `Sanitized` says which metadata is dropped, replaced or kept, for any keys and
  values, and the envelope and the export redact what is clean already.
* *Selections.* What is filtered or cut from a sequence is given by the positions
  that stay (`Part`), and the n-th of them by its rank (`Nth`, `Rank`). The ranks of
  a finite set of numbers are an interval and grow with the number, which follows
  from the theorems on cardinality, so `PartIs` describes any selection without
  an induction. Rows, lists of objects, signals and advisories go through it.
* *Traces.* `ProjectedChains` says that each record names the digest of the record
  before it. Then a record that is changed, left out, repeated or moved breaks one
  of the links beside it (`OneChanged`, `WithoutBreaks`, `AppendBreaks`, `SwapBreaks`,
  together `ChainCatches`), except at the two ends.
* *Manifests.* Whether a manifest loads is not inductive, for it is decided at the
  last line. `ManifestInv` says what has been read of the first `at` lines: for each
  key whether they had it, whether in a list, with which entries, and that the
  reader has failed exactly if one of those lines could not follow the ones before
  (`ReadSoFar`). At the end that is what the file declares.
* *Mods.* What a mod takes over from an emission are references and metadata that
  `validate_emissions` has screened (`EchoesClean`); the rest it writes are words of
  its own. `ModsKept` goes through the mods one by one, and `ModsRun` through the
  tests of `RunMod` in their order.
* *Discovery.* One lemma per provider, over the order in which it looks at status,
  error signals and shape. A list is a selection of what the answer held, and is
  returned only if all of it can be read.
* *Parsers.* One case per connector (`ShortParsers` and `...Borne`): a row that the parser takes has a
  text and an identity the pipeline accepts, unless it is one of those that
  `RowsFailAlone` names. The rest is common to all connectors: a payload's rows are
  a selection of it, and a batch fails only with one of its rows.

Every safety invariant and action property of a passing run is stated by a
theorem. Only model-checked are:

* the liveness properties (`BackfillCompletes`, `EveryCallReturns`, `WalkEnds`),
  which are out of the prover's reach, as is ENABLED, and so the absence of
  deadlock;
* the five violated properties, which need no proof but their counterexample.

One theorem is less general than its operation: `AnyTrace` is about a batch of one
observation, as the run is. A batch has one trace for each observation, made of
that observation and its emission and projected on its own; that its neighbours
have no part in it is read off `TraceOf` and not proved.

### Assumptions

* GitHub's `since` is inclusive, and the listing is sorted by `updated_at`, as
  `ingest.py` requests it.
* The Bot appends an emission before it answers 201, and never loses it. Its
  decision about an emission does not change with time.
* `WatermarkSafe` and `RefinesBackfill` assume `~Webhooks`. With webhooks the
  property is false, as `ingest_jump` shows.
* `BackfillCompletes` is claimed for distinct stamps, no refused row and no page
  of pull requests only; the observations below say what happens otherwise.
* For counting pagers, the provider's page size is the pager's, as the comments
  of `poll_specs.py` require of the operator's URL.
* Repositories and connectors have different names (`OperatorAssumption`): a
  repository's has a slash in it.
* A completed rename of the cursor store is durable, although its directory is
  not synced. A completed rename of the configuration keeps the name and may
  lose the contents, which were not synced.
* A digest is its content: SHA-256 does not collide.
* Signatures are valid or not; a request with an invalid one changes nothing.

## 5. Findings and observations

Five runs show the code doing something other than what a document or a comment
of the repository says (`sink_transient`, `ingest_jump`, `ingest_vetoed`,
`receipts`, `rows`); the entries under `findings` quote both sides.

Met while modelling, and not turned into runs of their own:

* A sink remembers a passed handshake for its lifetime. After a redeployment of
  the Bot it learns of the new contract from the 400 of a POST, which quarantines.
* The policy takes every 4xx but 400, 422 and 429 for a refusal of the emission and
  resolves to ADVANCE. So do the 401 of an expired token and whatever 4xx something
  on the way answers (404, 405, 408, 413), though neither says anything about the
  evidence, which the cursor is then moved past. `AdvanceOnlyPastRefusals` names
  the two as its exceptions.
* A page of pull requests only reports ADVANCE and stores nothing; a page whose
  rows all carry the second of the watermark stores the same watermark. In both
  cases the next poll asks for the same page.
* A delivery is marked seen before it is parsed and emitted. When `emit` raises,
  the provider's retry is dropped as a duplicate until the mark expires.
* `is_duplicate` and `mark_seen` are two critical sections; two threads with one
  delivery may both find it new. `OnlyRacesRepeat` says that nothing else can.
* Zendesk, Jira and Sentry fall back to the id of a ticket or an issue, which
  later events share. Slack messages without `event_id` pass the cache by.
* The redaction worker's deadline does not cover a `send` that blocks on a full
  pipe. A child that dies between `is_alive` and `send` is reported as an
  unsupported payload.
* `poll` raises when the page cap is reached; `poll_graphql` delivers what it has
  and returns normally.
* A malformed row is skipped by `deliver_poll`, and aborts `poll_graphql`.

Pipeline and connectors:

* `deliver_poll` promises that one malformed row never aborts the batch. It holds
  for what the parser itself rejects. A field that is handed on raw and is not a
  string (`url` of osv and gitlab, `ruleId` of sarif, `html_url`, `login` and
  `merged_at` of github, `permalink` of sentry, fields of notion and pagerduty)
  fails the whole batch in `normalize`, and one sarif result whose message is not
  an object drops the whole report: the property of the run `rows` fails for
  both, and its trace is one of the first kind. A null `merged_at`, which every
  open pull request has, is another. An excerpt or a title of white space only, or
  a sensitive identity, refuses the batch too; `RowsFailAlone` lists all of them by
  name, and shows that there are no others.
* Two opaque identifiers that look like telephone numbers are one identifier
  after the envelope's second redaction. A number in groups behind a health
  label keeps all but its first group, and a private key keeps its body: the
  catalog has the BEGIN line only.
* The score walk of a trace does not look into lists inside lists, and its chain
  has no anchor at either end: the first or the last record can be left out.

Operator and discovery:

* The pattern of a pasted anthropic_admin key is a prefix that is matched in
  full: no key is accepted.
* A walk whose verification fails has already replaced good secrets by the bad
  ones and leaves the connector disabled. A walk for webhooks alone enables a
  connector without verifying it. A pasted token is ignored when an OAuth triple
  is configured.
* A key that is set in the environment hides the one just pasted, so `verify` tries
  the wrong one: the walk enables the connector with a stored secret that nobody
  has tried (`configure.py:178-181` warns of it, and `:192` speaks of a verified
  runtime). `EnabledIsVerified` is claimed accordingly.
* When a save fails and the temporary file cannot be removed either, it stays, with
  the secrets in it (`config_write.py:90-93`).
* The gate looks at credentials only. A `devin` without `base_url` or a `servicenow`
  without `instance` and `username` passes it and fails at the builder, and an
  anthropic_admin block with its declared `bucket_width` is never sent.
* A control character in one value of google_drive's triple stops the run of every
  connector, because the resolver with the triple is built first.
* One undeclared runtime key anywhere in the file blocks every later write.
* The runners of linear and mcp let the TypeError of a missing or unknown runtime
  value through, which the others report as a ConfigError.
* Addresses of mail pass the screening of discovery, which looks for secrets and
  cards. A Linear 401 without error codes is a provider error; the identity of a
  Drive item takes the type that was asked for; a Linear workspace id is ignored.
* The harness reports a contract error of the pipeline as a failed acquisition. It
  counts any sink that raises nothing as delivered, which the run `receipts` shows.

## 6. What is not modelled, and the plan

Taken as one decision each, or left out of a component that is otherwise
modelled: the comparison of the capabilities report with the expected contract
(fields and versions); the computation of signatures; query strings and bodies
of requests; `gateway_receipt.py`, which validates a receipt field by field; the
commands that only print (`list`); fields of rows that only reach the metadata;
the rendering of traces as Markdown; HTTP and JSON.

Not modelled:

* `runtime/redaction_evaluation*`: checks the files of an offline evaluation
  against a schema. It keeps no state, and nothing reads its result.
* `scripts/`: build and validation of the repository, no part of the running
  system.

Hazards without a property, with the reason in `PROJECT.json`: the poll that
cannot move past a page of one second or of pull requests, the delivery that is
marked and then fails, identities that stand in for delivery ids, page sizes
that differ from the provider's, the configuration that is not synced and its
temporary file, and the pattern of anthropic_admin. In each the code has the
weakness, or relies on its host or operator.

What is left to do:

1. That two polls of one file by different repositories do not disturb each
   other, as an action property.
2. `OperatorState` with the editor of an operator as another writer, and a run
   of a connector that reads the file between the two writes of a walk.
3. The walk of `ConnectorRun` through `PollWalk` into `GatewaySink` and
   `GitHubIngest` as one composition with the operator's file.
