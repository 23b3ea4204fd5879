# Waveoff: a TLA+ model of how a candidate is recorded, replayed, judged and rolled out

Waveoff compares a candidate version of an LLM agent with the incumbent and
decides whether it may be promoted, from what a recorder sidecar has written of
their calls. This directory holds TLA+ modules that model
the program under `src/`, TLC configurations that check them on small instances,
and theorems about them that TLAPS has checked. Paths below are relative to
`src/`.

## 1. The system

| part | state it keeps | operations | interacts with |
|---|---|---|---|
| rollout controller `internal/rollout/controller.go` | none of its own: `AgentRollout.status` in the API server, an informer cache, a work queue | `Reconcile`, `advanceLive`, `runStage`, `hold`, `finish`, `writeStatus` | API server, stage runners, router |
| live and shadow stages `internal/rollout/live.go` | the split and the mirror on a route | `Enter`, `Advance`, `Withdraw` | router, observations, analyzer |
| offline stages `internal/rollout/stage.go`, `judges.go` | outputs under a directory per rollout and generation | `RunOfflineReplay`, `CheckJudges`, `buildRequest` | replay driver, scorer, analyzer |
| observations `internal/rollout/observations.go` | none | `Since`, `Activity` | corpus, scorer |
| routers `internal/traffic` | weights and mirrors of an HTTPRoute or VirtualService | `SetSplit`, `Split`, `Mirror`, `Stickiness` | API server |
| analyzers `internal/analysis` | none | `Analyze` (paired bootstrap, sequential, remote), `CheckMissingness`, `CompareActivity` | |
| scorers `internal/score` | none | `Score`, `Validate`, `Pairs` | external scorers |
| recorder `internal/recorder` (sink, sessions, proxy) | bounded queue, open cassettes, step counter per session | `Record`, worker, `closeIdle`, `Close`, `Identify` | corpus, blob store |
| write suppressor `internal/recorder` (suppress, registry) | attempts per tool, invented objects per session | `ServeHTTP`, `mint`, `lookup` | recorder, live MCP server |
| replay `internal/replay` | consumed spans, divergence report, outputs | `handle`, `Lookup`, `Decide`, `Observe`, `Write`, `runAgent` | cassettes, model upstream |
| cassettes and corpus `internal/cassette`, `internal/corpus` | one append-only file per session | `Create` (exclusive), `WriteSpan`, `Next`, `List` | blob store |
| blob store `internal/cas` | content-addressed files | `Put`, `Get` | |
| manifests `internal/digest`, `manifest`, `diff`, `pin` | none | digests, classification, comparison, pinning | |
| admission `internal/webhook` | none | validation, sidecar injection | API server |
| entry points `cmd`, `internal/cli` | flags | wiring | all |

What is hard about it:

* **Concurrency.** The manager Deployment has two replicas and no leader
  election. Each works on a cached copy of the rollout, moves real traffic, and
  only then does a write that fails if the copy was stale. In a sidecar, request
  handlers, a queue and a worker share sessions and counters.
* **Failure between two steps.** Enter and Withdraw are two router calls each and
  a status write; the manager may stop, or a reply be lost, between any two.
* **Ordering.** Watch events, spec edits and status writes race; results of one
  generation of the spec must not count for another.
* **Time.** A stage has a minimum window and a budget, both measured from a start
  time that lives in status; sessions, cassettes and invented objects expire.
* **Progress.** A stage advances only when something requeues the request.

What makes each part correct:

* *rollout*: a promotion was earned stage by stage under the spec it reports on;
  a decision stands until the spec changes; exposure follows the order of the
  stages; a rolled-back stage serves nobody; no route serves and mirrors at once;
  the window is served; every bounded rollout is decided;
* *recorder*: every record is written, dropped or failed, and counted as such;
  the steps of a session are distinct; a session finds the objects its
  suppressed writes invented; a shutdown flushes, and ends;
* *gate*: no promotion without evidence under both arms, no wave-off without evidence
  against the candidate, and no verdict over a lopsided loss of sessions;
* *replay*: a recorded span answers one request, no call stands for another unnoticed, a
  clean report means the whole recorded path was taken, and writes never execute;
* *stores*: a digest names whole content, a span refers to what is stored, a recorded
  session is never replaced;
* *manifests*: what the tools call finished is admitted, a verdict is explained by the
  changes listed under it, and a shadow pod runs by effects an operator asserted for the
  very behaviour its manifest is named for.

## 2. Modules

| module | contents |
|---|---|
| `Rollout`, `MCRollout` | managers, API server, routes: the rollout controller with its stage runners and routers |
| `RolloutProofs` | type correctness; decisions are final; promotions are earned, after their window |
| `RolloutRouteProofs` | a route serves or mirrors, never both; exposure follows the order of the stages; what is recorded as rolled back stays off its route |
| `Gate`, `MCGate` | how a stage's measurements become a verdict: selection, scoring, pairing, missingness, write activity, judges, the two decision orders |
| `MissingnessProofs` | `mcNemarExact` is the two-sided exact binomial test |
| `GateProofs` | no verdict without the evidence it claims; a promotion rests on a fair sample; copied calibrations are refused |
| `Recorder` | one sidecar: sessions, suppressors, queue, worker, cassettes, shutdown; its cfgs give the constants, so it needs no MC module |
| `RecorderProofs` | type correctness; invented objects are remembered; steps of proxied calls are distinct; holes are counted |
| `Store`, `MCStore` | recorders on a corpus and a blob store whose node may go down |
| `BlobStore` | what a content-addressed store promises; `Store` implements it |
| `StoreProofs` | every property of `Store`, the refinement among them |
| `Replay`, `MCReplay` | one replay: index, policy, tracker, drift, server, driver, output |
| `ReplayProofs` | a recording answers once; a clean report means the whole path; a faithful agent is answered by its own recording; no call stands for another unnoticed; no write runs live |
| `Manifest` | digests, names, verification, validation and comparison of manifests, as operators |
| `Admission`, `MCAdmission` | a manifest's life: `pin`, edits, `verify --write`, admission, the injector |
| `AdmissionProofs` | every property of `Admission` |

How they fit together: `Recorder` says which records reach a cassette and under which
step; `Store` says what of a cassette and its payloads a reader finds after a fault;
`Replay` says what a cassette answers; `Gate` says what scores of such sessions lead a
stage to; `Rollout` takes those verdicts as answers and moves traffic by them;
`Admission` puts the recorder into the pods all of this is about. They meet in
abstractions, not in one state: a composition of two of them multiplies states that have
nothing to say to one another. Where one assumes something of another, the assumption is
a constant or a set of inputs: the recordings of `MCReplay` are what `Recorder` can write
(steps that repeat, a payload lost), the answers of `Rollout` are the verdicts of `Gate`
and its failures, and a suppressor's marks in `Gate` are what `Recorder` puts into a
record.

### `Rollout`

Any number of `Managers` reconcile **one** `AgentRollout` (rollouts share no state
unless two name one route). The stored object is `specs`, the sequence of its
generations, and `status`. Each manager has

* an informer `cache` of it and a Boolean `queued`, the request in its work queue
  (the queue keeps one request per object, and one worker handles it at a time);
* a reconcile in progress: `pc`, its copy `local`, router `calls` still to make,
  what follows a successful write (`after`), the position in an offline replay.

A resourceVersion is only compared for equality with the stored one, so it is kept
as a Boolean: `current[m]` for the cache, `base[m]` for the copy. Any write of a new
version makes all of them false, except the writer's own copy, which `Update`
refreshes from the reply.

The grain of an action is one request to another process. What lies between two
requests is one action, since it only reads and changes the manager's copy:

| action | code |
|---|---|
| `Skip`, `Get` | `Reconcile` up to the generation check: a decided rollout is left alone, a changed spec empties the status |
| `ManifestsMissing`, `FinishPromoted`, `StartOffline` | `manifests`, `nextStage < 0`, `setRunning` |
| `ReplaySession`, `ReplayFails`, `NothingMeasured`, `JudgeOffline` | `runStage` and `RunOfflineReplay`: the session loop, each way to fail, the verdict |
| `PreflightFails`, `Enter`, `Entered` | `advanceLive` before and at the first pass of a live or shadow stage |
| `Advance`, `SplitUnreadable`, `Withdrawn` | the later passes: `LiveRunner.Advance` on one of the `Answers`, then continue, promote, hold or withdraw |
| `CallRouter`, `RouterRefuses`, `RouterFails` | one `SetSplit` or `Mirror`; a percentage the router cannot do; a failed call or a lost reply |
| `WriteStatus`, `WriteConflict`, `WriteFails` | `Status().Update`: accepted, refused, failed or its reply lost |
| `Crash`, `CacheSync`, `Resync`, `EditSpec`, `EditMetadata`, `Tick` | restart, watch, informer resync, user edits, clock |

`AdvanceStep` is the decision order of `LiveRunner.Advance`, as a function of the
policy, the stage, its age and what the sources and the analyzer answered; `EnterCalls`
and `WithdrawCalls` are the router calls in their order; `Ended` and `AfterEnd` are
what `Reconcile` and `advanceLive` record of a stage and whether they requeue.

Abstractions: a route is the candidate's weight and the mirrored percentage; the
incumbent has the rest. A stage's `configured` stands for a scorer that can be
built, a source of measurements and an implemented router. Reasons are classes.
`passed` and `withdrawn` are history variables that the code does not have. Without an
observation source of its own, as the shipped manager is, a controller measures a live
stage by the recorder's corpus, through the stage's scorer (`liveSources`,
`controller.go:353-379`): `configured` is `FALSE` of a stage without `corpus.ref`, scorer
or router. `Edits` says which spec a user may put in place of which.

`PromotedMeansEveryStagePassed` is about specs whose stages have names of their own
(`NamesApart`): two stages of one name share a status entry, so promoting the first
promotes both. `ExposureFollowsTheOrder` asks, of a step that raises a route's weight or
mirror, for the pass that raises it: it must be entering a stage on that route, one that
is live for a weight and a shadow for a mirror, and every predecessor of *that* stage must
have been promoted under the generation the pass works on.

`Advance` withdraws a stage past its budget without asking `Rollback.Fires`
(`live.go:125`), so a candidate is withdrawn with `auto` off or with `budget-breach`
left out of the policy's list, although `agentrollout_types.go:311` calls triggers "the
conditions that withdraw a candidate". `AdvanceStep` models what the code does.

### `Recorder`

One sidecar in shadow mode. Its state is `calls`, every call the agent made with what
will be or was recorded of it; the table of `Sessions` (`steps`, `seen`); per suppressor
its own step counter (`emitted`) and its registry (`objects`, `minted`); the channel
(`queue`); the sink's map of cassettes (`open`, by the time of the last write) and the
corpus directory (`exists`, `spans`); the two counters, kept as the sets of calls they
count; the state of the worker and of `main`.

A handler, the worker and `main` run concurrently. An action is one critical section or
one channel operation:

| action | code |
|---|---|
| `Forward`, `Respond`, `Abort` | `Proxy.ServeHTTP`: `Identify` at the start; `finalise` at the end, of a failed upstream call too; a body that breaks off, where `ReverseProxy` panics and `finalise` is skipped |
| `Suppress`, `Refuse`, `Emit` | `Suppressor.ServeHTTP`: `mint`, then the step counter, `Record` and the answer in `emit` |
| `ReadBack` | the registry answers any call that names an invented object |
| `Write`, `WriteFails` | `write` and `cassetteFor`: the record goes to the open cassette, to a new file created with `O_EXCL`, or is counted as an error |
| `Sweep`, `StartDrain`, `Stop` | the other branches of `run`, and `closeIdle` |
| `Terminate`, `CloseSink`, `Exit` | SIGTERM, the end of `Shutdown` (all calls answered, or 30 seconds), `Close` and the end of `main` |
| `RestartContainer` | a new process on the same volume |
| `Tick` | time |

A session is named by a trace or a header; a call with neither gets a session of its own
in the proxy (`ProxySession`), while a suppressor files all such calls under one name
(`SuppressorSession`). A write is a tool with its arguments; the identifier of the object
it invents is a hash of session, tool and arguments, so the write stands for it. A tool
upstream has its own suppressor, hence the index by `Tools`. The model upstream and the
tools' reads are both `Forward`.

A tick ends with the queue empty and with every quiet cassette closed (`WorkerKeepsUp`),
because the worker's ticker fires twice per idle period and a tick is long for it; a call
is open for at most `CallTime` ticks (`CallsKeepUp`). `TimingAssumption` relates that to
the configured times: `TTL > CallTime + Idle + Idle/2`. Nothing in the code enforces it:
`-session-idle` is a flag, the TTL is 30 minutes whatever the flag says, and a call has
no write timeout. With the defaults (2 minutes idle) it holds of calls of up to 26
minutes. What the assumption is worth: with `Idle` as the TTL, TLC finds two calls of
one cassette with one step.

What the model shows of the code, besides its properties:

* a suppressor keeps a cassette open without refreshing `Sessions`, so in a cassette that
  holds suppressed calls even two proxied calls may carry one step;
  `ForwardedStepsAreDistinct` is therefore about cassettes of proxied calls only;
* a session that comes back after its cassette was closed loses every later record: the
  file exists, `Create` fails, and each is counted as an error;
* a call that names an invented object is answered from the registry whatever its tool
  does, and is neither recorded nor counted as a write (`suppress.go:124`);
* a call cut off in mid-body is in no cassette and no counter, and neither is a record
  that a handler enqueues after the worker's drain;
* all anonymous writes share the session `unattributed`: its counter and its objects.

### `Gate`

A gate is set up once (`stage`, `analyzer`, its metrics, the policy) and is passed again
and again while sessions arrive:

| action | code |
|---|---|
| `Open`, `Call` | sessions appear in the corpus under ids that sort anywhere, and go on calling tools |
| `Watch` | `LiveRunner.Advance` up to the write-divergence trigger: `Activity`, `CompareActivity` |
| `Since` | the listing for the scorer, and its answers: some refs left out, some in error, arms spelled as it likes |
| `RunOfflineReplay` | the same of an offline stage, after `CheckJudges`: sessions excluded as unusable, the rest scored under both arms |
| `Analyze` | the request is built, and the analyzer answers or fails |

Between `Watch` and `Since`, and before `Analyze`, sessions go on. Operators carry the
rest: `Paired`, `MissingOffline`, `MissingLive` (`score.Pairs`, `missingnessOf`, the drop
pattern of `observationsFrom`), `McNemar` and `MissingnessOK` (`CheckMissingness`),
`Readings`, `Decide`, `DecideSequential` (the two analyzers), `Remote` (what is accepted
of an answer from elsewhere), `Diverged`, `JudgesPass`.

A score is a small integer. An interval is abstracted to the ways it can lie about its
margin *given the data*: a percentile interval is within the observed differences, a
confidence sequence is centred in them and as wide as it likes. So the model never lets
an interval be acceptable when no difference is, and otherwise lets it be anything; the
statistics (coverage, power) are not in it. `GateAssumption` has two conditions that come
from elsewhere in the code: a live stage never uses the bootstrap, which the CRD's rule and
the controller refuse (`controller.go:213`), and the tolerated loss is less than
everything, since no caller replaces `DefaultMaxDropRate` (0.20).

What the model shows, besides its properties:

* an offline item that both arms scored, but not for the primary metric, is neither a
  pair nor dropped: `missingnessOf` leaves it to the pairs (`stage.go:255`), and `Dropped`
  is not "how many items produced no paired measurement" (`missingness.go:41`). In a live
  stage only an item put forward under both arms can be missing at all;
* arms are compared exactly in `observations.go:245` and `stage.go:242`, after
  `score.Validate` has folded their case: a scorer that answers "Candidate" has its
  scores counted for the incumbent live, and for nobody offline;
* `ToolEffect` is recorded by the suppressor alone (`suppress.go:258`), so an
  incumbent's writes are never seen, and a shadow candidate that writes what the incumbent
  writes is waved off for a class that "the incumbent never does" (`activity.go:129`);
* `Limit` keeps the first sessions by id, and ids are random: each pass of a sequential
  test may be over a reshuffled sample; sessions still being recorded are scored too.

### `Store`

Recorders (`Writers`) record sessions into one corpus over one blob store, in a directory
or in S3.

| action | code |
|---|---|
| `Create`, `WriteHeader`, `WriteHeaderFails` | `corpus.FS.Create`: `O_EXCL`, then the header, or the file is removed |
| `WriteSpan`, `Encode` | `Writer.WriteSpan`: offload what is large, then encode one line, whole or cut, after which the encoder's error sticks |
| `Copy`, `Sync`, `Stat`, `Commit`, `Commited`, `PutFails` | `FS.Put` and `S3.Put`: the temporary file or the buffer, `fsync`, the question whether the blob is there, the rename or upload, the rename that fails over a blob that is there, every other failure |
| `Kill`, `PowerLoss` | a recorder killed in any of these; a node that loses what was not synced |

`Listed` and `Resolves` are what `List` and `Get` make of the result. A power loss takes
what was not synced: of a cassette any part or the file, for nobody syncs it; of a blob
nothing of its data, which was synced, but possibly its *name*, because `fs.go:94-100`
renames and does not sync the directory. So the model's power loss may take any blob
whole, at any time after its put has answered.

`BlobStore` is the specification of the store: its variables are what is stored, asked for
and told, and whether the store is durable; a put is one step, and an `Outage` may take
anything from a store that is not durable, whole. `KeepsItsPromise` states that `Store`
implements it, under the mapping of the blobs that read back whole, of the puts in progress
and of the digests given out, with S3 for durable.

`RefsResolve` and `EvidenceIsKept` are about every step but a power loss. That they are is
part of what the model shows: after one, a span that survived may refer to a blob that did
not, although `Put` answered before the span was written. `DigestNamesContent` needs no such exception: what is under a digest is
whole whatever went down.

What the model shows, besides its properties:

* a cassette whose last line was cut cannot be read by `reader.All` at all, since one bad
  line is an error (`reader.go:69-98`); "a process killed mid-session leaves a readable
  prefix" (`writer.go:20-22`) is true of `Next` and of nobody who calls `All`.
  `OnlyTheEndIsCut` is what does hold;
* a recorder that comes back cannot go on with its session, whose file exists: all its
  later spans are lost, and an empty cassette left by a power loss blocks its session for
  good.

### `Replay`

| action | code |
|---|---|
| `CheckDrift` | `Driver.Replay` before the agent starts: the contracts the servers advertise |
| `Handle` | the part of `Server.handle` under the mutex: `Lookup` (four strengths of match, consumption), `Decide`, `Observe` |
| `Answer` | outside it: recorded, live, invented, refused or 502 |
| `Keep`, `Lose` | `Output.Write` under a mutex of its own, whose error is dropped |
| `Greet` | everything on the tool plane that is not a tool call |
| `AgentExits`, `Finish`, `Shutdown`, `CloseOutput` | the driver's schedule: the agent ends or is killed, the report is closed, the server stops, the output is closed; handlers run on |

A request is a value with a hash that tells normalised bytes apart; agents are sets of
requests made in any order and number, so that matching faces every interleaving.
Handlers outlive `Shutdown`, whose timeout is five seconds, and even `Replay`; only the
output is closed to them then. `endpoints` are the tools whose server the replay server
was given.

`FaithfulIsAnswered` is about agents that make the recorded calls in order, in recordings
numbered as a proxy numbers them, handshakes among them: each call is answered by the
recording of itself. Where a handshake was recorded before it, that is by the second
strength of match, for the steps of the two sides no longer agree, and the report says the
call departed from a recording it has nothing to do with. `FaithfulReplayIsClean`, that
such an agent adds no divergence, is what `server.go:196-202` and
`TestIdenticalReplayDoesNotDiverge` (`replay_test.go:305`, whose recording has no
handshake) expect; `ReplayHandshake` refutes it.

A named read that is run live is promised in three places: `mode.go:34-39`, `server.go:63`
and the help of `--live-tool` (`internal/cli/replay.go:61-64`). `Driver.Replay` builds its
server without `ToolUpstreams` (`driver.go:103-109`), so in every replay `waveoff` can start
such a read is decided to be forwarded and answered 502. The model has both: replays with
no endpoints, as the driver's, and replays of a server that was given some, for which
`OnlyNamedReadsRunLive` says what may run there.

What the model shows, besides its properties: a payload that cannot be read is answered
502 and not counted as refused, so the session stays usable (`server.go:259`); a lost
write of the output leaves no trace (`server.go:235`), so a replay may be scored with
calls missing; of the recorded handshakes only the first is ever handed out
(`server.go:394`); spans that share a step share their consumption (`index.go:197`); drift
looks at the first span of a tool and an unknown one does not make a session unusable;
`MatchTool` is "the same tool with the same arguments" (`index.go:31`), and `Lookup` gives the
same kind to what it found by the tool alone (`index.go:178`), so that a reader of the report
cannot tell the two apart; a
tool call without arguments, recorded or made, is compared with none (`sameArgs`), so it
takes a recording of its tool unreported and leaves the call it belonged to with another:
`SubstitutionIsReported` is about sessions without such calls.

### `Manifest` and `Admission`

A digest is the projection it hashes, so `Behavior(s)` and `Content(s)` *are* the digests,
with exactly the fields `internal/digest/project.go` puts into them. `Checks` is `verify`,
`Valid` the webhook, `Repaired` is `verify --write`, `Compare` and `Verdict` are
`internal/diff`. Lists are sequences; what is left of one keeps its order (`Kept`). Whatever
a diff abbreviates or formats is compared as it is `Shown`: image and bundle digests by
four digits, the model plane by its text, in which 1, 10 and 100 are all "1"
(`fmtFloat` cuts trailing zeros, `model.go:304-309`) and two lists of stop sequences with
the same words are one. `Valid` includes what the CRD's schema refuses before the webhook is
called (`Schema`), and the part of it that concerns names nobody checks earlier
(`Conforms`): an agent's, which `pin` takes from its Deployment, and a prompt's, from its file.

A file has several documents, `[manifest, says]`, with what the tools last said of each. An
operator may edit one into any specification of its agent (`IsSpec`), but a new effect
comes from `AssertEffect` alone, which notes it in `asserted`. `verify --write` checks each
document and looks the one to repair up *by name* (`verify.go:87-92,106-109`), which finds
the last of that name (`LastOf(Namesakes(d))`): `Mended` is what becomes of each document,
`Told` what is said of it.

| action | code |
|---|---|
| `Pin` | `waveoff pin` of one of the `Deployments`, in the middle of a rollout, with servers that repeat, fail or offer what cannot be digested, and `--set code.image` |
| `Take`, `Edit`, `AssertEffect`, `Disambiguate`, `PutAway` | the operator and the file |
| `VerifyWrite` | `verify --write`, of the whole file |
| `Create`, `Delete`, `Sync` | the API server behind schema and webhook, and the injector's cache, which lags |
| `CreatePod`, `Default`, `Recreate`, `Gone` | a pod, the injector (called any number of times), a pod made anew from what was written of one |

What the model shows, besides its properties:

* `verify` is not the webhook: `check` asks for no pinned image, no classified tools and
  no unique names, and accepts any disambiguating suffix, although "a manifest passing
  `waveoff verify` is a manifest the cluster will accept" (`verify.go:170-171`).
  `FinishedIsAdmitted` is about what is left: a document `pin` calls complete, and a repair
  of one that needs no decision;
* two documents of one name, as `pin` writes them for any two unfinished versions of an
  agent (`<agent>-unpinned`, `emit.go:36`), are both reported as repaired: the repairs go into the last
  of them one after the other, and the first stays wrong. If only the first was wrong, its
  repair spoils the last, which was reported as ok. `Told` calls both outcomes "namesake",
  and `FinishedIsAdmitted` says nothing of them;
* `pin` of a Deployment called `support.agent`, or with a prompt file called `.md`, says
  that the manifest is complete, and `verify` that it is ok; the schema refuses it
  (`agentmanifest_types.go:172-173`). That is the exception `~Conforms`;
* `--set code.image=<tag>` lets `pin` call a manifest complete that admission refuses;
* "Digests are compared by full value" (`model.go:294-296`), and yet `compareCode` and
  `comparePolicy` compare abbreviations of 4 digits, and `compareModel` text: two bundles, images
  or models that read alike are "behavioural" without a change listed, a temperature
  raised from 1 to 10 among them. Under `--force` (`compare.go:53`) so are two agents that
  differ in nothing but their name, which is in the digest and on no plane.
  `VerdictIsExplained` excepts these, and lists in which two entries share a name, which
  `indexTools` and its like collapse into one: `verify` lets such a file pass, admission
  does not (`NoNamesakes`). TLC finds a violation without any one of the exceptions;
* a calibration's gold set and its date are compared by no rule unless the judge moved;
* during a rollout `pin` puts the image of an old pod under the new template's prompts;
  a tool whose contract cannot be digested is left out without a word;
* a shadow pod for which the injector cannot act is admitted without a recorder, with a
  warning only; names that differ in case or punctuation only are one after `sanitise`;
  deleting a manifest and creating it again loses its evidence annotations.

## 3. Runs

The rollout's runs use the module `MCRollout`. Durations are ticks; canaries have a budget
of 1 and a window of 1, so that "too early", "in time" and "over" are three different
ages, and shadow stages a budget of 0 and no window: they are over at their second tick.

| run | instance | shows |
|---|---|---|
| `RolloutOneManager` | 1 manager; offline + shadow + canary; a mirror the router refuses; a corpus with nothing usable; two stages of one name; offline + canary with `auto` off, which a shadow of the first one's name may replace at any moment; 1 fault; `FairSpec` | `TypeOK`, `NeverServedAndMirrored`, `WindowIsServed`, `ExposureFollowsTheOrder`, `PromotedMeansEveryStagePassed`, `RolledBackMeansNotServing`; `Resolves` |
| `RolloutReplicas` | 2 managers (symmetric), a shadow without budget or two offline stages | `PromotedMeansEveryStagePassed`, `DecisionIsFinal` between replicas |
| `RecorderStops` | a traced and an anonymous conversation, 1 tool, 1 write, a queue of 1, 2 calls, 1 fault, `Idle` 1, `TTL` 3, 4 ticks; `FairSpec` | `TypeOK`, `ForwardedStepsAreDistinct`, `OwnWritesAreRemembered`, `HolesAreCounted`, `AcceptedIsSettled`, `ShutdownEnds` |
| `Gate` | offline with the bootstrap, shadow with the sequential or a remote analyzer, live with the sequential one; three gates, five pairs of judges | `TypeOK`, `MeasuredPromotion`, `GuardrailsAreEstablished`, `WaveOffIsDemonstrated`, `SurvivorsAreFair`, `McNemarIsExact`, `CopiedCalibrationIsRefused` |
| `Store` | 2 recorders, 2 sessions, 2 large payloads (all symmetric) and a small one, both backends, 2 spans, 2 crashes | `TypeOK`, `DigestNamesContent`, `RefsResolve`, `OnlyTheEndIsCut`, `EvidenceIsKept`, `KeepsItsPromise` |
| `Replay` | 12 replays: the three modes, six recordings, four agents, with and without servers to reach, 3 calls, 1 fault | `TypeOK`, `EachRecordingAnswersOnce`, `SubstitutionIsReported`, `FaithfulIsAnswered`, `CleanMeansWholePath`, `OnlyNamedReadsRunLive` |
| `Admission` | 5 Deployments, 2 documents, 3 pins and edits together, 2 objects, 10 kinds of pods | `TypeOK`, `VerdictIsExplained`, `FinishedIsAdmitted`, `RecordedAsNamed`, `EffectsAreAsserted`, `OneRecorder` |

Five further runs each check one sentence of the documentation or a comment that
the code does not keep; TLC finds the violation.

| run | sentence | what happens |
|---|---|---|
| `RolloutFailedStage` | "A stage that fails stops the rollout." (`agentrollout_types.go:348`) | the failure is forgotten when the process dies after the withdrawal |
| `RolloutReplicasServing` | "Withdraw first, then record." (`internal/rollout/controller.go:280`) | the other replica re-enters the stage from a stale cache |
| `RecorderSteps` | "The counter is per session and monotonic." (`internal/recorder/session.go:42`) | a suppressor numbers its calls from a counter of its own, into the same cassette |
| `ReplayHandshake` | "Counting it as a step would offset every subsequent index against the recording" (`internal/replay/server.go:200-201`), and `TestIdenticalReplayDoesNotDiverge` | the recorder does count a handshake (`proxy.go:129`), so every call behind one is compared with another's recording, and an agent that repeats the session is reported as diverged |
| `GateEvidence` | "An implementation must never return OutcomePromote when it could not complete" (`internal/analysis/analysis.go:254`) | in a shadow stage no session has both arms, a metric over no pairs is neither inferior nor indeterminate, and the sequential analyzer promotes with N = 0 |

Three more divergences of the rollout are modelled, and have no run. "Withdrawing means
returning all traffic to the incumbent" (`agentrollout_types.go:306`): `Withdrawn` returns
that of the current stage's route only. "A retry after a manager restart does not collide"
(`controller.go:440`): `ReplaySession` meets the files of the attempt it repeats, created
with `O_EXCL`, and the stage is held. "Offline replay works" (`cmd/manager/main.go:113`): the
shipped driver has no agent to run (`AgentDriven = FALSE`), so every session of an offline
stage fails.

Elsewhere, likewise without a run: hybrid mode's live reads (section `Replay`), what
`verify` says a cluster accepts (section `Manifest`), a readable prefix (section `Store`).

`DecisionIsFinal` and `PromotedMeansEveryStagePassed` hold between replicas: they are
about the object, which the version check protects. `RolledBackMeansNotServing` and
`NeverServedAndMirrored` hold of one manager only: routes are written before that check.

### Bounds

`MaxFaults` bounds crashes, failed calls, lost replies and label edits together; one
fault reaches every error path, and the two-manager runs need none because the other
manager is the disturbance. `MaxGeneration = 2` is one spec edit, at any moment: a pass
can hold a copy of the old generation while the new one is stored. `MaxAge = 2` lets a
running stage be in its first tick, in its window, and past its budget; beyond that
nothing changes with age. `Tick` is enabled only while a stage that is running is
younger than `MaxAge`, so the clock stops when it can no longer be observed. In the
two-manager run `MaxAge` is 0, since neither of its specs has a window or a budget that
matters to its properties. One edit is enough of `Edits`: it replaces a spec whose stages have
been entered, promoted or withdrawn by one with another mode under the same name. Every bound is a constant in a guard; none is in a cfg
constraint.

In the recorder `MaxCalls` bounds the calls, `MaxTime` the ticks, `MaxFaults` failed
writes and restarts. Two calls of one session are enough for two equal steps, and for one
to fill a queue of one. `MaxTime` exceeds the TTL, so that sessions and objects expire.
The proofs have no such bounds.

In `Gate`, `BootstrapFloor` (30) is scaled down to 1 or 2 (`Floors`), the significance to
3/5 and the tolerated loss to 2/3, so that with five sessions offline a loss can be
lopsided (two of three lost to one arm), too large (three of four) or neither, and the
floor can refuse what is left. Two sessions of a shadow and three of a live stage are one
per arm, and one more than `Limit` selects. `MaxRefs` bounds what a scorer is asked for,
with what it leaves out.

In `Store` a payload is written in two chunks, so that it can be cut; two crashes let a
recorder meet what an interrupted one left. In `Replay` three calls are one more than the
shorter recordings have, and enough for each of the four strengths of match to take what
another needs. In `Admission` two documents can share a name or not, and be wrong or not;
three changes are a pin and two edits, or two pins and an edit,
so that one can classify a tool and state a second name, add a judge and change it, or make
two manifests differ in two ways; two objects are the two a diff compares and a name can be
reused; a pod is created while no file is on the desk, since they share no state. The proofs
have no such bounds.

### Fairness

`FairSpec` assumes weak fairness of `Proceed(m)` (the work queue's workers run),
`CacheSync(m)` (watches deliver), `Resync(m)` (the informer re-lists what it holds,
ten hours by default) and `Tick`. Faults, edits and the choice of an answer are never
owed: an analyzer may answer "inconclusive" for ever, and that is why `Resolves` is
stated for stages with a budget. `Resync` matters for a verdict that waves off with
`auto` off, which the code does not requeue: without it the stage would outlive its
budget unnoticed.

The recorder's `FairSpec` assumes weak fairness of the worker (`Write \/ StartDrain`, so
that nothing is assumed of the `select` between the queue and the closing channel but
that it takes a ready branch; `Stop`) and of `main` (`CloseSink`, because `Shutdown`
returns after 30 seconds at the latest; `Exit`). Handlers, upstreams, signals and time
owe nothing: `ShutdownEnds` holds while a call is open for ever. `WF` of `Write` stands
for a store that answers, with an error or without.

Deadlock is checked in the rollout's runs and in `Admission`. There is none: `Resync` can
always bring an idle manager another request, and there is always another pod. The others
come to rest and do not check it: a sidecar when `main` has returned or nobody calls any
more, a gate when it has decided, a store when its cassettes are full, a replay when it
has returned. `Gate`, `Store`, `Replay` and `Admission` have no liveness properties: each
of their steps is taken when somebody asks, and nothing in that code retries.

## 4. Proofs

For every value of the constants that satisfies the assumptions of the module
(`RolloutAssumption`; `RecorderAssumption` and `TimingAssumption`; `StoreAssumption`;
`ReplayAssumption`; `GateAssumption`; `AdmissionAssumption`):

| theorem | statement | inductive invariant |
|---|---|---|
| `TypeCorrect` | `Spec => []TypeOK` | `TypeOK` with what it rests on: copies index an existing generation, an index held in a pass is a stage of it |
| `DecisionStands` | `Spec => DecisionIsFinal` | `VersionInv`: a current cache *is* the stored object; a copy of the stored version is of the latest generation, and that object was not decided when the pass began |
| `PromotionIsEarned` | `UniqueNames => (Spec => []PromotedMeansEveryStagePassed)` | `SoundInv`: in the store, in every cache and in every copy, a stage recorded as promoted is in `passed` under the generation the status reports on, and a copy that will be written as promoted has them all |
| `NoWindowIsCutShort` | `UniqueNames => (Spec => []WindowIsServed)` | `SoundInv`, which also says of every such entry that its window was served, and of a pass that replays a stage that it is an offline one |
| `OneManagerSplitsOrMirrors` | `Managers = {m} => (Spec => []NeverServedAndMirrored)` | `RouteInv`: the calls a pass has still to make are safe from where the route is now: before `Mirror(p)` with `p > 0` the weight is 0, before `SetSplit(w)` with `w > 0` the mirror is off |
| `OneManagerKeepsTheOrder` | `Managers = {m} /\ UniqueNames => (Spec => ExposureFollowsTheOrder)` | `RouteInv`, which also says that a withdrawal asks for nothing, and an entry for the weight of the stage the pass is in if that is live and for a mirror if it is a shadow, with `SoundInv`: a stage being entered has its predecessors recorded as promoted |
| `OneManagerStaysWithdrawn` | `Managers = {m} /\ UniqueNames => (Spec => []RolledBackMeansNotServing)` | `ClearInv`, below |
| `RecorderTypeCorrect` | `Spec => []TypeOK` | `TypeOK` |
| `InventionsAreRemembered` | `Spec => []OwnWritesAreRemembered` | `OwnInv`: a registry entry is at least as recent as each suppressed call it answers for, so `evictLocked` spares it for the TTL |
| `ProxiedStepsAreDistinct` | `Spec => []ForwardedStepsAreDistinct` | `StepInv`, below |
| `HolesCounted` | `Spec => []HolesAreCounted` | the property, with `Dated`: no call is of a later life of the container |
| `StoreTypeCorrect`, `DigestsNameContent`, `CutsAreLast` | `Spec => []TypeOK`, `[]DigestNamesContent`, `[]OnlyTheEndIsCut` | `StoreInv`, below |
| `RefsAlwaysResolve` | `Spec => RefsResolve`: no step but a power loss makes a reference dangle | the same: a large payload whose span is about to be written is there |
| `EvidenceKept` | `Spec => EvidenceIsKept`, of every step but a power loss | the same: a recorder that appends or removes is the one that created |
| `PromiseIsKept` | `Spec => Promise!Spec`, the refinement of `BlobStore` | the same: every step is one of `BlobStore` or a stutter, a power loss an `Outage` of a directory |
| `ReplayTypeCorrect`, `NoRecordingAnswersTwice`, `FaithfulGetsItsOwn`, `CleanIsWhole` | `Spec => []TypeOK`, `[]EachRecordingAnswersOnce`, `[]FaithfulIsAnswered`, `[]CleanMeansWholePath` | `ReplayInv`, below |
| `SubstitutionsAreReported` | `Spec => []SubstitutionIsReported` | the same, with the count below |
| `WritesNeverRun` | `Spec => []OnlyNamedReadsRunLive`, for any `endpoints` | the same: a call is answered as the policy decided or not at all (`Decided`) |
| `GateTypeCorrect`, `PromotionIsMeasured`, `GuardrailsHold`, `WaveOffsAreDemonstrated`, `CopiesAreRefused` | `Spec => []TypeOK`, `[]MeasuredPromotion`, `[]GuardrailsAreEstablished`, `[]WaveOffIsDemonstrated`, `[]CopiedCalibrationIsRefused` | `GateInv`, below |
| `PromotionsAreFair`, `McNemarIsTheExactTest` | `Spec => []SurvivorsAreFair`, `[]McNemarIsExact` | the same: `FairByTest`, and the lemma `ExactTest` |
| `AdmissionTypeCorrect`, `FinishedManifestsAreAdmitted`, `RecordersAreNamed`, `EffectsAreTheOperators`, `RecorderIsOne`, `VerdictsAreExplained` | `Spec => []TypeOK`, `[]FinishedIsAdmitted`, `[]RecordedAsNamed`, `[]EffectsAreAsserted`, `[]OneRecorder`, `[]VerdictIsExplained` | `AdmissionInv`, below |

`StepInv` says why three mechanisms that know nothing of one another keep the steps of a
cassette distinct. The session table is *ahead* of every pending proxied call and of
every open cassette: it has seen the session since, and its counter is beyond their
steps (`PendingAhead`, `OpenAhead`). A pending call is at most `CallTime` old and an open
cassette was written to at most `Idle + Idle/2 + 1` ticks ago (`Recent`). With
`TimingAssumption`, the table cannot have evicted a session that still matters, so a new
call's step is new (`PendingIsTracked`, `OpenIsTracked`). Once the cassette is closed, the
session may start again at step 0: `O_EXCL` keeps the new records out of the old file
(`Filed`). The step of the proof follows four kinds of steps (`StepKinds`), not
seventeen actions.

The rollout's invariants are needed because the properties speak of the store and the routes,
while what may break them is in flight: a copy that a pass read long ago, a write based
on it, a router call not yet made. The assumptions are needed. Nothing makes the
stage names of a spec unique, and promoting one stage promotes its namesakes. With two
managers the router calls of one `Enter` interleave with those of the other.

`ClearInv` is about the cache that lags behind its own manager's write. A roll-back is
stored by a pass whose copy was of the stored version, so the cache still holds what that
pass read: an object whose next stage had begun (`NoEntry`). A pass that starts from it
may withdraw once more, but cannot enter a stage; when the cache catches up, it holds a
decision (`StoredCleared`). Before the write, only the copy that is about to record the
roll-back has any, and the route has been cleared by both calls of `Withdraw`
(`CopyCleared`, `Leaving`). With a second manager none of this holds: its cache may be
from before the stage began, which is what `RolloutReplicasServing` shows.

`StoreInv` is one invariant for all of the store's properties. `Stored`: what is under a
digest is whole *and synced*, hence a power loss takes it whole or leaves it as it is
(`BlobsLeft`). `PutOK`: a file that may be renamed was synced, and a large payload whose
span is about to be written is there. `Owns`: the session of a recorder has a cassette
that this recorder created, so two recorders never write to one. `LinesOK`: a
cassette without a header has no lines, and one is cut at its end if at all. That a line
which appears refers to what is stored follows from `PutOK`, and that it stays so from
`BlobsStay`, of every step but a power loss. In the refinement
`Stat` is a put's answer when it finds the blob and a stutter when it does not, `Commit`
and `Commited` are answers, `PutFails` and `Kill` fail one put, and `PowerLoss` is an `Outage`.
The assumptions are that `None` is none of the values it stands in for.

`ReplayInv` joins what the replay server keeps under its mutex. `Taken`: the step of every
span handed out is consumed, so `Lookup`, which takes only what is not, hands out no span
twice (`LookupIsUnused`). `Observed`: the report has every departure of every call, and
`Closed`: once it is closed it has every call missed, also when more calls arrive after
`Finish`; with no divergence at all there were neither more calls than recorded nor fewer.
`InStep`: an agent that has kept to a recording has consumed exactly the steps of the calls
it repeated, and is no further in its calls than in the recording, whose handshakes it
passed. So the span of its next call is not consumed; every earlier span of the same bytes
is a call, hence was consumed; and a span that `ByStep` finds is not the wrong one, because it
lies at or before the next call's own (`NextInStep`). `FaithfulIsAnswered` alone is not
inductive: which span comes next depends on what was consumed. Of `ReplayAssumption` the proofs use that a recording is a
sequence, that hashes stand for calls and the values of modes, kinds and effects.

`SubstitutionsAreReported` counts. Suppose call `n` took a recording of other arguments and
nothing was reported. Then call `k` was of the tool and arguments of span `k`, for every
`k` up to `n`, since the tracker compares just these. Let `X` be the spans of this call's own
tool and arguments, `n` among them. `OnlyTaken` says that what is consumed was handed out, so
`Lookup`, which fell back to the tool alone, found all of `X` handed out already, to earlier
calls. `HandedOut` says that a call is answered by its own bytes or by its tool, and no
earlier call swapped: so each of those calls was of that tool and those arguments itself,
hence its own span is in `X`. The calls are as many as the spans of `X` other than `n` at the
most, and took all of `X` (`SwapsShow`). The argument needs `args` in every call, because the
comparison is skipped without them.

`GateInv` is `Setting` with the properties. `Setting` is what is true of the answers at any
time: they are under refs of sessions selected by this pass (`Answered`), all spelled alike
(`OneSpelling`), given after the judges passed (`JudgedFirst`) and not left from the pass
before (`Afresh`). From it, lemma by lemma: what is `Scored` has both arms, pairs are scored
items, a reading is evidence of its metric over the pairs (`Evidence`), and a promotion by
either analyzer collects all the readings it needs (`Promotable`, `Established`). For
`PromotionsAreFair` one more thing is needed: that what `missingnessOf` calls dropped is
what was lost to an arm. It is so for answers spelled as they were asked for. Answers in
another spelling are all lost, to both arms, and fail the test on the share that may be
lost, because that share is less than one. `TypeOK`, `FairByTest` and the others do not
follow from each other, and each is inductive only with `Setting`.

`AdmissionInv` follows effects from where they are asserted. `DeskInv` and `ObjectsInv` say
that every effect in a document of the file, in an object or in the injector's lagging copy was asserted
of a tool of that name; `asserted` only grows, so an old copy stays within it. `PodInv` says
that a recorder states the behaviour its pod's manifest is named for: admission ties a name
to the behaviour's digest, so a copy that is stale, or an object that was deleted and
made anew, has the same behaviour under the same name (`IsPod`, `AsNamed`). `OneRecorder` needs that a
pod with a recorder is not injected again, and one that comes back has its recorder listed.
`DeskInv` also says of every document that it is as finished as it is said to be
(`IsAdmitted`): for `pin` because a complete result has no tools, an image that is a digest
and a model (`Pinned`), for `verify` because a document that has its name for itself is the
one its repair goes into (`VerifyWriteKeeps`, with the last of a set of places from
`LastPlace`), and a document that is rewritten is said to be nothing.
For `VerdictsAreExplained` no state matters but the manifests: `Compare` lists a change wherever
two `Behavior`s differ, entry by entry, since lists without namesakes are what `ByName`
makes of them.

`ExactTest` is about two definitions, of any two counts: `McNemar`, the doubled tail that
`missingness.go` sums, and `AsUneven`, the number of ways fair coins fall at least as
unevenly. It needs several inductions. The recursive function `factorial` satisfies its
equation (`Factorial`); the ways `i` of `n` coins fall heads obey Pascal's rule, so that
times `i!` and `(n - i)!` they are `n!` (`Ways`) and `choose` counts them (`Chosen`); and the
sum in `Tail` counts the ways at most `k` do (`TailCounts`), by the fold's own recursion. Then
a way and its complement pair off the two tails, which are disjoint unless they are
everything. The library's induction theorems have an operator as a parameter, which the
provers cannot instantiate; `Successors` has a set instead and follows from `WFMin`.

Every safety property of a passing run is a theorem. Only model-checked are `Resolves`,
`AcceptedIsSettled` and `ShutdownEnds`: liveness under fairness is beyond the prover.

## 5. Not modelled

* statistics: intervals and resampling are real-valued, and a verdict's reliability is a
  property of distributions, not of states. Only McNemar's test, which is integral, is
  compared with its definition;
* deletion of a rollout (no code runs on it), several rollouts on one route, and a route
  edited by anybody other than a manager;
* what the shipped manager cannot do at all: its RBAC role grants no access to routes;
* the list of backends inside a route's rule, and what a service mesh makes of it;
* the freeze of a manifest's evidence annotations on update;
* how `pin` infers a model from the environment: the model is one value;
* byte transport, capture limits, redaction, telemetry, rendering, flag parsing, YAML
  editing, canonical JSON (taken to be injective), SHA-256 (to be free of collisions, at
  the digits a name keeps as well), generated code.

## 6. What would come next

1. An abstract rollout, one stage decided after another, that `Rollout` implements.
2. A recorder that takes up a session after a restart, and a reader that keeps the prefix
   of a cut cassette, once the code has them: `Store` is where to try either.
3. The steps behind the liveness properties as theorems: that a stage past its budget can
   only be decided, and that a closed sink's queue only shrinks.
