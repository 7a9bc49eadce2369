# TLA+ models of lc-extension

`lc-extension` is the library with which LimaCharlie extensions are written, in Go and in Python. An
extension is a web service: the LimaCharlie backend posts signed messages to it (webhooks), the library
verifies and decodes them, calls the extension's callbacks and turns their results into HTTP answers. On top
of that core the repository has ready-made extensions (`simplified/`), a multiplexer that runs one Cloud Run
service per organization, and a simulator of the backend for tests.

Everything here is about what happens when several webhooks are in progress at the same time, when calls to
Hive, Cloud Run or Datastore fail half-way, and when the backend retries. Paths below are relative to the
source root of the repository.

Contents: [inventory](#1-inventory) ·
[modules](#2-modules-and-how-they-correspond-to-the-code) · [runs](#3-runs) · [fairness](#4-fairness) ·
[proofs](#5-proofs) · [what the models found](#6-what-the-models-found) ·
[not modelled](#7-what-is-not-modelled) · [plan](#8-plan) · [how to run](#9-how-to-run)

## 1. Inventory

| Component | State it keeps | Operations | Talks to | Hard behaviours | What makes it correct |
|---|---|---|---|---|---|
| **Webhook dispatch**: `core/extension.go`, `common/messages.go`, `python/lcextension/ext.py` | none between webhooks | `ServeHTTP`/`_handler`: read, verify the signature, decode, initialize the SDK, call back, answer | backend; callbacks of every extension | lost answers, retries, panics, which failures are worth a retry | what is answered with success was handled; what is worth a retry is retried, and nothing else is run again |
| **Secret cache**: `core/utils.go` | process-wide map of secrets behind a mutex | `UseSecretValue`, `GetSecret`, cache get/set/delete | Hive (secrets) | callers interleave between reading, fetching and storing; the secret is rotated meanwhile | a stale secret is refreshed: a call is not refused because of what others left in the cache |
| **Webhook adapter**: `core/adapter.go`, `ext.py` | in LimaCharlie: installation keys and a `cloud_sensor` record; in memory: one client per organization | create, delete, send | Hive, installation keys | list-then-add without a lock, partial failures, two libraries with different algorithms | one key, named by the record; nothing left after a delete |
| **Multiplexer**: `multiplexer/multiplexer.go` | in Cloud Run: a service per organization; in Datastore: its record with the project and the shared secret | create, delete and look up a service; forward events, requests, validations | Cloud Run, Datastore, IAM, the workers, backend | six remote calls in a row each of which may fail or be the last before a crash; retried and overlapping deliveries; redeployment | a subscribed organization has a worker that answers; an unsubscribed one has none; none is lost |
| **D&R rule extension**: `simplified/dr.go` | in Hive: tagged rules and the scheduling rule | subscribe, unsubscribe, `update_rules` | Hive, backend (continuations, the scheduling rule) | read-diff-write without a lock, overlapping updates, updates against unsubscribes, dropped errors | rules converge to the release; the user's rules are spared; nothing stays after unsubscribing |
| **Lookup extension**: `simplified/lookup.go` | in Hive: lookups and the scheduling rule | subscribe, unsubscribe, `update_lookup` | as above | as above, with other error handling | as above |
| **CLI extension**: `simplified/cli.go` | per organization: an adapter; in the process: a command in progress | subscribe, unsubscribe, `run`; it stops its own instance after a command | Hive, adapter, the command line tool | a signal sent to itself races with the answer and with the next command | each command is answered; no command is cut off by the end of another one |
| **Web server**: `server/webserver/server.go` | listener, a channel for one signal | serve, graceful shutdown on a signal, within 10 seconds | net/http | shutdown with requests in progress; the listener fails | requests in progress are finished or run again; a process that does not listen ends |
| **Simulator**: `simulator/simulator.go` | continuations, errors, metrics, configurations | send each kind of message, execute continuations | an extension under test | recursion and fan-out of continuations, limits | limits hold; every continuation is recorded once |
| **Messages, schemas, metrics**: `common/`, `schema.py`, `metrics.py`, `messages.py` | none | serialization | | | |

How the parts interact: the backend delivers *subscribe* and *unsubscribe* until they are answered without
an error; a 500 is retried and a 400 is not (`simulator/SIMULATOR_README.md:365`). `ServeHTTP` runs one goroutine per webhook;
the callbacks of the multiplexer and of the rule and lookup extensions run on those goroutines and share
nothing but what is in Cloud Run, Datastore and Hive. So the state worth modelling is remote, and the steps
are the remote calls.

`PROJECT.json` lists the hazards found in the code, each at its line, with the properties that cover it.

## 2. Modules and how they correspond to the code

Every module has the same shape: CONSTANTS with a named assumption, variables, one action per remote call of
a handler (`pc[h]` is the next call, `job[h]` the local variables), the failures of those calls as actions of
their own that use up a budget `MaxFaults`, the environment, the properties. A definition whose comment says
*Mutant* is not used by the specification: it is a plausible bug in the definition after it, kept to show
that a property notices. `PROJECT.json` maps each definition to source lines.

**Multiplexer** (`multiplexer/multiplexer.go`).
`service[p][o]` is Cloud Run's service of organization `o` in project `p`, `datastore[o]` the record,
`want`/`acked` what the user last did and whether the backend has its answer. `OnGenericEvent` is the path
of a handler: *subscribe* goes through `createService` (`create`, `wait`, `put`, with `cleanup` after a failed
put, `publish`), where AlreadyExists counts as success (`CreateRefused`), then is forwarded (`lookup`,
`send`); if forwarding fails the service is deleted (`lookupDelete`, `runDelete`, `dsDelete`) and an error
returned. *unsubscribe* is forwarded, then deletes. Requests and validations are forwarded. A failed call is one that Cloud Run did not take (`CreateFails`) or one it did, whose answer is lost
(`CreateAnswerLost`). `Serial` says
that the backend has one event of an organization in progress at a time. `Dies` is a crash, a
timeout of the platform, or a lost answer. `Redeploy` changes `PROVISION_PROJECT_ID`.
`getService` is a lookup of Datastore each time: its cache resets `lastServiceUpdate` to the zero time
(`multiplexer.go:335`) and never sets it to the present, so a cached service is never returned.

**SecretCache** (`core/utils.go`). Callers run `UseSecretValue`: read the cache, fetch from Hive and store on a
miss, use; on a failure, delete the entry and try once more. `fresh` and `calm` are history: no rotation
since this call began; nor since any call that it overlaps with began.

**WebhookAdapter** (`core/adapter.go`, `ext.py`). `library` selects the algorithm of
`CreateExtensionAdapter`: Go lists the keys, keeps the current or the smallest and deletes the others; Python
always adds a key. Deletion is the same in both. `settled` is history: the last call was alone.

**RuleSync** (`simplified/dr.go`). `hive[ns][name]` holds the rules, tagged (the extension's) or not (the user's).
*subscribe* adds the scheduling rule; the answer asks for a continuation (`due`); *unsubscribe* removes the
scheduling rule and every tagged rule, and swallows each error; `update_rules` gets the rules, lists
each namespace, computes a batch and applies it. Three details that matter are kept as they are in the
code: namespaces the release does not have are not looked at (`ListDiff`), a batch of deletions one of which
fails panics on a nil error (`DeleteOnePanics`, `dr.go:226`), and whatever goes wrong in an
unsubscribe, its answer is a success.
Left out: the `enabled` flag of a rule. (`disable_by_default` is described as acting "after the initial
subscription", `dr.go:72`; the code also applies it at the initial subscription. The flag is written with each rule that is added or
changed and never compared, so it does not influence which rules are added, changed or deleted.)

**LookupSync** (`simplified/lookup.go`). The events are RuleSync's, the error handling is the opposite: *unsubscribe*
returns every error, the one for a record that is not there included (`RemoveAbsent`), and `onUpdate` returns none
of its goroutines' (`PushFails`). `todo` holds the lookups that an update has yet to push or an unsubscribe has yet
to remove, in any order: the goroutines of one update do not depend on each other, and Go's maps have none.

**AdapterClients** (`core/adapter.go:201-237`). The senders one process keeps, one per organization: a caller looks
in the map, makes a sender without the lock, and looks again before it registers it; the loser closes its own.

**CLIRun** (`simplified/cli.go`, `server/webserver/server.go`) composes three things, because the hazard is between them:
`doRun`, which stops its own process when it returns; `RunExtension`, which receives the signal and calls `Shutdown`; and the
senders of AdapterClients, which it EXTENDS, each call of `SendToWebhookAdapter` being a part of `doRun`
(`pc[h] = "log"`) and the end of the process forgetting them. Cloud Run starts another process; the backend
posts again what was not answered, also while the first handler goes on, if only its connection was lost (`lost`): `doRun` does not use the
context of its request (`cli.go:354`). The process may fail to signal itself, which the code only logs: after a command (`StopFails`,
`cli.go:96-106`), or when its listener failed (`ListenFailsUnheard`, `server.go:47-50`), which leaves it running without one (`"deaf"`).
`stoppers`, `unsent` and `told` are history: who has sent a signal, or failed to.
`GraceExpires` is the end of the 10 seconds; it is disabled while a handler is between its signal and its
answer, which takes no call: the only place where the model says that something is faster than something else.

**Simulator** (`simulator/simulator.go`). Each caller has a stack of frames, one per message it waits for or whose response it
handles: the recursion `handleContinuations` - `ExecuteContinuation` - `processResponse`. The
continuation mode and the records may change between two sections that hold the lock. `recorded`, `dropped`, `due`
and `executed` in a frame are history.

**Dispatch** (`core/extension.go`, `ext.py`, `messages.go`). One message is posted until its sender concludes that it
is delivered or gives up. `phase` follows `ServeHTTP`; `StatusOf` is the translation of a callback's response to a
status, which differs between the libraries. Kept as they are in the code: a Python extension whose secret is None accepts every signature
(`Trusted`, `ext.py:75`); a body that ends early is answered 204, or 400 if gzip cannot read its header (`cut`); a Python exception whose text is empty is
answered 200 (`"silent"`, `ext.py:58,93`); in Go `ValidateConfig` is optional (`AcceptConfig`). `cut` and `runs` are history.

**Subscription** is an abstract specification, of the multiplexer and of the lookup extension: of an organization it only knows what its user
asked for, whether that was acknowledged, and whether it is served. While a subscription or an unsubscription stands acknowledged nothing
but the user may change whether it is served, and an event is only acknowledged when it is true. Multiplexer implements it with
`served` as "the record leads to a worker that answers" (`Reachable`), an action property of the run and a theorem;
LookupSync, of its one organization, with `served` as "the scheduling rule is there" (`scheduled`), a theorem. RuleSync does not
implement it: `dr.go` returns success for an unsubscribe although the removal of its scheduling rule failed.

**MCMultiplexer**, **MCRuleSync**, **MCLookupSync**, **MCDispatch** only define the sets that the configurations refer to and
symmetry. The modules named `...Proofs` hold the theorems about the module they are named after.

## 3. Runs

| Run | Question | Result |
|---|---|---|
| `MultiplexerSafety` | Serial delivery, *any* two failures, two projects with redeployment, two handlers: is an acknowledged subscription reachable (`AckedSubscribed`), does a record outlive its service (`RecordOutlivesService`), is the multiplexer a `Subscription`? | yes |
| `MultiplexerRecovery` | One project, any two failures except the four that leave a service without a record (`createAnswer`, `wait`, `cleanup`, `crash`): is no service orphaned, does an acknowledged unsubscription leave nothing, does every subscription settle? | yes |
| `MultiplexerWedged` | The same liveness with one failed wait | **violated** |
| `SecretCache` | Three callers, two rotations, one failure: is a calm call never refused, do refusals stop? | yes |
| `WebhookAdapter` | Both libraries, two handlers, two failures: does a create, or a delete, that runs alone repair everything before it? | yes |
| `RuleSync` | Two handlers, three changes by users, a release that changes a rule and empties a namespace, one failure: are updates scheduled, are the user's rules spared, does an undisturbed unsubscribe sweep, do the rules converge? | yes |
| `RuleSyncManaged` | Is the scheduling rule kept if the release has rules in `managed`? | **violated** |
| `LookupSync` | Two handlers, three changes by users, a release that changes one lookup and drops another, two failures: does an acknowledged unsubscribe sweep, are the user's lookups spared, do events settle, but for an unsubscription that has no scheduling rule to remove (`Stuck`), do the lookups converge? | yes |
| `CLIRun` | Two commands and an event, two handlers, one failure (a lost connection and a signal that cannot be sent among them): is a command only cut off by others, does every command that could send its signal stop its process, does a process whose listener failed end if it could send its own, is every message settled unless a process stays without a listener, is one sender kept per organization? | yes |
| `Simulator` | Two callers, an extension that asks for up to three continuations each time, a limit of two, one level of recursion below the first, changes of the mode and resets at any time: do the limits hold, is no continuation lost or run twice, do calls return? | yes |
| `Dispatch` | All kinds of messages, both libraries, with and without a secret in Python, any three failures: are callbacks run again only after a failure, does delivered mean handled, does Go handle eventually, each but for the cases the property names? | yes |
| `DispatchPython` | Is an error that does not say whether it is retriable retried? | **violated** |

The violations are explained in [section 6](#6-what-the-models-found). Deadlock is checked in the runs of
Multiplexer, SecretCache, WebhookAdapter and Simulator. The others may stop: RuleSync and LookupSync when the bounded changes are used up,
Dispatch and CLIRun when all messages have been settled.

*Bounds.* Two handlers give every pair of overlapping calls; what a third could add is a third party to a
race, which SecretCache has because there the race needs it (one caller deletes the entry, one stores a
stale value in between, one reads it). Organizations and cache keys do not interact, so there is one. Four secrets are enough: when a service
is created, at most the other project's service, the record and a definition the other handler has read hold one. Five key IDs: two that survive, two in
progress, one more left by a failure; `Create` waits for a fresh ID for each handler. Two failures are
a failed call and a failed repair of it; three in Dispatch because failures of one message are cheap to
enumerate. One failure in CLIRun, because the hazards there (the next command, the 10 seconds) are no
failures; a crash, a failed listener or a stop by the platform may come on top. Two senders are as many as two
handlers can have made at a time. In the Simulator, one level below the first
and a limit below what a response asks for give each branch of `handleContinuations` at the lowest and at the highest level; the
state is the same for more levels but for longer stacks, and the theorems are about any number. A failed write was applied or not, both are explored, the creation of a service and the removal of the
scheduling rule included.

*One assumption of the Multiplexer's runs.* `EnvDeclaresSecret` is TRUE: the environment of
`SERVICE_DEFINITION` lists `LC_SHARED_SECRET`. The code only replaces the value of a variable that is there
(`multiplexer.go:410-415`), while `multiplexer/README.md:17-18` says that the secret is "set as
`LC_SHARED_SECRET` in the new service" and its example does not list it. With FALSE no worker ever
accepts a forwarded message.

## 4. Fairness

Failures are bounded, so "eventually" means: once failures stop. Beyond that, only this is assumed:

- *Multiplexer*: each handler goes on (goroutines are scheduled, calls return: weak fairness of
  `Progress(h)`); the backend delivers an event again that was not answered with success; Cloud Run finishes deletions. Nothing
  is assumed of users, of redeployments or of other traffic.
- *RuleSync*: handlers go on; events are redelivered; `RequestUpdate` is strongly fair, because the
  scheduling rule fires every 12 hours for as long as it exists, while free handlers come and go.
- *LookupSync*: as RuleSync; delivery of events is strongly fair too, as updates come and go between.
- *CLIRun*: handlers go on (a command ends: `toolCommandExecutionTimeout`), the process receives its signal, `Shutdown` returns (it
  has a deadline), Cloud Run starts a process for a waiting message; delivery of each message is strongly fair, because processes that could take it come and go with each command.
  Nothing is assumed of failures or of the platform's stops.
- *Simulator*: goroutines go on, and a message is answered or its connection fails. Nothing is assumed of what the extension answers.
- *Dispatch*: the webhook and its sender go on.
- *SecretCache*: none. `RefusalsStop` holds without fairness: rotations are bounded, and each refusal uses up a stale value.

The redelivery is that of an external system. What the repository says of it is
`simulator/SIMULATOR_README.md:365` ("The backend retries 500 errors but stops on 400 errors"); that a 204 counts as success like any 2xx
is an assumption of ours.

## 5. Proofs

TLAPS proves the following for all values of the constants that satisfy the modules' assumptions `ConstantsOK`:
any number of organizations, handlers, callers, projects, rotations and failures.

| Module | Theorems | Say |
|---|---|---|
| MultiplexerProofs | `TypeCorrect` | `Spec => []TypeOK`, also with overlapping deliveries |
| | `AckedSubscribedCorrect`, `RecordOutlivesServiceCorrect` | `Serial /\ Spec =>` the two properties |
| | `ImplementsSubscriptionCorrect` | `Serial /\ Spec => ImplementsSubscription`: the step simulation |
| | `NoOrphanCorrect`, `AckedUnsubscribedCorrect` | the two invariants, for `Serial`, `OneProject` and `NoneAbandoned` |
| | `OnlyAbandonedAreOrphansCorrect`* | only the four failures that `NoneAbandoned` excludes make an orphan, for `Serial` and `OneProject` |
| | `WedgedForGoodCorrect`* | a service without a record stays for good, and its organization is never acknowledged again, for `Serial` and `OneProject` |
| | `UnsubscribedHasNoRecordCorrect`* | an acknowledged unsubscription left no record, for `Serial` alone |
| SecretCacheProofs | `TypeCorrect`, `RefusedOnlyAfterRotationCorrect` | the two invariants |
| | `CacheHealsCorrect`* | the safety core of `RefusalsStop` |
| DispatchProofs | `TypeCorrect`, `RunsPerFailureCorrect`, `DeliveredMeansHandledCorrect` | the three invariants |
| | `GoGivesUpForGoodCorrect`* | the safety core of `GoHandlesEventually` |
| | `GoUnsetIsRetriableCorrect`* | `UnsetIsRetriable`, which Python violates, for Go |
| WebhookAdapterProofs | `TypeCorrect`, `SoloCreateHealsCorrect`, `SoloDeleteCleansCorrect` | the three invariants |
| RuleSyncProofs | `TypeCorrect`, `UndisturbedUnsubscribeSweepsCorrect` | two invariants |
| | `SubscribedIsScheduledCorrect` | the third, for releases without rules in `managed` (`NotManaged`) |
| | `SparesUserRulesCorrect` | the action property, without such a condition |
| | `QuietUpdatesSyncCorrect`* | the safety core of `EventuallyInSync` |
| | `UpdatesIdempotentCorrect`* | an update of an organization in sync has an empty batch, for `NotManaged` |
| LookupSyncProofs | `TypeCorrect`, `AckedUnsubscribeSweepsCorrect`, `SparesUserLookupsCorrect` | the invariants and the action property |
| | `StuckForGoodCorrect`* | the exception of `EventsSettle` has no way out until the user subscribes again |
| | `ImplementsSubscriptionCorrect`* | the step simulation: LookupSync is a `Subscription` |
| | `QuietUpdatesSyncCorrect`* | the safety core of `EventuallySynced` |
| CLIRunProofs | `SendsThroughKeptCorrect`, `NoLeakedClientCorrect` | the invariants of AdapterClients, in CLIRun |
| | `TypeCorrect`, `CutOnlyByOthersCorrect` | the others that are not about liveness |
| | `ClientsImplemented`* | CLIRun implements AdapterClients |
| | `NoStopIsLostCorrect`* | the safety core of `CommandsStopTheProcess`: a signal that was sent is not lost |
| SimulatorProofs | `TypeCorrect`, `RecordsCanRunCorrect`, `NothingLostCorrect`, `ExecutedAsDueCorrect` | the four invariants |
| | `RunsOutCorrect`* | the safety core of `CallsReturn` |

The theorems with a star are about formulas that no passing run of `PROJECT.json` checks. They are defined in the proof modules, next to
their theorems, and were checked by TLC on the runs' instances before they were proved. Most of them are the part of a liveness property that a handler's code decides, as a property of steps: that a step which is taken
heals, progresses or loses nothing. The rest, that those steps are taken and that disturbances end, stays with TLC and fairness.

*Multiplexer.* `TypeOK` is inductive: it includes which local variables a handler has at each step (`JobOK`).
`AckedSubscribed` is not: a handler in the middle of a deletion could break it. The inductive invariant
`SerialInv` adds that at most one handler has an event of an organization (`OneEventHandler`, where `Serial` is
used), that an organization whose event is handled is not acknowledged (`BusyIsUnacked`), and for each
handler (`HandlerInv`): a handler of a request only forwards; one with an event holds the current record in `send`, `runDelete` and `dsDelete`; before
`dsDelete` the service is no longer up; and an "ok" about to be sent for a subscribe is true. The last part is what
makes `Reply` safe, the first three what keeps it true. `RecordOutlivesService` follows from the third.

`NoOrphan` is false in general (finding 1), so what is proved first is exactly when it becomes false. `Orphaned(p, o)` is its negation for one service.
Of the steps of the handler of o's event (`OwnerOrphans`), only those that end `createService` between the creation of the service and its record make
one, and the creation itself if its answer is lost: a failed `op.Wait`, a failed deletion after a failed put, a death (`Abandons`). The steps of others (`OthersOrphan`) and of the environment make none.
`NoneAbandoned` says that those four failures are not in `Faults`, as in the run; the other nine kinds may be.
`OneProject` is needed because a redeployment to another project makes orphans too (section 6). `AckedUnsubscribed` is then the conjunction of two
facts of different strength: that the record is gone needs no hypothesis but `Serial` (`UnsubscribedHasNoRecord`), that
the service is gone follows from `NoOrphan`, as no handler is about to write a record for a settled organization.
`WedgedForGood` is the converse of a recovery: while a service is orphaned, the only handler of its organization's events has no record to send or delete by
(`OwnerWedge`), so none of its answers is "ok" (`Unanswered`), and nothing deletes the service.

*SecretCache.* `CalmInv`: a call during which nothing was rotated, and that overlaps only such calls,
sees in the cache either nothing or the current value once it has deleted the entry. It is the
point of `calm`: with `fresh` alone the property is false, since an older call may store its stale value between the
deletion and the second read. The comment at `utils.go:38` does not hold for concurrent callers.
`CacheHeals`: `Clean` says that no entry and no value about to be stored is an old one. A clear makes it true if
nobody is about to store an old value; from then on, until the next rotation, it stays, and each refusal uses up one of the callers that have read an old value (`Stale`).

*Dispatch.* `AnswerInv` says what each status implies about the callback, before and after the conclusion, and `RunsInv` that callbacks ran at most as often as
something failed, and once more only if the answer settles the message. `GiveUpInv`
says it of what a sender gives up on: a genuine message is answered 4xx by Go only if it has no callback, the callback's error is permanent, or the body ended early.

*Subscription.* The simulation uses `SerialInv`: a handler's step only touches the record and the service of its own organization,
whose event it handles, so that organization is not settled (`HandlerWorks`); the answers are true by the last part of `HandlerInv`
(`ReplySettles`); of the environment, `DeletionDone` must not disturb a service that is up (`EnvironmentServes`).
For LookupSync, `ServesInv`: what is acknowledged is true of the scheduling rule, and a handler that has passed the rule's call, or will answer "ok", finds it as
its event wants it.

*WebhookAdapter.* `SoloInv`: a call that no other overlaps knows all the keys there are: what it has listed and has yet to delete, and the
one that it keeps. A delete that ends has therefore nothing left, whatever was there when it began.

*RuleSync.* `ScheduledInv`: one event is in progress at a time, and the scheduling rule is there from when a
subscribe's handler has added it; updates do not remove it because their batches have no names in `managed`. `SweepInv`:
while nothing disturbs an unsubscription, no rule becomes tagged, and each tagged rule of a namespace it has listed is in its batch.
`SpareInv`: the tag is only ever on rules whose names a release has, or on the scheduling rule, and a batch, however old, only contains such names;
so a batch that is executed after the user changed the rules cannot touch another one. `Fresh`: an update's batch is exactly the difference between
the hive and the current release; while that is so, executing it gives `InSync`, and it is empty if the rules are in sync already. The latter
needs `NotManaged`, as the scheduling rule would be in the difference.

*LookupSync.* `SweepsInv` is the same for lookups, without a condition on failures, since an unsubscription that met one is not
acknowledged. `StuckForGood` needs the types only: from "remove" there is no way on without the scheduling rule. `ReleasedInv`: only names releases are ever tagged, or in the list of a sweep.
`Fresh`: an update has the current release, and the names it has no longer to push are up to date.

*CLIRun.* `ClientsInv`: a sender that is about to be registered is open, not kept for anyone, and nobody else's, so that closing it
does no harm. It is proved of AdapterClients by itself, and CLIRun implements AdapterClients (`ClientsImplemented`). `ProcessInv`: in a live process those who have sent a
signal are about to answer, and a signal was sent by one of them or by something that is in `told`.
`StopsInv` is the other direction: whoever asked, or a command that is about to be answered and did not fail to, has sent one.

*Simulator.* `SimulatorInv`: in every stack the levels grow by one from frame to frame, which bounds the
recursion; each frame whose loop has begun accounts for all that was asked, and has executed all that is due but for the one on top of it.
`RunsOut` gives `CallsReturn` its measure: the remaining work of a call's messages, from the first one sent to the innermost, is a sequence of bounded numbers, no longer than
the recursion can be deep, and each step of the call makes it smaller in the lexicographic order (`Closer`). That this order is well-founded is not proved: it takes an induction.

*Only model-checked.* The ten liveness properties: temporal reasoning under fairness, and `ENABLED`, are beyond the provers.

| Liveness property | What is proved of it | What only TLC shows |
|---|---|---|
| `RefusalsStop` | `CacheHeals`: after a clear that nobody overlaps with an old value, refusals only become fewer | that the old values run out |
| `GoHandlesEventually` | `GoGivesUpForGood`: a sender does not give up on what might succeed | that it posts again, and the webhook answers |
| `EventuallyInSync`, `EventuallySynced` | `QuietUpdatesSync`: an update nobody disturbs ends in sync | that some update is not disturbed |
| `CommandsStopTheProcess`, `DeafProcessEnds` | `NoStopIsLost`: a signal that was sent is in the channel or was received | that `Shutdown` follows and ends |
| `EverythingSettles` | nothing | all |
| `CallsReturn` | `RunsOut`: each step descends | that steps are taken, and that the order is well-founded |
| `SubscribeSettles` | where it fails: `OnlyAbandonedAreOrphans`, `WedgedForGood` | that it holds elsewhere |
| `EventsSettle` | that its exception is final: `StuckForGood` | that there is no other |

Every invariant and every action property that a passing run checks is a theorem.

## 6. What the models found

The first three are runs that TLC finishes with a counterexample.

1. *A failed wait wedges an organization* (`MultiplexerWedged`, `multiplexer.go:293,300,444`). If
   `op.Wait` fails, the service exists without a record. Every retry gets AlreadyExists, takes it for
   success, finds no record to forward by, and cannot delete the service either because `deleteService`
   needs the record. The same dead end follows a `CreateService` whose answer is lost after Cloud Run accepted it (`multiplexer.go:439`), a crash before the put, and a failed put with a failed cleanup.
   For one project and serial delivery these four are the only ways into it (`OnlyAbandonedAreOrphansCorrect`), and nothing that the multiplexer or a retry does leads out of it (`WedgedForGoodCorrect`).
2. *Rules in `managed` end the updates* (`RuleSyncManaged`, `dr.go:346`): the first update deletes the scheduling rule, which has
   the same tag and is not in the release. For all other releases `SubscribedIsScheduled` is proved.
3. *Python gives up where Go retries* (`DispatchPython`, `ext.py:59`): an error whose `is_retriable` is not set is
   answered 400, against `common/messages.go:100` and the body of the same answer.

These are conditions that passing runs and theorems are stated with. Take the condition away, and TLC finds the case:

4. *A failed unsubscribe of lookups never succeeds* (`lookup.go:131`). If it fails after it removed the scheduling rule, each retry
   gets RECORD_NOT_FOUND for the rule and returns it; the lookups stay ("We also remove the lookups.", `lookup.go:135`). The same happens to an organization that
   unsubscribes when its subscription had failed before it added the rule; then nothing stays, but the event is retried for ever. `EventsSettle` names both as its exception (`Stuck`), and
   `StuckForGoodCorrect` proves that it is final. `dr.go:181`, the same code for rules, tolerates that error.
5. *Overlapping deliveries delete a good service* (`multiplexer.go:300`; `Serial = FALSE`, no failure, `AckedSubscribed`). The second delivery of a
   subscribe sees the first one's service before its record is written, fails to forward, and later deletes it; the
   first one is acknowledged.
6. *Two installation keys* (`adapter.go:50-52,108`; without `alone`). Two overlapping creates in Go both add a key. The next create that runs alone repairs it.
7. *Rules, or lookups, after unsubscribing* (`dr.go:373`, `lookup.go:218`; without `undisturbed`): an update in progress applies its batch, or pushes its lookups, after the sweep.
8. *A command may run twice* (`server.go:59`; without `told` and `stoppers` in `CutOnlyByOthers`): what is accepted between a command's answer and the shutdown is cut off after
   10 seconds, which a command may exceed, and posted again. `cli.go:290` avoids it by a setting of the service ("let one request at a
   time") that is not in this repository, and that leaves the time between the answer and the signal's receipt.

Noted while reading, modelled as they are, without a run of their own:

- An unsubscribe of a service that does not answer (e.g. `makeServicePublic` failed) fails to forward and
  returns before `deleteService`: it is retried, and the service stays, until it answers. The retry of an unsubscribe
  whose answer was lost fails too, as the record is gone.
- A redeployment to another project between a subscribe and its retry creates a second service
  and overwrites the record of the first, which is orphaned.
- A body that ends early is answered 204 (`extension.go:114`), which a sender takes for success, or 400 if it is compressed and ends in gzip's header
  (`extension.go:105`), on which it gives up. The Response has an Error and no Retriable, "considered to be retriable" (`common/messages.go:100`). `DeliveredMeansHandled` and
  `GoHandlesEventually` name it as an exception (`cut`).
- A Python exception whose text is empty (`raise Exception()`, a failed `assert`) becomes a Response whose error is empty, which is no error: 200 (`ext.py:58,93`). `DeliveredMeansHandled`
  names it as an exception (`"silent"`).
- A Python extension whose secret is None accepts every message (`ext.py:75-76`), so no property here is about signatures alone.
- A process that cannot signal itself only logs it: after a command it stays ("Should we add a safe guard", `cli.go:108`), and after its listener failed it stays without one (`server.go:47-50`).
  The liveness properties of CLIRun name both.
- A command whose connection is lost goes on while its message is posted again (`cli.go:354`), and may run twice beside itself.
- If the SDK cannot be initialized while validating a configuration, `extension.go:204` reads a nil
  Request and panics; the sender gets no answer and retries.
- The comment at `extension.go:235` speaks of 503 and 500, the code answers 500 and 400.
- Rules of a namespace that a later release no longer has remain until the organization unsubscribes.
- The batch of an update deletes by name: if the user replaces a tagged rule by one of the same name meanwhile, it is the user's that goes.
- A lookup that a later release drops stays until the organization unsubscribes: `onUpdate` only adds. `EventuallySynced` is about the names of the release.
- `TryParsingOutput` makes a new decoder over the same reader in each iteration (`cli.go:410-411`); a decoder reads ahead, so of several values in a
  row only the first is sure to be found, although "Try to parse multiple dictionaries in a row." (`cli.go:406`).
- A continuation's delay over the limit is reported as "clamped" (`simulator.go:755`) and is recorded as it was asked for.
- Continuations of one response have one idempotency key between them, `parent:level` (`simulator.go:546`).

## 7. What is not modelled

- *Simulator*: its lists of errors and metrics are appended to and never read, configurations and mock servers are settings of the test, and
  the responses of heartbeats, schema requests, validations and error reports ask for nothing.
- *CLI extension*: the parsing of a command's output; *web server*: the parsing of PORT, a single conversion.
- *Messages, schemas, metrics, packaging, examples*: data definitions and glue without state.
- *Multiplexer init* (the schema handshake with the reference service) and the two user hooks: they do not change the services.
- *Contents*: names, texts, payloads and logging. Equality of rules (`areEqual`) is equality of contents and suppression.
- *Time*: a timeout is a failure that may come at any step.

## 8. Plan

Done, in this order (most state and most failures first): Multiplexer, SecretCache, WebhookAdapter, RuleSync, Dispatch;
LookupSync; AdapterClients and CLIRun; Simulator; Subscription and its refinement; the proofs in section 5. Worth doing next:

1. More of the liveness properties' safety cores: that a subscribe's handler which meets no failure, and no orphan, ends reachable; that an event of
   LookupSync which meets no failure and is not `Stuck` is answered "ok".
2. A *Register* with stale reads that SecretCache implements.
3. An abstract specification of a converging set (the release, the user's, the tagged) that both RuleSync and LookupSync implement in their updates, as they do not
   share `Subscription`.
4. Extensions of several organizations in one run of CLIRun, where the senders of different organizations share a process.

## 9. How to run

    tlc -workers 2 -config MCMultiplexerSafety.cfg MCMultiplexer
    tlapm MultiplexerProofs.tla

Each configuration's name starts with the name of its module, and `PROJECT.json` lists them. The longest run
(`MCRuleSync`) takes a minute or so, the longest proofs (MultiplexerProofs, RuleSyncProofs) a few minutes.
