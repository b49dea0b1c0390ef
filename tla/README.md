# KubePilot-AI in TLA+

KubePilot-AI is a Kubernetes controller. It turns Warning Events into `AIIncident`
objects, has an LLM diagnose each of them, sends the diagnosis to chat channels, and
inspects the whole cluster on a schedule. This directory holds TLA+ modules of its
components, the TLC runs that check them on small instances, and theorems, checked by
TLAPS, that hold for every value of the constants. `PROJECT.json` maps each definition
to the lines it models. Paths below are relative to `src/kubeai-controller/`.

## The system

| component | state it keeps | operations | interacts with | what is hard |
|---|---|---|---|---|
| AIIncident controller, `controllers/aiincident_controller.go` | none of its own: the phase, retry count and results in each object's status | one handler per phase; `updateStatus` | API server (write), informer cache (read), LLM manager, notifier manager | stale reads, conflicts, repeated work, restarts |
| EventIncident controller, `controllers/eventincident_controller.go` | none | `Reconcile`: filter, map, name, create | informer caches of Events and AIIncidents, API server | two lagging caches, Events that grow old, refused objects |
| notifier manager, `pkg/notifier/notifier.go` | `lastSent`, `window`, `suppCount`, `suppStats`, `lastFlush`, under one lock | `Send`, `flushDigest` | called by the AIIncident worker and the inspection runner; calls the channels | two critical sections per call, timestamps older than the call, a concurrent digest |
| channels and renderer, `pkg/notifier/{wechat,dingtalk,render}.go` | none | `Send`, truncation, table flattening | HTTP webhooks | byte limits |
| LLM manager and providers, `pkg/llm` | registered providers, the default | `Analyze`, `RenderReport`, parsing of answers | HTTP APIs | answers that do not parse, defaults |
| schedule and runner, `pkg/inspection/{schedule,runner}.go` | the parsed schedule | `next`, `Start`, `runOnce` | collectors, LLM, notifier manager | boundaries of hours and days, long runs, shutdown |
| collectors, scores, report, `pkg/inspection/{runner,runner_extras,cron_simple}.go` | none | `collect*`, `score*`, `build*` | cached lists | truncation before counting, missing data |
| configuration, process, `pkg/config`, `cmd/main.go` | filters, credentials, schedule | start, shutdown | all | missing settings, cancellation |

Data flow: Event -> EventIncident controller -> AIIncident object -> AIIncident
controller -> LLM -> status -> notifier manager -> channels; and schedule -> runner ->
report -> notifier manager. Each controller has one worker (controller-runtime's
default), the deployment has one replica with strategy Recreate, the runner is one
goroutine and so is the digest. All memory except what is in the API server is lost
at a restart.

What makes each part correct:

* AIIncident controller: no incident with work left is forgotten; stale reads have a
  bounded effect; updates are not lost; Resolved means the work was done; every incident
  settles.
* EventIncident controller: an Event that is news and means something gets an incident,
  once, in spite of errors, lag and restarts.
* Notifier manager: the cooldown and the rate limit hold for concurrent senders; nothing is
  suppressed without a cause, and what was suppressed is reported, once.
* Runner: each time of the schedule is inspected once; a shutdown ends the loop.
* LLM: a process that runs can serve its requests; an outage is an error and never a
  diagnosis; a well-formed answer is understood; every request ends.
* Inspection: level, title and summary agree although they are computed in three places;
  no cut hides what is urgent; findings joined from two lists are of the cluster and not
  of the time between the lists; trouble never improves the score; a run returns.
* Renderer and channels: a message fits, ends between two characters, and loses only
  table headings and separators, empty cells and cells that are a dash, and what the limit
  cuts off.

The hazards behind these, each with its line and the properties that cover it, are listed
in `PROJECT.json`.

## Modules

### AIIncident

`server` is the stored status, `watch` the versions on their way to the informer, `cache`
what every `Get` returns. `queue` and `delayed` are the client-go work queue: keys that
may be handed out and keys in backoff; a key being processed that is added again is
handed out afterwards. `worker` is the reconcile worker. `TakeKey`
takes a key; `Reconcile` reads the cache and dispatches on the phase; `LLMReturns`
and `SendReturns` are the two long calls; `UpdateStatus` is one attempt of
`updateStatus`, of which only an attempt on a current copy is stored (the API server's
resourceVersion). The environment creates, deletes and edits objects, lets a write fail
before or after it was stored, and restarts the process. `uid` tells a new object from
its deleted namesake. The statuses keep what the control depends on: phase, retry count,
level, Notified and the notification's result.

The manager appears as the set `cooling` of incidents whose message would be suppressed;
it is empty after a restart, since the manager's memory is.

### IncidentLifecycle and AIIncidentRefinement

`IncidentLifecycle` is what the controller promises to whoever watches an incident: the
phases follow each other as the API documents them, from a version that may be old, and a
retry is only granted below the limit. It has no worker, queue or cache, only `status`, the
stored phase and retry count, and `views`, the versions somebody may still act on.
`AIIncident` maps `server` to `status`, and what the cache, the informer's stream and the
worker hold of an incident to `views`. A conflict, a lost write, a restart or a delivery to
the cache maps to a stutter or to `CatchUp`; a stored status to `Advance`.

### NotifierManager and NotifierGate

One action per critical section: `DecideAndRecord`, `Prepare`, and `FlushDigest` for
the digest goroutine; `Deliver` and `DeliverDigest` call one channel each with no lock
held. `Make` separates a message's timestamp from the call of `Send`: the reconciler's
message is stamped just before, the runner's at the start of its run. The window is a set
of records, since only their number and timestamps matter. `FlushDigest` takes any of the
most suppressed keys, as `sort.Slice` leaves the order of equal counts open.

`NotifierGate` is what the manager promises: a message is let through or suppressed by the
messages let through before it, all of them, and the title of each that is let through
tells of every suppression of its key so far. It has no `lastSent`, `window` or counters,
only the history. `NotifierManager` maps its senders to the gate's callers (`Caller`) and
its history variables to the gate's; calls of channels and digests map to stutters. A late
message, stamped before others that overtook it, may be let through although the minute
before its stamp was full, but never if the current minute is.

### EventIncident

An Event has a fixed description and the timestamp of its last occurrence.
`Rules` is `mapEventToTrigger`'s list of rules, first match first; `Wanted` the early
returns; `Reconcile` reads both caches; `CreateReturns` is the API server's answer.
`Valid` holds the enums of `deploy/crd.yaml` and the limit on label values. `dismissed`
is a history variable: Events whose incident a user deleted after they occurred, or
before the informer of incidents knew.

### Schedule and InspectionRunner

`Schedule` is `parseCron5` and `dailySchedule.next` on a calendar whose minute, hour and
day have any length, with the meaning of a cron expression (`Matches`) to compare with.
`InspectionRunner` is the loop of `Runner.Start`: schedule, wait, inspect, until the
context is done. An inspection is an interval of any length here.

### CronSimple, Scores, Collectors and InspectionReport

The contents of one inspection, `runOnce`.

* `CronSimple` is `cron_simple.go`: which fields of a CronJob's schedule it reads, the
  search for the next time minute by minute over 48 hours, and `collectWorkloads`'
  inference that a run is overdue. `MissedARun` says the same without a search.
* `Scores` is the arithmetic of every score, with the code's weights, penalties and clamps;
  the code computes with floats, the module with hundredths, rounded down.
* `Collectors` says what each collector takes for a finding: which conditions of a Pod are
  abnormal, which certificate is expired, which claim is unused, which Service has no
  endpoints, and how lists are sorted and cut. An object is a record of the fields a
  decision reads.
* `InspectionReport` is the run. `cluster` is what the informers' caches hold and goes on
  changing (`Appear`, `Vanish`); every collecting action reads the lists of one stage into
  `seen`, in the order of `runOnce`; kinds read twice have two entries (`Again`), as their
  two lists may differ. A list of a kind the controller may not read waits for its cache
  until the context ends, and its collector's error is dropped. Then the Pods are analysed,
  the report is built (`ReportOf`), perhaps rendered by the LLM, and a message is made
  with a level of its own (`Level`). `past` is a history variable: the objects there were
  when the first of two joined lists was read.

### Answers, Rendering and Diagnosis

* `Answers` says what the five providers make of a reply. A reply is a JSON body, or none:
  a body has fields, and of a field's value the module keeps its JSON type and the texts in
  it. Each `Analyze` decodes it into its own response type (`Unmarshals`: a field of another
  type is an error, an unknown one is skipped), looks at the error, then at the list that may
  be empty, and takes the first answer, in the code's order. A body may be of another API
  than the provider's. An answer is a sequence of pieces (an object, an object cut off,
  prose, a fence), not of characters, and is searched for an object, bare or in a fence.
* `Rendering` is `render.go`: tables are flattened, fonts normalised or removed, bullets
  replaced, blank lines joined, and a text is cut at its byte limit. A line is its kind, its
  font, its characters as code points and, in a table, its cells. `RowText` is
  `tableRowToLine`, cell after cell under the titles; `CutAt` is the scan of
  `truncateBytes`, byte after byte back to the start of a character. The bytes of font tags
  are not counted.
* `Diagnosis` goes from the environment to a chat: `Start` is `LoadConfig`, `Validate` and
  the registrations in `main`; `AskAnalysis` and `AskRendering` choose a provider; `Reply`
  and `TimeOut` end the HTTP call; `Compose` is what the caller makes of the outcome; `Post`
  is a channel's `Send`. `Restart` starts the process again with other variables.

### How the modules fit

The components meet at narrow calls, and each module keeps the other side's outcomes
open. `AIIncident.LLMReturns` allows an error or any level, which covers `Diagnosis`'
outcomes; `AIIncident.SendReturns` allows success, failure and suppression, which covers
`NotifierManager`'s `Send`; `InspectionRunner`'s inspection of any length covers
`InspectionReport`'s run; `NotifierManager`'s messages have any key, level and timestamp
either caller may give.

## Runs

| run | configuration | shows |
|---|---|---|
| `incident_safety` | one name, created twice, two retries, an edit, a failed write, a restart, a level the CRD refuses | `BoundedStaleness`, `RetryBound`, `NeverForgotten`, `NoLostUpdate`, `ResolvedAfterWork`, and that `IndInv`, the invariant of the proofs, holds |
| `incident_live` | one retry, no refused level | `EventuallySettled`, and that the controller implements `IncidentLifecycle` (`FollowsLifecycle`) |
| `incident_bad_level` | a level the CRD refuses | `EventuallySettled` is violated: the LLM is called for ever |
| `incident_delivery` | one restart | `DeliveredOnce` is violated: a notification is sent twice |
| `notifier` | two senders, two keys, four calls, cooldown 2, limit 2 in 3 ticks, a digest with room for one key | `CooldownSpacing`, `RateLimited`, `ToldOnce`, `LostOnlyIfFull`, and that the manager implements `NotifierGate` (`KeepsGate`) |
| `notifier_digest` | two keys due, room for one | `DigestedOnce` is violated: the records cut off are deleted unreported |
| `event` | two Events of six kinds, two occurrences, a deletion, an error, a restart | `NoEventForgotten`, `EventuallySettled` |
| `inspection` | every schedule but "every minute of one hour", every start | `OneRunPerTime`, `EveryTimeServed`, `ShutdownStops` |
| `schedule_past` | every schedule | `OneRunPerTime` is violated: inspections follow each other without a wait, until one ends in the last minute of an hour |
| `report` | every cluster of two objects in trouble or at a limit, or of many CronJobs; one change during the run; Secrets readable or not; a timeout at any point | `LevelsAgree`, `UrgentShown`, `OverdueMeansMissed`, `JoinsTruthful`, `TroubleNeverHelps`, `RunReturns` |
| `report_allclear` | the same clusters | `AllClearIsClear` is violated: with a full quota the report lists an urgent item and closes with "nobody needs to act" |
| `diagnosis` | four environments with restarts between them, 89 bodies that mix the APIs' errors and answers, every answer of up to four pieces, every draft of up to four lines of six kinds | `NeverUnserved`, `OutageIsNoDiagnosis`, `AnswerUnderstood`, `SentFits`, `TextSurvives`, `RequestsEnd` |

The five violations are the findings of `PROJECT.json`, each against a line of the
repository that says otherwise.

### Bounds

* AIIncident: each incident is independent but for the one worker and its fair queue, so
  one name suffices for the invariants; two incarnations of it are the least that lets a
  result cross from one to the other; two retries let the limit be passed by one; two
  attempts per update let a conflict be retried and given up. A second error or restart
  meets the same states as the first.
* NotifierManager: two senders interleave their critical sections, two keys compete for
  the limit and the one place in the digest, four calls fill the window and suppress twice, four ticks
  contain more than a minute of three. The theorems lift these bounds.
* EventIncident: two Events that may share an incident, or not; one tick makes an Event
  old (`MaxAge` 0).
* InspectionRunner: three hours of three minutes of two seconds have a first, a middle and
  a last of each, and a second within a minute; a day and a half crosses midnight.
* InspectionReport: the same calendar. The pool has each kind of object well, in trouble
  and just across a limit; two objects, one of them of a kind others are joined or compete
  with, are the least for a join or a cut. The lists' limits are 2, 1 and 1 and the report's
  2, 1 and 2, so that two findings overflow them. One change during the run suffices for
  two lists to differ; the newcomers use names again that were in use before.
* Diagnosis: four pieces hold an object in a fence after prose, or two fences; four lines
  hold a table with a heading, a separator and two rows, and text on either side of a
  shorter one. The two rows have cells that are empty, a dash, the same as their title and
  beyond the titles, and each may be the heading of the other. The bodies put every error
  next to every answer, in the right and in a wrong type, so that each check of each API
  decides some body. The limits of 14 and 17 bytes fall within lines and within characters.

### Fairness

LLM clients time out after 60 s (set in each constructor, as in `pkg/llm/openai.go:70`;
120 s for Ollama, `pkg/llm/ollama.go:68`), channels after 30 s
(`pkg/notifier/wechat.go:40`), and the API client's requests end: the worker's steps are
weakly fair. Informers deliver and backoffs expire, both weakly fair. The work queue is
first in, first out, so a key that is in it again and again is handed out: strong
fairness of taking each key. In the runner the steps of the goroutine are weakly fair,
and Go's `select` picks among ready cases at random, so stopping is strongly fair. A run's
steps are weakly fair, and the end of its context only if it has a timeout
(`HasTimeout`); `RunReturns` asks for no more. In `Diagnosis` the clients' timers fire and
the process goes on with what it has, but no API is assumed ever to reply. Users, errors,
crashes, the cluster and time are under no fairness.

## Proofs

* `AIIncidentProofs`: type correctness; `IndInv` is inductive. `BoundedStaleness` alone is
  not: one has to know that the informer's stream ends in the stored object
  (`StreamInv`), that nobody else writes a status while the worker holds a snapshot, and
  that a snapshot the cache has moved on from leaves the key queued (`WorkerInv`). From
  it follow `RetryBound`, `NeverForgotten` and the action property `NoLostUpdate`.
* `AIIncidentRefinement`: every behaviour of `AIIncident` is one of `IncidentLifecycle`
  under the mapping. Two lemmas carry it: a step that stores nothing maps to `CatchUp`
  (`ForgettingStep`), and one that stores a status was chosen on a version that is among
  the views. On the same versions rests `ResolvedAfterWork`: of the first object of a name,
  every version in a later phase, wherever it is held (stored, on its way, cached or in the
  worker's hands), has the LLM's and the notifier's calls behind it (`WorkInv`), and no
  version is of an incarnation yet to come (`UidInv`).
* `NotifierManagerProofs`: the cooldown needs that `lastSent` is the latest stamp of its
  key; the rate limit that the window, pruned by whatever timestamps arrive, still holds
  everything stamped within the last minute of the clock. `LostOnlyWhenFull` makes no
  assumption on the number of keys: a digest that leaves a due key out lists as many others
  as it has room for (`FullDigest`, from cardinalities), and what was listed stays listed
  (`ListedGrows`). `notifier_digest` shows the loss itself. `ImplementsGate` is the refinement: the last stamp of a key is
  that of a message let through, and the latest (`CoolingSame`), and the pruned window lies
  between the messages of the clock's last minute and those of the minute before the stamp
  (`CrowdSame`).
* `EventIncidentProofs`: type correctness and `NoEventForgotten`.
* `InspectionRunnerProofs`: `NextIsLater` and `NextIsFirst`, for every length of minute,
  hour and day: a regular schedule's next time is the first match after the clock. They
  rest on lemmas about division. `NoTimeTwice` and `EveryTimeInspected` follow, under
  the assumption that no schedule is of the irregular shape.
* `InspectionReportProofs`: `RunInv` says that report and message are functions of what was
  seen, `ObjectsInv` that the lists are finite and hold well-formed objects, `JoinInv` that
  the second of two joined lists holds nothing but what the first time knew, and newcomers.
  From these follow `LevelsAgree` and `JoinsTruthful`, and that all scores lie between 0
  and 100 for every cluster. `UrgentShown`, for every limit of the lists, needs that a cut
  of n keeps whatever has fewer than n items before it (`FirstAreFew`, from cardinalities of
  finite sets). `OverdueMeansMissed` is proved for every calendar and schedule: a match
  further away than a day has one a day before it (`SameEveryDay`), so the first match lies
  within the search (`NextFound`).
* `InspectionTroubleProofs`: `TroubleNeverHelps`, for every cluster, limit and object. Each
  score of the lists with the object is compared with the one without it: the object adds to
  what is counted as bad and, where there is a total, to the total, so that quotients,
  penalties and clamps go down or stay (`QuotientGrows`, `ClampGrows`); the weights keep
  that order, and the level only rises. It needs that the Ingresses of a list have different
  names (`NamesInv`), and the conditions the property states: a new name, room in the list
  of unready workloads, and for a Secret that no Ingress was waiting for it.
* `DiagnosisProofs`: `ConfiguredInv` (a running process has its default provider) and
  `CallInv` (a waiting request names a registered provider) give `NeverUnserved`.
  `AnswerInv` (an outcome is what the request's provider makes of the reply) gives
  `OutageIsNoDiagnosis`, by the checks of each provider on an arbitrary body
  (`AnalysisOfAnswer`), and `AnswerUnderstood` for answers of any length.
  `SentFits` and `TextSurvives` are proved for texts of any length. The recursive functions
  of `Rendering` are unfolded with `Recursion`, and induction runs on a set of numbers
  (`Induction`), by its smallest exception. The scan for a cut ends at a boundary, and passes
  none on its way (`CutScanned`), so it gives up nothing that fits (`CutFits`). The scan for
  tables gives each line outside headings and separators a line of its own in the result
  (`Scanned`, `Covers`); a row's line holds its label and its cells (`CellWritten`,
  `RowTextHolds`); and joining blank lines and trimming drop blank lines only
  (`CompactKeeps`, `TrimKeeps`).

The assumptions are those the modules name (`ASSUME`); TLC evaluates them in the runs. The
ones that are more than types: clusters are finite and their objects well-formed
(`WellFormed`, what the API server lets in), the Ingresses of a cluster have different
names, objects that appear during a run are younger than any age a collector looks at, the
objects of `Troubles` are in trouble (`InTrouble`), the search covers at least a day, the
lists' limits are positive, and a channel's limit has room for the suffix of a truncated
text (35 bytes of 3800 or 18000, `pkg/notifier/render.go:13`).

All safety properties of the passing runs are proved. Only model-checked: liveness
(`EventuallySettled`, `ShutdownStops`, `RunReturns`, `RequestsEnd`), which needs fairness
and `ENABLED`.

## Not modelled

* A composition of all modules in one state machine. The calls between components are
  modelled on both sides with every outcome left open (see "How the modules fit"); a joint
  state space is out of TLC's reach.
* The informers' ten-hour resync: it queues keys again, as an edit does.
* Leader election: off by default, and the deployment has a single replica.
* `HealthCheck`, `HealthCheckAll` and `ListProviders`: nothing calls them.
* Pod logs, node usage and namespace resources where they are only printed; prompts,
  Markdown layout and log lines: data no modelled decision depends on.
* DingTalk's signature: a pure computation of a URL.
* A wall clock that is set back: the models' clocks are monotonic.
* The time zone of a CronJob: the code reads every schedule in the runner's, and so do the
  modules.
* Generated deep copies and the deployment's manifests, but for the CRD's enums, the single
  replica and the Recreate strategy.

## Order of work

The modules were written in the order of their importance: `AIIncident`, `NotifierManager`,
`EventIncident`, `Schedule` with `InspectionRunner`, then `IncidentLifecycle` with the
refinement, `CronSimple`, `Scores`, `Collectors` and `InspectionReport`, and `Answers`,
`Rendering` and `Diagnosis`, each with its proofs, and at last `NotifierGate`. What would
come next is the same gate over restarts, where the history is lost, as the environment
that `AIIncident` assumes with its set `cooling`.
