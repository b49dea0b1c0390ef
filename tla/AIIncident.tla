------------------------------ MODULE AIIncident ------------------------------
(***************************************************************************)
(* The AIIncident controller (controllers/aiincident_controller.go): one   *)
(* reconcile worker that drives every AIIncident object through its phases *)
(*                                                                         *)
(*    Pending -> Analyzing -> Analyzed -> Notifying -> Resolved            *)
(*                  |  ^                                                   *)
(*                  v  | (retry, through Pending)                          *)
(*                 Failed                                                  *)
(*                                                                         *)
(* The worker reads objects from an informer cache that lags the API       *)
(* server, writes statuses with the API server's optimistic lock, and      *)
(* retries a conflicting write a few times.  Between the read that chose   *)
(* the handler and the write of the handler's result lie an LLM call or a  *)
(* notification, and the write is applied to whatever the cache holds by   *)
(* then.                                                                   *)
(***************************************************************************)
EXTENDS Integers, Sequences, FiniteSets

CONSTANTS
  Incidents,    \* namespaced names of AIIncident objects
  NoKey,        \* the key of an idle worker
  RetryLimit,   \* config.LLM.RetryCount
  UpdateSteps,  \* attempts made by RetryOnConflict (4 in retry.DefaultBackoff)
  LLMLevels,    \* levels an LLM answer may carry; the code does not check them
  MaxCreates,   \* bound: how often one name is created
  MaxEdits,     \* bound: metadata or spec edits by users
  MaxErrors,    \* bound: failed status updates other than conflicts
  MaxCrashes    \* bound: restarts of the controller

\* The level enum of the deployed CRD; an absent level ("") passes too.
CRDLevels == {"", "Critical", "Warning", "Info", "Success"}

ASSUME KeyAssumption    == NoKey \notin Incidents
ASSUME LimitAssumption  == RetryLimit \in Nat /\ UpdateSteps \in Nat \ {0}
ASSUME LevelAssumption  == LLMLevels \subseteq STRING
ASSUME BoundsAssumption == /\ MaxCreates \in Nat /\ MaxEdits \in Nat
                           /\ MaxErrors \in Nat /\ MaxCrashes \in Nat

VARIABLES
  server,    \* the API server's object of each name
  watch,     \* versions of it the informer has not received yet, oldest first
  cache,     \* the informer's copy, what every Get returns
  queue,     \* keys the work queue may hand out
  delayed,   \* keys AddRateLimited put back, waiting for their backoff
  worker,    \* the reconcile worker
  cooling,   \* incidents whose message the notifier sent within its cooldown
  budget,    \* how often the bounded environment events have happened
  answered,  \* history: incidents an LLM answered for
  announced, \* history: incidents NotifierManager.Send was called for
  delivered  \* history: messages that reached a channel, counted up to 2

envVars   == <<cooling, budget>>
histVars  == <<answered, announced, delivered>>
apiVars   == <<server, watch>>
queueVars == <<queue, delayed>>
vars == <<server, watch, cache, queue, delayed, worker, cooling, budget,
          answered, announced, delivered>>

Phases == {"", "Pending", "Analyzing", "Analyzed", "Notifying", "Resolved", "Failed"}

\* An object: the status fields the control depends on, and the incarnation
\* (uid) that tells an object from its deleted namesake.  uid 0: no object.
Objects == [uid: Nat, phase: Phases, retry: Nat, level: LLMLevels \cup {""},
            notified: BOOLEAN, result: {"", "Success", "Failed"}]

NewObject(u) == [uid |-> u, phase |-> "", retry |-> 0, level |-> "",
                 notified |-> FALSE, result |-> ""]
Absent    == NewObject(0)
Exists(o) == o.uid # 0

\* The closures handed to updateStatus: which one, the LLM's level, and
\* whether Send returned an error.
Ops == {"begin", "fail", "analyze", "announce", "resolve", "retry"}
Mutations == [op: Ops \cup {"none"}, level: LLMLevels \cup {""}, err: BOOLEAN]
Mutation(op)  == [op |-> op, level |-> "", err |-> FALSE]

Workers == [pc: {"idle", "get", "llm", "send", "update"},
            key: Incidents \cup {NoKey},
            snap: Objects,           \* the incident the handler was chosen on
            mut: Mutations,          \* the closure updateStatus is running
            tries: 0..(UpdateSteps - 1)]
IdleWorker == [pc |-> "idle", key |-> NoKey, snap |-> Absent,
               mut |-> Mutation("none"), tries |-> 0]

Budgets == [creates: [Incidents -> 0..MaxCreates], edits: 0..MaxEdits,
            errors: 0..MaxErrors, crashes: 0..MaxCrashes]

Init ==
  /\ server    = [i \in Incidents |-> Absent]
  /\ watch     = [i \in Incidents |-> <<>>]
  /\ cache     = [i \in Incidents |-> Absent]
  /\ queue     = {}
  /\ delayed   = {}
  /\ worker    = IdleWorker
  /\ cooling   = {}
  /\ budget    = [creates |-> [i \in Incidents |-> 0],
                  edits |-> 0, errors |-> 0, crashes |-> 0]
  /\ answered  = {}
  /\ announced = {}
  /\ delivered = [i \in Incidents |-> 0]

-----------------------------------------------------------------------------
(* The API server and its users.                                           *)

\* A new version of the object is stored and a watch event announces it.
Publish(i, o) ==
  /\ server' = [server EXCEPT ![i] = o]
  /\ watch'  = [watch EXCEPT ![i] = Append(@, o)]

\* EventIncidentReconciler or a user creates the object.
CreateIncident(i) ==
  /\ ~Exists(server[i])
  /\ budget.creates[i] < MaxCreates
  /\ Publish(i, NewObject(budget.creates[i] + 1))
  /\ budget'    = [budget EXCEPT !.creates[i] = @ + 1]
  /\ UNCHANGED <<cache, queueVars, worker, cooling, histVars>>

\* A user deletes it; what was done for it is forgotten with it.
DeleteIncident(i) ==
  /\ Exists(server[i])
  /\ Publish(i, Absent)
  /\ answered'  = answered \ {i}
  /\ announced' = announced \ {i}
  /\ delivered' = [delivered EXCEPT ![i] = 0]
  /\ UNCHANGED <<cache, queueVars, worker, envVars>>

\* A label, annotation or spec edit: a new version with the same status.
EditIncident(i) ==
  /\ Exists(server[i])
  /\ budget.edits < MaxEdits
  /\ Publish(i, server[i])
  /\ budget' = [budget EXCEPT !.edits = @ + 1]
  /\ UNCHANGED <<cache, queueVars, worker, cooling, histVars>>

-----------------------------------------------------------------------------
(* The informer and the work queue.                                        *)

\* Mutant: an event for the key being processed is dropped.
DeliverWatchUnmarked(i) ==
  /\ watch[i] # <<>>
  /\ cache' = [cache EXCEPT ![i] = Head(watch[i])]
  /\ watch' = [watch EXCEPT ![i] = Tail(@)]
  /\ queue' = IF worker.key = i THEN queue ELSE queue \cup {i}
  /\ UNCHANGED <<server, delayed, worker, envVars, histVars>>

\* The informer receives the oldest event it has not seen; its handler adds
\* the key, also while the worker is busy with that key.
DeliverWatch(i) ==
  /\ watch[i] # <<>>
  /\ cache' = [cache EXCEPT ![i] = Head(watch[i])]
  /\ watch' = [watch EXCEPT ![i] = Tail(@)]
  /\ queue' = queue \cup {i}
  /\ UNCHANGED <<server, delayed, worker, envVars, histVars>>

DelayExpires(i) ==
  /\ i \in delayed
  /\ delayed' = delayed \ {i}
  /\ queue'   = queue \cup {i}
  /\ UNCHANGED <<apiVars, cache, worker, envVars, histVars>>

TakeKey(i) ==
  /\ worker.pc = "idle"
  /\ i \in queue
  /\ queue'  = queue \ {i}
  /\ worker' = [IdleWorker EXCEPT !.pc = "get", !.key = i]
  /\ UNCHANGED <<apiVars, cache, delayed, envVars, histVars>>

\* Reconcile returns.  Requeue: true and an error both mean AddRateLimited.
Return(requeue) ==
  /\ worker'  = IdleWorker
  /\ delayed' = IF requeue THEN delayed \cup {worker.key} ELSE delayed
  /\ queue'   = queue

-----------------------------------------------------------------------------
(* Reconcile: the Get and the dispatch on the phase it returned.           *)

Found == cache[worker.key]

\* Dispatch to a handler that goes on at pc, perhaps with a closure to apply.
Dispatch(pc, op) ==
  /\ worker' = [worker EXCEPT !.pc = pc, !.snap = Found, !.mut = Mutation(op)]
  /\ UNCHANGED queueVars

GetNotFound == ~Exists(Found) /\ Return(FALSE)

HandlePending   == Found.phase \in {"", "Pending"} /\ Dispatch("update", "begin")
HandleAnalyzing == Found.phase = "Analyzing" /\ Dispatch("llm", "none")
HandleAnalyzed  == Found.phase = "Analyzed"  /\ Dispatch("update", "announce")
HandleNotifying == Found.phase = "Notifying" /\ Dispatch("send", "none")
HandleResolved  == Found.phase = "Resolved"  /\ Return(FALSE)

\* Mutant: the retry guard lets one more retry through.
HandleFailedInclusive ==
  /\ Found.phase = "Failed"
  /\ \/ Found.retry <= RetryLimit /\ Dispatch("update", "retry")
     \/ Found.retry > RetryLimit  /\ Return(FALSE)

HandleFailed ==
  /\ Found.phase = "Failed"
  /\ \/ Found.retry < RetryLimit  /\ Dispatch("update", "retry")
     \/ Found.retry >= RetryLimit /\ Return(FALSE)

Reconcile ==
  /\ worker.pc = "get"
  /\ \/ GetNotFound
     \/ /\ Exists(Found)
        /\ \/ HandlePending
           \/ HandleAnalyzing
           \/ HandleAnalyzed
           \/ HandleNotifying
           \/ HandleResolved
           \/ HandleFailed
  /\ UNCHANGED <<apiVars, cache, envVars, histVars>>

\* Does the object the handler read still exist as that incarnation?
SameIncarnation == server[worker.key].uid = worker.snap.uid

\* handleAnalyzing, the call: LLMManager.Analyze fails, or answers with a level.
LLMReturns ==
  /\ worker.pc = "llm"
  /\ \/ /\ worker' = [worker EXCEPT !.pc = "update", !.mut = Mutation("fail")]
        /\ UNCHANGED answered
     \/ /\ \E l \in LLMLevels :
             worker' = [worker EXCEPT !.pc = "update",
                                      !.mut = [Mutation("analyze") EXCEPT !.level = l]]
        /\ answered' = IF SameIncarnation THEN answered \cup {worker.key} ELSE answered
  /\ UNCHANGED <<apiVars, cache, queueVars, envVars, announced, delivered>>

SendResult(err) ==
  worker' = [worker EXCEPT !.pc = "update", !.mut = [Mutation("resolve") EXCEPT !.err = err]]

\* handleNotifying, the call.  NotifierManager.Send returns nil without sending
\* when a filter, the rate limit or the cooldown suppresses the message;
\* otherwise it records the key and tries every channel: err if one failed,
\* reached if one did not.  Without an error some channel was reached.
SendReturns ==
  /\ worker.pc = "send"
  /\ \/ /\ SendResult(FALSE)
        /\ UNCHANGED <<cooling, delivered>>
     \/ /\ worker.key \notin cooling
        /\ cooling' = cooling \cup {worker.key}
        /\ \E err, reached \in BOOLEAN :
             /\ err \/ reached
             /\ SendResult(err)
             /\ delivered' = IF reached /\ SameIncarnation /\ delivered[worker.key] < 2
                               THEN [delivered EXCEPT ![worker.key] = @ + 1]
                               ELSE delivered
  /\ announced' = IF SameIncarnation THEN announced \cup {worker.key} ELSE announced
  /\ UNCHANGED <<apiVars, cache, queueVars, budget, answered>>

-----------------------------------------------------------------------------
(* updateStatus.                                                           *)

\* The phase a handler's closure sets, whatever phase it finds.
TargetPhase(op) ==
  CASE op = "begin"    -> "Analyzing"
    [] op = "fail"     -> "Failed"
    [] op = "analyze"  -> "Analyzed"
    [] op = "announce" -> "Notifying"
    [] op = "resolve"  -> "Resolved"
    [] op = "retry"    -> "Pending"

\* What the closure does to the object the cache returned.
Mutated(m, latest) ==
  [latest EXCEPT
     !.phase    = TargetPhase(m.op),
     !.retry    = IF m.op = "retry" THEN @ + 1 ELSE @,
     !.level    = IF m.op = "analyze" THEN m.level ELSE @,
     !.notified = IF m.op = "resolve" /\ ~m.err THEN TRUE ELSE @,
     !.result   = IF m.op # "resolve" THEN @ ELSE IF m.err THEN "Failed" ELSE "Success"]

\* Reconcile's answer after updateStatus returned nil: the failing and the
\* resolving handler stop, every other one asks to be called again.
RequeueAfter(op) == op \notin {"fail", "resolve"}

Latest == cache[worker.key]
NewStatus == Mutated(worker.mut, Latest)
Accepted  == NewStatus.level \in CRDLevels        \* the CRD's validation
WithoutLock == TRUE                                \* mutant: a patch without it
UpToDate  == watch[worker.key] = <<>>             \* resourceVersion matches

\* The object is gone from the cache (Get) or from the server (Update).
UpdateNotFound ==
  /\ ~Exists(Latest) \/ ~Exists(server[worker.key])
  /\ Return(RequeueAfter(worker.mut.op))
  /\ UNCHANGED apiVars

\* The write is stored.  One that changes nothing is not a new version; only
\* the closure that writes no time and no LLM text can be certain of that.
StoreStatus ==
  LET k == worker.key IN
  /\ Exists(Latest) /\ UpToDate /\ Accepted
  /\ \/ /\ NewStatus # server[k] \/ worker.mut.op # "announce"
        /\ Publish(k, NewStatus)
     \/ /\ NewStatus = server[k]
        /\ UNCHANGED apiVars

UpdateStored == StoreStatus /\ Return(RequeueAfter(worker.mut.op))

\* Mutant: one attempt too many.
UpdateConflictOffByOne ==
  /\ Exists(Latest) /\ Exists(server[worker.key]) /\ ~UpToDate
  /\ \/ /\ worker.tries < UpdateSteps
        /\ worker' = [worker EXCEPT !.tries = @ + 1]
        /\ UNCHANGED queueVars
     \/ /\ worker.tries >= UpdateSteps
        /\ Return(TRUE)
  /\ UNCHANGED apiVars

\* The write was made to an old version: again, up to UpdateSteps times.
UpdateConflict ==
  /\ Exists(Latest) /\ Exists(server[worker.key]) /\ ~UpToDate
  /\ \/ /\ worker.tries + 1 < UpdateSteps
        /\ worker' = [worker EXCEPT !.tries = @ + 1]
        /\ UNCHANGED queueVars
     \/ /\ worker.tries + 1 >= UpdateSteps
        /\ Return(TRUE)
  /\ UNCHANGED apiVars

\* The CRD's validation refuses the status: an error that is not a conflict.
UpdateInvalid ==
  /\ Exists(Latest) /\ UpToDate /\ ~Accepted
  /\ Return(TRUE)
  /\ UNCHANGED apiVars

\* Mutant: the error is logged and dropped.
UpdateErrorDropped ==
  /\ Exists(Latest)
  /\ budget.errors < MaxErrors
  /\ \/ StoreStatus
     \/ UNCHANGED apiVars
  /\ Return(FALSE)

\* The request fails before, or its answer is lost after, the write is stored.
UpdateError ==
  /\ Exists(Latest)
  /\ budget.errors < MaxErrors
  /\ \/ StoreStatus
     \/ UNCHANGED apiVars
  /\ Return(TRUE)

UpdateStatus ==
  /\ worker.pc = "update"
  /\ \/ UpdateNotFound /\ UNCHANGED budget
     \/ UpdateStored   /\ UNCHANGED budget
     \/ UpdateConflict /\ UNCHANGED budget
     \/ UpdateInvalid  /\ UNCHANGED budget
     \/ UpdateError    /\ budget' = [budget EXCEPT !.errors = @ + 1]
  /\ UNCHANGED <<cache, cooling, histVars>>

-----------------------------------------------------------------------------
(* Time and the process.                                                   *)

CooldownLapses(i) ==
  /\ i \in cooling
  /\ cooling' = cooling \ {i}
  /\ UNCHANGED <<apiVars, cache, queueVars, worker, budget, histVars>>

\* The process stops at any point and starts again: the queue, the call in
\* flight and the notifier's memory are lost, the new informer lists what the
\* old one had or anything later, and adds every object it lists.
Restart ==
  /\ budget.crashes < MaxCrashes
  /\ budget'  = [budget EXCEPT !.crashes = @ + 1]
  /\ worker'  = IdleWorker
  /\ queue'   = {i \in Incidents : Exists(cache[i])}
  /\ delayed' = {}
  /\ cooling' = {}
  /\ UNCHANGED <<apiVars, cache, histVars>>

User(i) == CreateIncident(i) \/ DeleteIncident(i) \/ EditIncident(i)

WorkerStep == Reconcile \/ LLMReturns \/ SendReturns \/ UpdateStatus

Next ==
  \/ \E i \in Incidents : \/ User(i)
                          \/ DeliverWatch(i)
                          \/ DelayExpires(i)
                          \/ TakeKey(i)
                          \/ CooldownLapses(i)
  \/ WorkerStep
  \/ Restart

\* HTTP clients and backoffs have timeouts, so every call returns; the watch
\* delivers; the FIFO work queue hands out every key it holds in turn.
Fairness ==
  /\ WF_vars(WorkerStep)
  /\ \A i \in Incidents : /\ WF_vars(DeliverWatch(i))
                          /\ WF_vars(DelayExpires(i))
                          /\ SF_vars(TakeKey(i))

Spec     == Init /\ [][Next]_vars
FairSpec == Spec /\ Fairness

-----------------------------------------------------------------------------
(* Properties.                                                             *)

\* The variables keep their types; in particular RetryOnConflict never counts
\* past its last attempt, and a key is never processed without being known.
TypeOK ==
  /\ server    \in [Incidents -> Objects]
  /\ watch     \in [Incidents -> Seq(Objects)]
  /\ cache     \in [Incidents -> Objects]
  /\ queue     \subseteq Incidents
  /\ delayed   \subseteq Incidents
  /\ worker    \in Workers
  /\ worker.pc = "idle" <=> worker.key = NoKey
  /\ worker.pc = "update" <=> worker.mut.op \in Ops
  /\ cooling   \subseteq Incidents
  /\ budget    \in Budgets
  /\ answered  \subseteq Incidents
  /\ announced \subseteq Incidents
  /\ delivered \in [Incidents -> 0..2]

\* The work an incident still needs from the controller.
Settled(i) ==
  \/ ~Exists(server[i])
  \/ server[i].phase = "Resolved"
  \/ server[i].phase = "Failed" /\ server[i].retry >= RetryLimit

\* The versions of i that its readers may still act on: the informer's and
\* those on their way to it.
Readable(i) == {cache[i]} \cup {watch[i][n] : n \in DOMAIN watch[i]}

\* Nobody reads a status more than one retry behind the stored one: a write
\* succeeds only when the cache has caught up, so one retry at most is unseen.
BoundedStaleness ==
  \A i \in Incidents : \A o \in Readable(i) : server[i].retry <= o.retry + 1

\* handleFailed checks RetryCount on the object it read and increments the one
\* the cache holds later: the count passes the limit, but by one at most.
RetryBound ==
  \A i \in Incidents : /\ server[i].retry <= RetryLimit + 1
                       /\ RetryLimit = 0 => server[i].retry = 0

\* An incident with work left is always on its way to the worker: queued,
\* waiting for its backoff, announced by an undelivered event or being
\* processed.  None is lost by a requeue that is missing or a restart.
NeverForgotten ==
  \A i \in Incidents :
     \/ Settled(i)
     \/ i \in queue \cup delayed
     \/ watch[i] # <<>>
     \/ worker.key = i

\* A write never undoes an earlier one it had not seen: for one incarnation
\* the retry count never decreases and a recorded notification stays recorded.
NoLostUpdate ==
  [][\A i \in Incidents :
        Exists(server[i]) /\ server'[i].uid = server[i].uid =>
           /\ server'[i].retry >= server[i].retry
           /\ server[i].notified => server'[i].notified]_vars

\* An incident is Resolved only after an LLM answered for it and its message
\* was handed to the notifier, whatever was interrupted in between.  Only a name
\* that is used again may inherit the result of its deleted namesake.
ResolvedAfterWork ==
  \A i \in Incidents :
     Exists(server[i]) /\ server[i].phase = "Resolved" /\ budget.creates[i] = 1 =>
        i \in answered /\ i \in announced

\* The stored status of every incident, and the versions of it that are still
\* to be acted on: the readable ones, and the one the handler at work was chosen
\* on.
StatusOf(o) == IF Exists(o) THEN [phase |-> o.phase, retry |-> o.retry]
                            ELSE [phase |-> "absent", retry |-> 0]
Held(i) ==
  IF worker.key = i /\ worker.pc \in {"llm", "send", "update"} THEN {worker.snap} ELSE {}

Status == [i \in Incidents |-> StatusOf(server[i])]
Views  == [i \in Incidents |-> {StatusOf(o) : o \in Readable(i) \cup Held(i)}]

Lifecycle == INSTANCE IncidentLifecycle WITH status <- Status, views <- Views

\* Whatever the caches, the queue, conflicts and restarts do, an incident's
\* phase is always the successor, in the documented lifecycle, of a version that
\* is stored or the one before it, and each retry is counted.
FollowsLifecycle == Lifecycle!Spec

\* The inductive invariant behind the safety properties.  The informer's stream
\* ends in the stored object; while the worker holds a snapshot nobody else
\* writes, so it is at most one retry behind; and if the cache moved on since
\* the snapshot was taken, the key is queued again.
StreamInv ==
  \A i \in Incidents :
     server[i] = IF watch[i] = <<>> THEN cache[i] ELSE watch[i][Len(watch[i])]

WorkerInv ==
  worker.pc \in {"llm", "send", "update"} =>
     /\ server[worker.key].retry <= worker.snap.retry + 1
     /\ worker.snap = cache[worker.key] \/ worker.key \in queue
     /\ worker.pc = "llm" => worker.snap.phase = "Analyzing"
     /\ worker.mut.op = "fail"  => worker.snap.phase = "Analyzing"
     /\ worker.mut.op = "retry" => worker.snap.retry < RetryLimit

\* The handler at work was chosen on an existing object, and the status it is
\* about to write follows that object's phase in the lifecycle.
HandlerInv ==
  worker.pc \in {"llm", "send", "update"} =>
     /\ Exists(worker.snap)
     /\ worker.pc = "send" => worker.snap.phase = "Notifying"
     /\ worker.pc = "update" =>
          <<worker.snap.phase, TargetPhase(worker.mut.op)>> \in Lifecycle!Lifecycle

IndInv == /\ TypeOK /\ StreamInv /\ BoundedStaleness /\ WorkerInv
          /\ RetryBound /\ NeverForgotten /\ HandlerInv

\* Every incident is settled for good in the end: resolved, given up after the
\* retries, or deleted.
EventuallySettled == \A i \in Incidents : <>[]Settled(i)

\* The article on the operator: every step of the state machine is idempotent.
DeliveredOnce == \A i \in Incidents : delivered[i] <= 1

=============================================================================
