----------------------------- MODULE EventIncident -----------------------------
(***************************************************************************)
(* The EventIncident controller (controllers/eventincident_controller.go): *)
(* one worker that turns Kubernetes Events into AIIncidents.  It ignores   *)
(* an Event that is not a Warning, is older than MaxAge, matches no        *)
(* trigger, or whose incident exists already; for any other it collects    *)
(* the pod's logs and creates the incident.                                *)
(*                                                                         *)
(* Events and incidents are read from informer caches that lag the API     *)
(* server; a cache that catches up takes the newest version.  An Event is  *)
(* a fixed description and the timestamp of its last occurrence.           *)
(***************************************************************************)
EXTENDS Integers, Sequences, FiniteSets

CONSTANTS
  Events,         \* names of Event objects
  NoKey,          \* the key of an idle worker
  Descriptions,   \* what Events may say: see Description
  Digest(_, _, _),\* incident name for an object, a trigger and a reason
  MaxAge,         \* ticks in the fifteen minutes an Event is news
  MaxTime,        \* bound on time
  MaxOccurrences, \* bound: occurrences of Events
  MaxDeletes,     \* bound: incidents deleted by users
  MaxErrors,      \* bound: failed creations
  MaxCrashes      \* bound: restarts of the controller

NoTime == -1

ASSUME KeyAssumption  == NoKey \notin Events
ASSUME TimeAssumption ==
  /\ MaxAge \in Nat /\ MaxTime \in Nat /\ MaxOccurrences \in Nat
  /\ MaxDeletes \in Nat /\ MaxErrors \in Nat /\ MaxCrashes \in Nat

VARIABLES
  now,       \* the clock
  about,     \* the description of each Event
  event,     \* the API server's Events: their timestamp, Absent if there is none
  seen,      \* the informer's copy of them
  unseen,    \* Events with a change the informer has not received
  incident,  \* names of the incidents on the API server
  known,     \* the informer's copy of them
  queue,     \* keys the work queue may hand out
  delayed,   \* keys waiting for their backoff
  worker,    \* the Event whose incident is being created
  dismissed, \* history: Events whose incident was deleted since they occurred
  budget     \* how often the bounded environment events have happened

eventVars == <<event, seen, unseen>>
incVars   == <<incident, known>>
queueVars == <<queue, delayed>>
vars == <<now, about, event, seen, unseen, incident, known, queue, delayed, worker,
          dismissed, budget>>

\* The timestamp isOldEvent looks at: LastTimestamp, which an occurrence moves;
\* else EventTime, which it does not; or none.
Absent == -2
Stamps == Nat \cup {NoTime}

\* type, involved kind and object, reason and the words of interest in the
\* message (both in lower case), which timestamp it has, and whether the
\* object's name is too long for the value of a label.
Description == [type: {"Warning", "Normal"}, kind: STRING, object: STRING,
                reason: STRING, words: SUBSET STRING,
                dated: {"last", "first", "never"}, long: BOOLEAN]

Budgets == [occurs: 0..MaxOccurrences, deletes: 0..MaxDeletes,
            errors: 0..MaxErrors, crashes: 0..MaxCrashes]

Init ==
  /\ now = 0
  /\ about \in [Events -> Descriptions]
  /\ event     = [e \in Events |-> Absent]
  /\ seen      = event
  /\ unseen    = {}
  /\ incident  = {}
  /\ known     = {}
  /\ queue     = {}
  /\ delayed   = {}
  /\ worker    = NoKey
  /\ dismissed = {}
  /\ budget    = [occurs |-> 0, deletes |-> 0, errors |-> 0, crashes |-> 0]

-----------------------------------------------------------------------------
(* What an Event means.                                                    *)

Rule(when, trigger, severity) == [when |-> when, trigger |-> trigger, severity |-> severity]

\* Mutant: repeated probe failures get a trigger of their own.
RulesUnhealthy(d) ==
  IF d.kind = "Pod" /\ d.reason = "unhealthy"
    THEN << Rule(TRUE, "Unhealthy", "Medium") >>
    ELSE << >>

\* The rules of mapEventToTrigger for the kind of the object, first match first.
Rules(d) ==
  LET says(w) == w \in d.words IN
  CASE d.kind = "Pod" ->
       << Rule(says("crashloopbackoff") \/ (d.reason = "backoff" /\ says("restarting")),
               "CrashLoopBackOff", "High"),
          Rule(says("imagepullbackoff") \/ says("errimagepull")
               \/ (d.reason = "failed" /\ says("image")), "ImagePullBackOff", "High"),
          Rule(d.reason = "failedscheduling" \/ says("failedscheduling"),
               "FailedScheduling", "Medium"),
          Rule(says("oomkilled"), "OOMKilled", "High"),
          Rule(d.reason = "unhealthy" /\ says("readiness probe failed"),
               "Custom", "Medium") >>
    [] d.kind = "Node" ->
       << Rule(d.reason = "nodenotready" \/ says("node not ready"), "NodeNotReady", "High"),
          Rule(says("memorypressure"), "MemoryPressure", "High"),
          Rule(says("diskpressure"), "DiskPressure", "High") >>
    [] OTHER -> << >>

Matching(d) == {i \in DOMAIN Rules(d) : Rules(d)[i].when}
Mapped  == {d \in Descriptions : Matching(d) # {}}
Trigger == [d \in Mapped |->
              Rules(d)[CHOOSE i \in Matching(d) : \A j \in Matching(d) : i <= j]]

\* The name hashes object, trigger and reason.
IncidentName == [d \in Mapped |-> Digest(d.object, Trigger[d].trigger, d.reason)]

\* isOldEvent
OldEvent(stamp) == stamp # NoTime /\ now - stamp > MaxAge

\* Mutant: Normal Events are taken too.
WantedAnyType(d, stamp) ==
  /\ stamp # Absent
  /\ ~OldEvent(stamp)
  /\ d \in Mapped

\* An Event, as this version of it says, that gets an incident.
Wanted(d, stamp) ==
  /\ stamp # Absent
  /\ d.type = "Warning"
  /\ ~OldEvent(stamp)
  /\ d \in Mapped

\* The enums of the CRD, and the limit on label values.
CRDTriggers == {"CrashLoopBackOff", "ImagePullBackOff", "OOMKilled", "NodeNotReady",
                "DiskPressure", "MemoryPressure", "HighCPU", "HighMemory", "PodPending",
                "FailedScheduling", "IngressError", "Custom"}
CRDSeverities == {"Critical", "High", "Medium", "Low", "Info"}
CRDKinds == {"Pod", "Node", "Deployment", "StatefulSet", "DaemonSet", "Ingress", "Service"}

Valid(d) ==
  /\ d.kind \in CRDKinds
  /\ Trigger[d].trigger \in CRDTriggers
  /\ Trigger[d].severity \in CRDSeverities
  /\ ~d.long

-----------------------------------------------------------------------------
(* The cluster.                                                            *)

\* Something happens: a new Event, or a new version of the one there is.
Occur(e) ==
  /\ budget.occurs < MaxOccurrences
  /\ event'  = [event EXCEPT ![e] =
                  CASE about[e].dated = "never" -> NoTime
                    [] about[e].dated = "first" /\ @ # Absent -> @
                    [] OTHER -> now]
  /\ unseen' = unseen \cup {e}
  /\ budget' = [budget EXCEPT !.occurs = @ + 1]
  /\ dismissed' = dismissed \ {e}
  /\ UNCHANGED <<now, about, seen, incVars, queueVars, worker>>

\* The API server forgets Events after a while.
Expire(e) ==
  /\ event[e] # Absent
  /\ event'  = [event EXCEPT ![e] = Absent]
  /\ unseen' = unseen \cup {e}
  /\ UNCHANGED <<now, about, seen, incVars, queueVars, worker, dismissed, budget>>

NamedSo(n) == {e \in Events : about[e] \in Mapped /\ IncidentName[about[e]] = n}

\* A user deletes an incident: what happened before is dealt with.
DeleteIncident(n) ==
  /\ n \in incident
  /\ budget.deletes < MaxDeletes
  /\ incident'  = incident \ {n}
  /\ budget'    = [budget EXCEPT !.deletes = @ + 1]
  /\ dismissed' = dismissed \cup NamedSo(n)
  /\ UNCHANGED <<now, about, eventVars, known, queueVars, worker>>

Tick ==
  /\ now < MaxTime
  /\ now' = now + 1
  /\ UNCHANGED <<about, eventVars, incVars, queueVars, worker, dismissed, budget>>

-----------------------------------------------------------------------------
(* The informers and the work queue.                                       *)

DeliverEvent(e) ==
  /\ e \in unseen
  /\ seen'   = [seen EXCEPT ![e] = event[e]]
  /\ unseen' = unseen \ {e}
  /\ queue'  = queue \cup {e}
  /\ UNCHANGED <<now, about, event, incVars, delayed, worker, dismissed, budget>>

\* An Event that occurs before its incident's deletion is seen still finds it.
DeliverIncident(n) ==
  /\ \/ /\ n \in incident \ known
        /\ known' = known \cup {n}
        /\ UNCHANGED dismissed
     \/ /\ n \in known \ incident
        /\ known' = known \ {n}
        /\ dismissed' = dismissed \cup NamedSo(n)
  /\ UNCHANGED <<now, about, eventVars, incident, queueVars, worker, budget>>

DelayExpires(e) ==
  /\ e \in delayed
  /\ delayed' = delayed \ {e}
  /\ queue'   = queue \cup {e}
  /\ UNCHANGED <<now, about, eventVars, incVars, worker, dismissed, budget>>

-----------------------------------------------------------------------------
(* Reconcile.                                                              *)

Exists(e) == IncidentName[about[e]] \in known

\* The Gets, both from the cache, and the early returns; the worker goes on to
\* fetch the logs, which may take a while and may fail without consequence.
Reconcile(e) ==
  /\ worker = NoKey
  /\ e \in queue
  /\ queue' = queue \ {e}
  /\ \/ /\ ~Wanted(about[e], seen[e])
        /\ UNCHANGED worker
     \/ /\ Wanted(about[e], seen[e]) /\ Exists(e)
        /\ UNCHANGED worker
     \/ /\ Wanted(about[e], seen[e]) /\ ~Exists(e)
        /\ worker' = e
  /\ UNCHANGED <<now, about, eventVars, incVars, delayed, dismissed, budget>>

Return(requeue) ==
  /\ worker'  = NoKey
  /\ delayed' = IF requeue THEN delayed \cup {worker} ELSE delayed

NewIncident == IncidentName[about[worker]]

\* The incident is stored, or was there already, which is as good.
Created ==
  /\ Valid(about[worker])
  /\ incident' = incident \cup {NewIncident}
  /\ Return(FALSE)
  /\ UNCHANGED budget

Refused ==
  /\ ~Valid(about[worker])
  /\ Return(TRUE)
  /\ UNCHANGED <<incident, budget>>

\* Mutant: the error is logged and dropped.
FailedDropped ==
  /\ budget.errors < MaxErrors
  /\ budget' = [budget EXCEPT !.errors = @ + 1]
  /\ incident' = incident
  /\ Return(FALSE)

\* The request fails before, or its answer is lost after, the incident is stored.
Failed ==
  /\ budget.errors < MaxErrors
  /\ budget' = [budget EXCEPT !.errors = @ + 1]
  /\ \/ incident' = incident
     \/ Valid(about[worker]) /\ incident' = incident \cup {NewIncident}
  /\ Return(TRUE)

CreateReturns ==
  /\ worker # NoKey
  /\ Created \/ Refused \/ Failed
  /\ UNCHANGED <<now, about, eventVars, known, queue, dismissed>>

\* The process stops and starts: all it knew is lost, the new informer lists
\* what the old one had or anything later, and queues every Event it lists.
Restart ==
  /\ budget.crashes < MaxCrashes
  /\ budget'  = [budget EXCEPT !.crashes = @ + 1]
  /\ worker'  = NoKey
  /\ queue'   = {e \in Events : seen[e] # Absent}
  /\ delayed' = {}
  /\ UNCHANGED <<now, about, eventVars, incVars, dismissed>>

Names == {IncidentName[d] : d \in Mapped}

Next ==
  \/ \E e \in Events : \/ Occur(e)
                       \/ Expire(e)
                       \/ DeliverEvent(e)
                       \/ DelayExpires(e)
                       \/ Reconcile(e)
  \/ \E n \in Names : DeleteIncident(n) \/ DeliverIncident(n)
  \/ CreateReturns
  \/ Tick
  \/ Restart

\* Requests have timeouts, the watches deliver, and the FIFO work queue hands
\* out every key it holds in turn.
Fairness ==
  /\ WF_vars(CreateReturns)
  /\ \A e \in Events : /\ WF_vars(DeliverEvent(e))
                       /\ WF_vars(DelayExpires(e))
                       /\ SF_vars(Reconcile(e))

Spec     == Init /\ [][Next]_vars
FairSpec == Spec /\ Fairness

-----------------------------------------------------------------------------
(* Properties.                                                             *)

\* The variables keep their types; a name is only worked on for an Event that
\* maps to one, and incidents have only such names.
TypeOK ==
  /\ now       \in Nat
  /\ about     \in [Events -> Descriptions]
  /\ event     \in [Events -> Stamps \cup {Absent}]
  /\ seen      \in [Events -> Stamps \cup {Absent}]
  /\ unseen    \subseteq Events
  /\ \A e \in Events \ unseen : seen[e] = event[e]
  /\ incident  \subseteq Names
  /\ known     \subseteq Names
  /\ queue     \subseteq Events
  /\ delayed   \subseteq Events
  /\ worker    \in Events \cup {NoKey}
  /\ worker # NoKey => about[worker].type = "Warning" /\ about[worker] \in Mapped
  /\ dismissed \subseteq Events
  /\ budget    \in Budgets

\* What has become of an Event that should get an incident: it has one, had one
\* that was deleted after it occurred, or is no longer news.
Settled(e) ==
  \/ ~Wanted(about[e], event[e])
  \/ IncidentName[about[e]] \in incident \cup known
  \/ e \in dismissed

\* An Event that should get an incident and has none is on its way to the
\* worker: undelivered, queued, waiting for its backoff or being processed.
\* Early returns, errors and restarts lose none while it is news.
NoEventForgotten ==
  \A e \in Events : Settled(e) \/ e \in unseen \cup queue \cup delayed \/ worker = e

\* Every Event settles: no Event is refused again and again by the CRD's enums,
\* whichever trigger it maps to, unless its object's name is too long.
EventuallySettled ==
  \A e \in Events : <>[](about[e].long \/ Settled(e))

=============================================================================
