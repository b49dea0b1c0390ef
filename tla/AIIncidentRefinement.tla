------------------------- MODULE AIIncidentRefinement -------------------------
(***************************************************************************)
(* AIIncident implements IncidentLifecycle, for every set of incidents,    *)
(* retry limit and bound: the cache, the queue, conflicting and failing    *)
(* writes and restarts only ever forget old versions, and a status that is *)
(* stored follows the version its handler was chosen on.  On the versions  *)
(* still to be acted on also rests that what is Resolved was worked on.    *)
(***************************************************************************)
EXTENDS AIIncidentProofs

\* The versions of i that are still to be acted on.
Known(i) == Readable(i) \cup Held(i)

\* The mapped variables, incident by incident.
LEMMA Mapping ==
  /\ Status = [i \in Incidents |-> StatusOf(server[i])]
  /\ Views  = [i \in Incidents |-> {StatusOf(o) : o \in Known(i)}]
  /\ Status' = [i \in Incidents |-> StatusOf(server'[i])]
  /\ Views'  = [i \in Incidents |-> {StatusOf(o) : o \in Known(i)'}]
  BY DEF Status, Views, Known, StatusOf, Exists

\* What is stored can be read, or will be.
LEMMA StoredIsKnown == TypeOK /\ StreamInv => \A i \in Incidents : server[i] \in Known(i)
  <1> SUFFICES ASSUME TypeOK, StreamInv, NEW i \in Incidents PROVE server[i] \in Known(i)
    OBVIOUS
  <1>1. CASE watch[i] = <<>>
    BY <1>1 DEF StreamInv, Known, Readable
  <1>2. CASE watch[i] # <<>>
    <2>1. watch[i] \in Seq(Objects)
      BY DEF TypeOK
    <2>2. Len(watch[i]) \in DOMAIN watch[i]
      BY <1>2, <2>1, LenProperties, EmptySeq
    <2>3. server[i] = watch[i][Len(watch[i])]
      BY <1>2 DEF StreamInv
    <2>. QED  BY <2>2, <2>3 DEF Known, Readable
  <1>. QED  BY <1>1, <1>2

\* The same after a step.
LEMMA StoredIsKnownNext ==
  (TypeOK /\ StreamInv => \A i \in Incidents : server[i] \in Known(i))'
  BY StoredIsKnown, PTL

\* A step that stores nothing, and after which fewer versions of one incident are
\* to be acted on, is a step of the lifecycle.
LEMMA ForgettingStep ==
  ASSUME NEW k \in Incidents,
         \A j \in Incidents : StatusOf(server'[j]) = StatusOf(server[j]),
         server'[k] \in Known(k)', Known(k)' \subseteq Known(k),
         \A j \in Incidents \ {k} : Known(j)' = Known(j)
  PROVE  Lifecycle!Next
  <1> DEFINE known == {StatusOf(o) : o \in Known(k)'}
  <1>1. Status' = Status
    BY Mapping
  <1>2. known \subseteq {StatusOf(o) : o \in Known(k)}
    OBVIOUS
  <1>3. Views[k] = {StatusOf(o) : o \in Known(k)} /\ Views'[k] = known
    BY Mapping
  <1>4. \A j \in Incidents \ {k} : Views'[j] = Views[j]
    BY Mapping
  <1>5. Views' = [Views EXCEPT ![k] = known]
    BY <1>3, <1>4, Mapping
  <1>6. Status[k] \in known
    BY Mapping
  <1>7. known \in SUBSET Views[k]
    BY <1>2, <1>3
  <1>8. Lifecycle!CatchUp(k)
    BY <1>1, <1>5, <1>6, <1>7 DEF Lifecycle!CatchUp
  <1>. QED  BY <1>8 DEF Lifecycle!Next

\* What the worker holds, by its program counter.
LEMMA HeldOnly ==
  ASSUME NEW i \in Incidents
  PROVE  /\ worker.pc \notin {"llm", "send", "update"} => Held(i) = {}
         /\ worker.key # i => Held(i) = {}
         /\ worker' = worker => Held(i)' = Held(i)
         /\ worker' = IdleWorker => Held(i)' = {}
  BY DEF Held, IdleWorker

\* A user's step creates or deletes the object, or leaves its status alone.
LEMMA UserMaps ==
  ASSUME TypeOK, StreamInv, StreamInv', TypeOK', NEW i \in Incidents, User(i)
  PROVE  Lifecycle!Next
  <1>1. PICK o \in Objects : Publish(i, o)
    BY UserPublishes
  <1>2. cache' = cache /\ worker' = worker
    BY UserPublishes
  <1>3. /\ Known(i)' = Known(i) \cup {o}
        /\ \A j \in Incidents \ {i} : Known(j)' = Known(j)
    BY <1>1, <1>2, PublishReadable, HeldOnly DEF Known
  <1>4. /\ server'[i] = o
        /\ \A j \in Incidents \ {i} : server'[j] = server[j]
    BY <1>1, PublishStream
  <1>5. ASSUME ~(Exists(o) /\ Exists(server[i])), NEW s, s = StatusOf(o)
        PROVE  Lifecycle!Stored(i, s)
    <2>1. Status' = [Status EXCEPT ![i] = s]
      BY <1>4, <1>5, Mapping
    <2>2. {StatusOf(v) : v \in Known(i)'} = {StatusOf(v) : v \in Known(i)} \cup {s}
      BY <1>3, <1>5
    <2>3. Views' = [Views EXCEPT ![i] = @ \cup {s}]
      BY <1>3, <2>2, Mapping
    <2>. QED  BY <2>1, <2>3 DEF Lifecycle!Stored
  <1>6. Status[i] = StatusOf(server[i])
    BY Mapping
  <1>7. CASE CreateIncident(i)
    <2>1. server'[i] = NewObject(budget.creates[i] + 1) /\ budget.creates[i] + 1 \in Nat \ {0}
      BY <1>7 DEF CreateIncident, Publish, TypeOK, Budgets
    <2>2. StatusOf(o) = Lifecycle!New
      <3>1. o.uid # 0 /\ o.retry = 0 /\ o.phase = ""
        <4> DEFINE n == budget.creates[i] + 1
        <4>1. o = NewObject(n) /\ n \in Nat /\ n # 0
          BY <1>4, <2>1
        <4> HIDE DEF n
        <4>2. NewObject(n).phase = ""
          BY DEF NewObject
        <4>. QED  BY <4>1, <4>2, NewObjectType
      <3>. QED  BY <3>1 DEF StatusOf, Exists, Lifecycle!New
    <2>3. Status[i] = Lifecycle!Gone
      BY <1>6, <1>7 DEF CreateIncident, StatusOf, Lifecycle!Gone
    <2>4. Lifecycle!Stored(i, Lifecycle!New)
      BY <1>5, <1>7, <2>2 DEF CreateIncident
    <2>. QED  BY <2>3, <2>4 DEF Lifecycle!Create, Lifecycle!Next
  <1>8. CASE DeleteIncident(i)
    <2>1. server'[i] = Absent /\ Absent.uid = 0
      BY <1>8, NewObjectType DEF DeleteIncident, Publish, TypeOK, Absent
    <2>2. ~Exists(o) /\ StatusOf(o) = Lifecycle!Gone
      BY <1>4, <2>1 DEF StatusOf, Exists, Lifecycle!Gone
    <2>3. Status[i] # Lifecycle!Gone
      <3>1. server[i].phase # "absent"
        BY DEF TypeOK, Objects, Phases
      <3>. QED  BY <1>6, <1>8, <3>1 DEF DeleteIncident, StatusOf, Lifecycle!Gone
    <2>4. Lifecycle!Stored(i, Lifecycle!Gone)
      BY <1>5, <2>2
    <2>. QED  BY <2>3, <2>4 DEF Lifecycle!Delete, Lifecycle!Next
  <1>9. CASE EditIncident(i)
    <2>1. o = server[i]
      BY <1>4, <1>9 DEF EditIncident, Publish, TypeOK
    <2>2. Known(i)' = Known(i)
      BY <1>3, <2>1, StoredIsKnown
    <2>3. server'[i] \in Known(i)'
      BY <2>1, <2>2, <1>4, StoredIsKnown
    <2>. QED  BY <1>3, <1>4, <2>1, <2>2, <2>3, ForgettingStep
  <1>. QED  BY <1>7, <1>8, <1>9 DEF User

\* A stored status is the successor of the version its handler was chosen on.
LEMMA StoreMaps ==
  ASSUME IndInv, worker.pc = "update", StoreStatus, cache' = cache, worker' = IdleWorker,
         Publish(worker.key, NewStatus)
  PROVE  Lifecycle!Next
  <1>0. TypeOK /\ StreamInv /\ WorkerInv /\ HandlerInv
    BY DEF IndInv
  <1>1. PICK k \in Incidents : k = worker.key
    BY <1>0, BusyKey
  <1>2. /\ server[k] = cache[k] /\ Exists(server[k])
        /\ Readable(k) = {server[k]}
    BY <1>0, <1>1, StoreUpToDate, StoreStatusEffect
  <1>3. NewStatus \in Objects /\ server'[k] = NewStatus
    BY <1>0, <1>1, NewStatusType, PublishStream
  <1>4. Known(k)' = {server[k], NewStatus}
    BY <1>0, <1>1, <1>2, <1>3, PublishReadable, HeldOnly DEF Known
  <1>5. \A j \in Incidents \ {k} : Known(j)' = Known(j) /\ server'[j] = server[j]
    BY <1>0, <1>1, <1>3, PublishReadable, PublishStream, HeldOnly DEF Known
  <1>6. Exists(NewStatus)
    BY <1>0, <1>1, <1>2, NewStatusType DEF Exists
  <1> DEFINE op == worker.mut.op
             seen == StatusOf(worker.snap)
             phase == TargetPhase(op)
  <1>7. /\ op \in Ops
        /\ NewStatus.phase = phase
        /\ NewStatus.retry = IF op = "retry" THEN server[k].retry + 1 ELSE server[k].retry
        /\ server[k].retry \in Nat
    <2>1. NewStatus.phase = phase
      BY <1>0, <1>1 DEF NewStatus, Mutated, Latest, TypeOK, Objects
    <2>2. op \in Ops
      BY <1>0 DEF TypeOK
    <2>. QED  BY <1>0, <1>1, <1>2, <2>1, <2>2, NewStatusType, ObjectRetry DEF TypeOK
  <1>8. phase = "Pending" <=> op = "retry"
    BY <1>7 DEF TargetPhase, Ops
  <1>9. /\ seen.phase = worker.snap.phase /\ seen.retry = worker.snap.retry
        /\ <<seen.phase, phase>> \in Lifecycle!Lifecycle
        /\ op = "retry" => worker.snap.retry < RetryLimit
    BY <1>0 DEF HandlerInv, WorkerInv, StatusOf
  <1>10. seen.phase = "Failed" => seen.retry < RetryLimit
    <2>1. seen.phase = "Failed" => phase = "Pending"
      BY <1>9 DEF Lifecycle!Lifecycle
    <2>. QED  BY <1>8, <1>9, <2>1
  <1>11. seen \in Views[k]
    BY <1>1, Mapping DEF Known, Held
  <1>12. phase \in {step[2] : step \in Lifecycle!Lifecycle}
    BY <1>9
  <1>13. Status' = [Status EXCEPT ![k] = [phase |-> phase,
                      retry |-> IF phase = "Pending" THEN @.retry + 1 ELSE @.retry]]
    <2>1. StatusOf(NewStatus) = [phase |-> phase, retry |-> NewStatus.retry]
      BY <1>6, <1>7 DEF StatusOf
    <2>2. Status[k].retry = server[k].retry
      BY <1>2, Mapping DEF StatusOf
    <2>3. NewStatus.retry = IF phase = "Pending" THEN Status[k].retry + 1 ELSE Status[k].retry
      BY <1>7, <1>8, <2>2
    <2>. QED  BY <1>3, <1>5, <2>1, <2>3, Mapping
  <1>14. Status[k] # Lifecycle!Gone
    <2>1. server[k].phase # "absent"
      BY <1>0 DEF TypeOK, Objects, Phases
    <2>. QED  BY <1>2, <2>1, Mapping DEF StatusOf, Lifecycle!Gone
  <1>15. Views' = [Views EXCEPT ![k] = {Status[k], Status'[k]}]
    <2>1. {StatusOf(o) : o \in {server[k], NewStatus}} = {StatusOf(server[k]), StatusOf(NewStatus)}
      OBVIOUS
    <2>. QED  BY <1>3, <1>4, <1>5, <2>1, Mapping
  <1>16. Lifecycle!Advance(k)
    BY <1>9, <1>10, <1>11, <1>12, <1>13, <1>14, <1>15 DEF Lifecycle!Advance
  <1>. QED  BY <1>16 DEF Lifecycle!Next

\* Every step of the controller is a step of the lifecycle, or changes nothing in it.
LEMMA StepMaps == IndInv /\ IndInv' /\ [Next]_vars => [Lifecycle!Next]_<<Status, Views>>
  <1> SUFFICES ASSUME IndInv, IndInv', [Next]_vars
               PROVE  Lifecycle!Next \/ (Status' = Status /\ Views' = Views)
    OBVIOUS
  <1>0. /\ TypeOK /\ StreamInv /\ TypeOK' /\ StreamInv'
        /\ \A j \in Incidents : server'[j] \in Known(j)'
    BY StoredIsKnown, StoredIsKnownNext DEF IndInv
  <1>r. \A j \in Incidents : server' = server => StatusOf(server'[j]) = StatusOf(server[j])
    OBVIOUS
  <1>1. ASSUME NEW i \in Incidents, User(i) PROVE Lifecycle!Next
    BY <1>0, <1>1, UserMaps
  <1>2. ASSUME NEW i \in Incidents, DeliverWatch(i) PROVE Lifecycle!Next
    <2>1. /\ server' = server /\ worker' = worker
          /\ \A j \in Incidents \ {i} : cache'[j] = cache[j] /\ watch'[j] = watch[j]
      BY <1>0, <1>2 DEF DeliverWatch, TypeOK
    <2>2. /\ Known(i)' \subseteq Known(i)
          /\ \A j \in Incidents \ {i} : Known(j)' = Known(j)
      <3>1. \A j \in Incidents \ {i} : Readable(j)' = Readable(j)
        BY <2>1 DEF Readable
      <3>. QED  BY <1>0, <1>2, <2>1, <3>1, DeliverReadable, HeldOnly DEF Known
    <2>. QED  BY <1>0, <1>r, <2>1, <2>2, ForgettingStep
  <1>q. ASSUME UNCHANGED <<server, watch, cache>> PROVE \A j \in Incidents : Readable(j)' = Readable(j)
    BY <1>q DEF Readable
  <1>3. CASE UNCHANGED <<server, watch, cache>> /\ (\A j \in Incidents : Held(j)' = Held(j))
    <2>1. \A j \in Incidents : Known(j)' = Known(j) /\ server'[j] = server[j]
      BY <1>3, <1>q DEF Known
    <2>. QED  BY <2>1, Mapping
  <1>4. CASE UNCHANGED <<server, watch, cache>> /\ worker' = IdleWorker
    <2>1. ASSUME NEW k \in Incidents, worker.key = k PROVE Lifecycle!Next
      <3>1. /\ Known(k)' \subseteq Known(k)
            /\ \A j \in Incidents \ {k} : Known(j)' = Known(j)
        BY <1>4, <1>q, <2>1, HeldOnly DEF Known
      <3>. QED  BY <1>0, <1>r, <1>4, <3>1, ForgettingStep
    <2>2. CASE worker.key \notin Incidents
      BY <1>3, <1>4, <2>2, HeldOnly
    <2>. QED  BY <2>1, <2>2
  <1>5. ASSUME Reconcile
        PROVE  Lifecycle!Next \/ (Status' = Status /\ Views' = Views)
    <2>1. /\ worker.pc = "get" /\ worker.key \in Incidents
          /\ UNCHANGED <<server, watch, cache>>
      BY <1>0, <1>5, BusyKey DEF Reconcile, apiVars
    <2>2. CASE worker' = IdleWorker
      BY <1>4, <2>1, <2>2
    <2>3. ASSUME NEW pc \in {"llm", "send", "update"}, NEW op \in Ops \cup {"none"},
                 pc = "update" <=> op \in Ops, Dispatch(pc, op)
          PROVE  Lifecycle!Next
      <3>1. worker'.key = worker.key /\ worker'.snap = cache[worker.key]
        BY <1>0, <2>1, <2>3, DispatchType
      <3>2. \A j \in Incidents : Held(j)' \subseteq Readable(j) /\ Held(j) = {}
        BY <2>1, <3>1 DEF Held, Readable
      <3>3. \A j \in Incidents : Known(j)' = Known(j)
        BY <1>q, <2>1, <3>2 DEF Known
      <3>. QED  BY <1>0, <1>r, <2>1, <3>3, ForgettingStep
    <2>4. \/ Return(FALSE)
          \/ \E pc \in {"llm", "send", "update"}, op \in Ops \cup {"none"} :
                (pc = "update" <=> op \in Ops) /\ Dispatch(pc, op)
      BY <1>5 DEF Reconcile, GetNotFound, HandlePending, HandleAnalyzing, HandleAnalyzed,
                  HandleNotifying, HandleResolved, HandleFailed, Ops
    <2>. QED  BY <2>2, <2>3, <2>4 DEF Return
  <1>6. ASSUME LLMReturns \/ SendReturns PROVE Status' = Status /\ Views' = Views
    <2>1. UNCHANGED <<server, watch, cache>> /\ worker.pc \in {"llm", "send"}
      BY <1>6 DEF LLMReturns, SendReturns, apiVars
    <2>2. worker'.key = worker.key /\ worker'.pc = "update" /\ worker'.snap = worker.snap
      BY <1>0, <1>6, UpdatingWorker, LLMMutations, SendMutations
         DEF LLMReturns, SendReturns, SendResult
    <2>3. \A j \in Incidents : Held(j)' = Held(j)
      BY <2>1, <2>2 DEF Held
    <2>4. \A j \in Incidents : Known(j)' = Known(j) /\ server'[j] = server[j]
      BY <1>q, <2>1, <2>3 DEF Known
    <2>. QED  BY <2>4, Mapping
  <1>7. ASSUME UpdateStatus
        PROVE  Lifecycle!Next \/ (Status' = Status /\ Views' = Views)
    <2>1. worker.pc = "update" /\ cache' = cache
      BY <1>7 DEF UpdateStatus
    <2>2. \/ UNCHANGED apiVars /\ worker' = IdleWorker
          \/ StoreStatus /\ worker' = IdleWorker
          \/ UNCHANGED apiVars /\ worker' = [worker EXCEPT !.tries = @ + 1]
      BY <1>7 DEF UpdateStatus, UpdateNotFound, UpdateStored, UpdateConflict, UpdateInvalid,
                  UpdateError, Return
    <2>3. CASE UNCHANGED apiVars /\ worker' = IdleWorker
      BY <1>4, <2>1, <2>3 DEF apiVars
    <2>4. CASE UNCHANGED apiVars /\ worker' = [worker EXCEPT !.tries = @ + 1]
      <3>1. \A j \in Incidents : Held(j)' = Held(j)
        BY <1>0, <2>4 DEF Held, TypeOK, Workers
      <3>. QED  BY <1>3, <2>1, <2>4, <3>1 DEF apiVars
    <2>5. CASE StoreStatus /\ worker' = IdleWorker
      <3>1. CASE Publish(worker.key, NewStatus)
        BY <2>1, <2>5, <3>1, StoreMaps
      <3>2. CASE server' = server /\ watch' = watch
        BY <1>4, <2>1, <2>5, <3>2
      <3>. QED  BY <1>0, <2>1, <2>5, <3>1, <3>2, StoreStatusEffect
    <2>. QED  BY <2>2, <2>3, <2>4, <2>5
  <1>8. ASSUME NEW i \in Incidents, TakeKey(i) PROVE Status' = Status /\ Views' = Views
    <2>1. UNCHANGED <<server, watch, cache>> /\ worker.pc = "idle"
      BY <1>8 DEF TakeKey, apiVars
    <2>2. worker'.pc = "get"
      BY <1>8, IdleWorkerType DEF TakeKey, Workers
    <2>3. \A j \in Incidents : Known(j)' = Known(j) /\ server'[j] = server[j]
      BY <1>q, <2>1, <2>2 DEF Known, Held
    <2>. QED  BY <2>3, Mapping
  <1>9. CASE UNCHANGED <<server, watch, cache, worker>>
    BY <1>3, <1>9, HeldOnly
  <1>10. CASE Restart
    BY <1>4, <1>10 DEF Restart, apiVars
  <1>. QED  BY <1>1, <1>2, <1>5, <1>6, <1>7, <1>8, <1>9, <1>10
           DEF Next, WorkerStep, DelayExpires, CooldownLapses, apiVars, vars

\* Nothing exists at the start, in the lifecycle either.
LEMMA InitMaps == Init => Lifecycle!Init
  <1> SUFFICES ASSUME Init PROVE Lifecycle!Init
    OBVIOUS
  <1>1. \A i \in Incidents : StatusOf(server[i]) = Lifecycle!Gone /\ Known(i) = {server[i]}
    <2>1. \A i \in Incidents : server[i] = Absent /\ cache[i] = Absent /\ DOMAIN watch[i] = {}
      BY EmptySeq DEF Init
    <2>2. \A i \in Incidents : Held(i) = {}
      BY HeldOnly DEF Init, IdleWorker
    <2>3. StatusOf(Absent) = Lifecycle!Gone
      BY NewObjectType DEF StatusOf, Exists, Absent, Lifecycle!Gone
    <2>. QED  BY <2>1, <2>2, <2>3 DEF Known, Readable
  <1>2. \A i \in Incidents : {StatusOf(o) : o \in Known(i)} = {Lifecycle!Gone}
    BY <1>1
  <1>. QED  BY <1>1, <1>2, Mapping DEF Lifecycle!Init

\* Whatever the caches, the queue, conflicts, failures and restarts do, the
\* controller of aiincident_controller.go implements the documented lifecycle.
THEOREM ImplementsLifecycle == Spec => FollowsLifecycle
  <1>1. Init => Lifecycle!Init
    BY InitMaps
  <1>2. IndInv /\ IndInv' /\ [Next]_vars => [Lifecycle!Next]_<<Status, Views>>
    BY StepMaps
  <1>. QED  BY <1>1, <1>2, Inductive, PTL DEF Spec, FollowsLifecycle, Lifecycle!Spec, Lifecycle!vars

-----------------------------------------------------------------------------
(* What is Resolved was answered for and announced: the invariant WorkInv  *)
(* says it of every version still to be acted on and of the handler at     *)
(* work.                                                                   *)

\* No version of an incident is of an incarnation that was not created yet.
UidInv == \A i \in Incidents : \A o \in Known(i) : o.uid <= budget.creates[i]

Answered == {"Analyzed", "Notifying", "Resolved"}

\* What a version of i, or the handler at work on it, presupposes.
VersionWorked(i, o) ==
  /\ o.phase \in Answered   => i \in answered
  /\ o.phase = "Resolved" => i \in announced
HandlerWorked(i) ==
  worker.key = i => /\ worker.mut.op = "analyze" => i \in answered
                    /\ worker.mut.op = "resolve" => i \in announced

\* The object of its name's only incarnation.
First(i) == Exists(server[i]) /\ budget.creates[i] = 1

WorkInv ==
  \A i \in Incidents : First(i) =>
     /\ \A o \in Known(i) : Exists(o) => VersionWorked(i, o)
     /\ HandlerWorked(i)

-----------------------------------------------------------------------------

\* Nothing exists at the start, so nothing presupposes any work.
LEMMA WorkInit == Init => UidInv /\ WorkInv
  <1> SUFFICES ASSUME Init, NEW i \in Incidents
               PROVE  Known(i) = {Absent} /\ ~Exists(server[i]) /\ budget.creates[i] = 0 /\ Absent.uid = 0
    BY DEF UidInv, WorkInv, First
  <1>1. DOMAIN watch[i] = {}
    BY EmptySeq DEF Init
  <1>2. Held(i) = {}
    BY HeldOnly DEF Init, IdleWorker
  <1>. QED  BY <1>1, <1>2, NewObjectType DEF Init, Known, Readable, Exists, Absent

\* A step after which no more versions are to be acted on, and none of the
\* history is forgotten, keeps the invariant when the handler has not chosen
\* one of the two writes that presuppose a call.
LEMMA QuietWork ==
  ASSUME UidInv, WorkInv,
         \A i \in Incidents : server'[i] = server[i],
         \A i \in Incidents : Known(i)' \subseteq Known(i),
         \A i \in Incidents : budget'.creates[i] = budget.creates[i],
         answered \subseteq answered', announced \subseteq announced',
         \A i \in Incidents : First(i) => HandlerWorked(i)'
  PROVE  UidInv' /\ WorkInv'
  BY DEF UidInv, WorkInv, First, VersionWorked, Exists

\* A user's new object is the first of its name only when nothing of that name
\* was to be acted on before.
LEMMA UserWork ==
  ASSUME TypeOK, StreamInv, HandlerInv, UidInv, WorkInv, NEW i \in Incidents, User(i)
  PROVE  UidInv' /\ WorkInv'
  <1>1. PICK o \in Objects : Publish(i, o)
    BY UserPublishes
  <1>2. cache' = cache /\ worker' = worker
    BY UserPublishes
  <1>3. /\ Known(i)' = Known(i) \cup {o}
        /\ \A j \in Incidents \ {i} : Known(j)' = Known(j)
    BY <1>1, <1>2, PublishReadable, HeldOnly DEF Known
  <1>4. /\ server'[i] = o
        /\ \A j \in Incidents \ {i} : server'[j] = server[j]
    BY <1>1, PublishStream
  <1>5. \A j \in Incidents : budget.creates[j] \in Nat
    BY DEF TypeOK, Budgets
  <1>6. \A j \in Incidents : \A v \in Known(j) : v.uid \in Nat
    <2>1. \A j \in Incidents : Readable(j) \subseteq Objects
      BY ReadableObjects
    <2>2. \A j \in Incidents : Held(j) \subseteq Objects
      BY BusyKey DEF Held
    <2>. QED  BY <2>1, <2>2 DEF Known, Objects
  <1>7. CASE CreateIncident(i)
    <2>1. /\ budget'.creates[i] = budget.creates[i] + 1
          /\ \A j \in Incidents \ {i} : budget'.creates[j] = budget.creates[j]
      BY <1>7 DEF CreateIncident, TypeOK, Budgets
    <2>2. o.uid = budget.creates[i] + 1 /\ o.phase = ""
      <3>1. o = NewObject(budget.creates[i] + 1)
        BY <1>4, <1>7 DEF CreateIncident, Publish, TypeOK
      <3>2. budget.creates[i] + 1 \in Nat
        BY <1>5
      <3>3. \A n \in Nat : NewObject(n).phase = "" /\ NewObject(n).uid = n
        BY DEF NewObject
      <3>. QED  BY <3>1, <3>2, <3>3
    <2>3. answered' = answered /\ announced' = announced
      BY <1>7 DEF CreateIncident, histVars
    <2>4. UidInv'
      <3>1. ASSUME NEW v \in Known(i) PROVE v.uid <= budget'.creates[i]
        <4>1. v.uid \in Nat /\ v.uid <= budget.creates[i] /\ budget.creates[i] \in Nat
          BY <1>5, <1>6, <3>1 DEF UidInv
        <4>. QED  BY <2>1, <4>1
      <3>2. o.uid <= budget'.creates[i]
        <4> DEFINE n == budget.creates[i] + 1
        <4>1. n \in Nat
          BY <1>5
        <4>2. o.uid = n /\ budget'.creates[i] = n
          BY <2>1, <2>2, Zenon
        <4> HIDE DEF n
        <4>3. n <= n
          BY <4>1
        <4>. QED  BY <4>2, <4>3, Zenon
      <3>3. \A v \in Known(i)' : v.uid <= budget'.creates[i]
        BY <1>3, <3>1, <3>2
      <3>4. \A j \in Incidents \ {i} : \A v \in Known(j)' : v.uid <= budget'.creates[j]
        BY <1>3, <2>1 DEF UidInv
      <3>. QED  BY <3>3, <3>4 DEF UidInv
    <2>5. First(i)' => \A v \in Known(i) : ~Exists(v)
      <3> SUFFICES ASSUME First(i)', NEW v \in Known(i) PROVE v.uid = 0
        BY DEF Exists
      <3>1. budget.creates[i] + 1 = 1 /\ budget.creates[i] \in Nat
        BY <1>5, <2>1 DEF First
      <3>2. v.uid \in Nat /\ v.uid <= budget.creates[i]
        BY <1>6 DEF UidInv
      <3>. QED  BY <3>1, <3>2
    <2>6. First(i)' => \A v \in Known(i)' : Exists(v) => VersionWorked(i, v)'
      BY <1>3, <2>2, <2>5 DEF VersionWorked, Answered
    <2>7. First(i)' => HandlerWorked(i)'
      <3>1. worker.key = i /\ worker.mut.op \in {"analyze", "resolve"} => worker.snap \in Known(i) /\ Exists(worker.snap)
        BY DEF TypeOK, HandlerInv, Known, Held, Ops
      <3>. QED  BY <1>2, <2>5, <3>1 DEF HandlerWorked
    <2>8. ASSUME NEW j \in Incidents \ {i}, First(j)'
          PROVE  /\ \A v \in Known(j)' : Exists(v) => VersionWorked(j, v)'
                 /\ HandlerWorked(j)'
      BY <1>2, <1>3, <1>4, <2>1, <2>3, <2>8 DEF WorkInv, First, VersionWorked, HandlerWorked
    <2>. QED  BY <2>4, <2>6, <2>7, <2>8 DEF WorkInv
  <1>8. CASE DeleteIncident(i)
    <2>1. o.uid = 0 /\ budget' = budget
      BY <1>4, <1>8, NewObjectType DEF DeleteIncident, Publish, TypeOK, Absent, envVars
    <2>2. answered' = answered \ {i} /\ announced' = announced \ {i}
      BY <1>8 DEF DeleteIncident
    <2>3. ~First(i)'
      BY <1>4, <2>1 DEF First, Exists
    <2>4. ASSUME NEW j \in Incidents \ {i}, First(j)'
          PROVE  /\ \A v \in Known(j)' : Exists(v) => VersionWorked(j, v)'
                 /\ HandlerWorked(j)'
      BY <1>2, <1>3, <1>4, <2>1, <2>2, <2>4 DEF WorkInv, First, VersionWorked, HandlerWorked
    <2>5. UidInv'
      BY <1>3, <1>5, <2>1 DEF UidInv
    <2>. QED  BY <2>3, <2>4, <2>5 DEF WorkInv
  <1>9. CASE EditIncident(i)
    <2>1. o = server[i]
      BY <1>4, <1>9 DEF EditIncident, Publish, TypeOK
    <2>2. Known(i)' = Known(i)
      BY <1>3, <2>1, StoredIsKnown
    <2>3. /\ \A j \in Incidents : budget'.creates[j] = budget.creates[j]
          /\ answered' = answered /\ announced' = announced
      BY <1>9 DEF EditIncident, histVars, TypeOK, Budgets
    <2>4. \A j \in Incidents : First(j) => HandlerWorked(j)'
      BY <1>2, <2>3 DEF WorkInv, HandlerWorked
    <2>. QED  BY <1>3, <1>4, <2>1, <2>2, <2>3, <2>4, QuietWork
  <1>. QED  BY <1>7, <1>8, <1>9 DEF User

\* A status is stored by a handler whose write presupposes no more than was done.
LEMMA StoreWork ==
  ASSUME TypeOK, StreamInv, HandlerInv, UidInv, WorkInv,
         worker.pc = "update", StoreStatus, Publish(worker.key, NewStatus),
         cache' = cache, worker' = IdleWorker, budget'.creates = budget.creates,
         answered' = answered, announced' = announced
  PROVE  UidInv' /\ WorkInv'
  <1>1. PICK k \in Incidents : k = worker.key
    BY BusyKey
  <1>2. /\ server[k] = cache[k] /\ Exists(server[k])
        /\ Readable(k) = {server[k]}
    BY <1>1, StoreUpToDate, StoreStatusEffect
  <1>3. /\ NewStatus \in Objects /\ server'[k] = NewStatus
        /\ NewStatus.uid = server[k].uid
    BY <1>1, <1>2, NewStatusType, PublishStream
  <1>4. Known(k)' = {server[k], NewStatus} /\ server[k] \in Known(k)
    BY <1>1, <1>2, <1>3, PublishReadable, HeldOnly DEF Known
  <1>5. \A j \in Incidents \ {k} : Known(j)' = Known(j) /\ server'[j] = server[j]
    BY <1>1, <1>3, PublishReadable, PublishStream, HeldOnly DEF Known
  <1>6. UidInv'
    BY <1>3, <1>4, <1>5 DEF UidInv
  <1>7. \A j \in Incidents : HandlerWorked(j)'
    BY IdleWorkerFields DEF HandlerWorked, IdleWorker, Mutation
  <1>8. First(k) => VersionWorked(k, NewStatus)
    <2> SUFFICES ASSUME First(k) PROVE VersionWorked(k, NewStatus)
      OBVIOUS
    <2>1. NewStatus.phase = TargetPhase(worker.mut.op) /\ worker.mut.op \in Ops
      <3>1. NewStatus.phase = TargetPhase(worker.mut.op)
        <4>1. cache[worker.key] \in Objects
          BY <1>1 DEF TypeOK
        <4>. QED  BY <4>1 DEF NewStatus, Mutated, Latest, Objects
      <3>. QED  BY <3>1 DEF TypeOK
    <2>2. /\ worker.snap \in Known(k) /\ Exists(worker.snap)
          /\ <<worker.snap.phase, NewStatus.phase>> \in Lifecycle!Lifecycle
      BY <1>1, <2>1 DEF HandlerInv, Known, Held
    <2>3. VersionWorked(k, worker.snap) /\ HandlerWorked(k)
      BY <2>2 DEF WorkInv
    <2>4. CASE NewStatus.phase = "Analyzed"
      <3>1. worker.mut.op = "analyze"
        BY <2>1, <2>4 DEF TargetPhase, Ops
      <3>. QED  BY <1>1, <2>3, <2>4, <3>1 DEF HandlerWorked, VersionWorked
    <2>5. CASE NewStatus.phase = "Notifying"
      BY <2>2, <2>3, <2>5 DEF VersionWorked, Lifecycle!Lifecycle, Answered
    <2>6. CASE NewStatus.phase = "Resolved"
      <3>1. worker.mut.op = "resolve"
        BY <2>1, <2>6 DEF TargetPhase, Ops
      <3>. QED  BY <1>1, <2>2, <2>3, <2>6, <3>1
               DEF HandlerWorked, VersionWorked, Lifecycle!Lifecycle, Answered
    <2>. QED  BY <2>4, <2>5, <2>6 DEF VersionWorked, Answered
  <1>9. \A j \in Incidents : First(j)' => First(j)
    BY <1>2, <1>5 DEF First
  <1>. QED  BY <1>4, <1>5, <1>6, <1>7, <1>8, <1>9 DEF WorkInv, VersionWorked

\* One step per action.
LEMMA WorkStep == IndInv /\ UidInv /\ WorkInv /\ [Next]_vars => UidInv' /\ WorkInv'
  <1> SUFFICES ASSUME IndInv, UidInv, WorkInv, [Next]_vars PROVE UidInv' /\ WorkInv'
    OBVIOUS
  <1>0. TypeOK /\ StreamInv /\ HandlerInv /\ WorkerInv
    BY DEF IndInv
  <1>b. ASSUME \/ budget' = budget \/ budget' = [budget EXCEPT !.errors = @ + 1]
               \/ budget' = [budget EXCEPT !.crashes = @ + 1]
        PROVE  budget'.creates = budget.creates
    BY <1>0, <1>b DEF TypeOK, Budgets
  <1>q. ASSUME UNCHANGED <<server, watch, cache>>, budget'.creates = budget.creates,
               answered \subseteq answered', announced \subseteq announced',
               \A i \in Incidents : Held(i)' \subseteq Known(i),
               \A i \in Incidents : First(i) => HandlerWorked(i)'
        PROVE  UidInv' /\ WorkInv'
    <2>1. \A i \in Incidents : Known(i)' \subseteq Known(i)
      BY <1>q DEF Known, Readable
    <2>. QED  BY <1>q, <2>1, QuietWork
  <1>i. ASSUME UNCHANGED <<server, watch, cache>>, budget'.creates = budget.creates,
               answered' = answered, announced' = announced, worker' = IdleWorker
        PROVE  UidInv' /\ WorkInv'
    <2>1. \A i \in Incidents : Held(i)' = {} /\ HandlerWorked(i)'
      BY <1>i, HeldOnly DEF HandlerWorked, IdleWorker, Mutation
    <2>. QED  BY <1>q, <1>i, <2>1
  <1>1. ASSUME NEW i \in Incidents, User(i) PROVE UidInv' /\ WorkInv'
    BY <1>0, <1>1, UserWork
  <1>2. ASSUME NEW i \in Incidents, DeliverWatch(i) PROVE UidInv' /\ WorkInv'
    <2>1. /\ server' = server /\ worker' = worker /\ budget' = budget
          /\ answered' = answered /\ announced' = announced
      BY <1>2 DEF DeliverWatch, envVars, histVars
    <2>2. \A j \in Incidents : Known(j)' \subseteq Known(j)
      BY <1>0, <1>2, <2>1, DeliverReadable, HeldOnly DEF Known
    <2>3. \A j \in Incidents : First(j) => HandlerWorked(j)'
      BY <2>1 DEF WorkInv, HandlerWorked
    <2>. QED  BY <2>1, <2>2, <2>3, QuietWork
  <1>3. ASSUME NEW i \in Incidents, TakeKey(i) PROVE UidInv' /\ WorkInv'
    <2>1. /\ UNCHANGED <<server, watch, cache>> /\ budget' = budget
          /\ answered' = answered /\ announced' = announced
      BY <1>3 DEF TakeKey, apiVars, envVars, histVars
    <2>2. worker'.pc = "get" /\ worker'.mut.op = "none"
      BY <1>3, IdleWorkerType, IdleWorkerFields DEF TakeKey, Workers
    <2>3. \A j \in Incidents : Held(j)' = {} /\ HandlerWorked(j)'
      BY <2>2 DEF Held, HandlerWorked
    <2>. QED  BY <1>q, <2>1, <2>3
  <1>4. ASSUME Reconcile PROVE UidInv' /\ WorkInv'
    <2>1. /\ worker.pc = "get" /\ worker.key \in Incidents
          /\ UNCHANGED <<server, watch, cache>> /\ budget' = budget
          /\ answered' = answered /\ announced' = announced
      BY <1>0, <1>4, BusyKey DEF Reconcile, apiVars, envVars, histVars
    <2>2. CASE Return(FALSE)
      BY <1>i, <2>1, <2>2 DEF Return
    <2>3. ASSUME NEW pc \in {"llm", "send", "update"},
                 NEW op \in (Ops \cup {"none"}) \ {"analyze", "resolve"},
                 pc = "update" <=> op \in Ops, Dispatch(pc, op)
          PROVE  UidInv' /\ WorkInv'
      <3>1. /\ worker'.key = worker.key /\ worker'.snap = cache[worker.key]
            /\ worker'.mut.op = op
        BY <1>0, <2>1, <2>3, DispatchType
      <3>2. \A j \in Incidents : Held(j)' \subseteq Known(j) /\ HandlerWorked(j)'
        BY <2>3, <3>1 DEF Held, Known, Readable, HandlerWorked
      <3>. QED  BY <1>q, <2>1, <3>2
    <2>4. \/ Return(FALSE)
          \/ \E pc \in {"llm", "send", "update"}, op \in (Ops \cup {"none"}) \ {"analyze", "resolve"} :
                (pc = "update" <=> op \in Ops) /\ Dispatch(pc, op)
      BY <1>4 DEF Reconcile, GetNotFound, HandlePending, HandleAnalyzing, HandleAnalyzed,
                  HandleNotifying, HandleResolved, HandleFailed, Ops
    <2>. QED  BY <2>2, <2>3, <2>4
  <1>s. ASSUME NEW k \in Incidents, worker.key = k, First(k), worker.pc \in {"llm", "send"}
        PROVE  SameIncarnation
    <2>1. worker.snap \in Known(k) /\ Exists(worker.snap)
      BY <1>0, <1>s DEF Known, Held, HandlerInv
    <2>2. /\ worker.snap.uid \in Nat /\ server[k].uid \in Nat /\ server[k] \in Known(k)
      BY <1>0, <1>s, BusyKey, StoredIsKnown DEF TypeOK, Objects
    <2>3. worker.snap.uid <= 1 /\ server[k].uid <= 1
      BY <1>s, <2>1, <2>2 DEF UidInv, First
    <2>. QED  BY <1>s, <2>1, <2>2, <2>3 DEF SameIncarnation, First, Exists
  <1>5. ASSUME LLMReturns PROVE UidInv' /\ WorkInv'
    <2>1. /\ UNCHANGED <<server, watch, cache>> /\ budget' = budget /\ worker.pc = "llm"
          /\ announced' = announced /\ worker.key \in Incidents
      BY <1>0, <1>5, BusyKey DEF LLMReturns, apiVars, envVars
    <2>2. PICK m \in Mutations : /\ worker' = [worker EXCEPT !.pc = "update", !.mut = m]
                                 /\ m.op \in {"fail", "analyze"}
                                 /\ m.op = "analyze" => answered' = IF SameIncarnation
                                      THEN answered \cup {worker.key} ELSE answered
      <3>1. /\ Mutation("fail").op = "fail"
            /\ \A l \in LLMLevels : [Mutation("analyze") EXCEPT !.level = l].op = "analyze"
        BY DEF Mutation
      <3>. QED  BY <1>5, <3>1, LLMMutations DEF LLMReturns
    <2>3. answered \subseteq answered'
      BY <1>5 DEF LLMReturns
    <2>4. worker'.key = worker.key /\ worker'.snap = worker.snap /\ worker'.mut = m
      BY <1>0, <2>2, UpdatingWorker
    <2>5. \A j \in Incidents : Held(j)' \subseteq Known(j)
      BY <2>1, <2>4 DEF Held, Known
    <2>6. \A j \in Incidents : First(j) => HandlerWorked(j)'
      BY <1>s, <2>1, <2>2, <2>4 DEF HandlerWorked
    <2>. QED  BY <1>q, <2>1, <2>3, <2>5, <2>6
  <1>6. ASSUME SendReturns PROVE UidInv' /\ WorkInv'
    <2>1. /\ UNCHANGED <<server, watch, cache>> /\ budget' = budget /\ worker.pc = "send"
          /\ answered' = answered /\ worker.key \in Incidents
          /\ announced' = IF SameIncarnation THEN announced \cup {worker.key} ELSE announced
      BY <1>0, <1>6, BusyKey DEF SendReturns, apiVars
    <2>2. PICK err \in BOOLEAN : SendResult(err)
      BY <1>6 DEF SendReturns
    <2>3. worker'.key = worker.key /\ worker'.snap = worker.snap /\ worker'.mut.op = "resolve"
      BY <1>0, <2>2, UpdatingWorker, SendMutations DEF SendResult
    <2>4. \A j \in Incidents : Held(j)' \subseteq Known(j)
      BY <2>1, <2>3 DEF Held, Known
    <2>5. \A j \in Incidents : First(j) => HandlerWorked(j)'
      BY <1>s, <2>1, <2>3 DEF HandlerWorked
    <2>. QED  BY <1>q, <2>1, <2>4, <2>5
  <1>7. ASSUME UpdateStatus PROVE UidInv' /\ WorkInv'
    <2>1. /\ worker.pc = "update" /\ cache' = cache
          /\ answered' = answered /\ announced' = announced
          /\ budget'.creates = budget.creates
      BY <1>7, <1>b DEF UpdateStatus, histVars
    <2>2. \/ UNCHANGED apiVars /\ worker' = IdleWorker
          \/ StoreStatus /\ worker' = IdleWorker
          \/ UNCHANGED apiVars /\ worker' = [worker EXCEPT !.tries = @ + 1]
      BY <1>7 DEF UpdateStatus, UpdateNotFound, UpdateStored, UpdateConflict, UpdateInvalid,
                  UpdateError, Return
    <2>3. CASE UNCHANGED apiVars /\ worker' = IdleWorker
      BY <1>i, <2>1, <2>3 DEF apiVars
    <2>4. CASE UNCHANGED apiVars /\ worker' = [worker EXCEPT !.tries = @ + 1]
      <3>1. /\ worker'.key = worker.key /\ worker'.snap = worker.snap
            /\ worker'.mut = worker.mut
        BY <1>0, <2>4 DEF TypeOK, Workers
      <3>2. \A j \in Incidents : Held(j)' \subseteq Known(j)
        BY <2>1, <3>1 DEF Held, Known
      <3>3. \A j \in Incidents : First(j) => HandlerWorked(j)'
        BY <2>1, <3>1 DEF WorkInv, HandlerWorked
      <3>. QED  BY <1>q, <2>1, <2>4, <3>2, <3>3 DEF apiVars
    <2>5. CASE StoreStatus /\ worker' = IdleWorker
      <3>1. CASE Publish(worker.key, NewStatus)
        BY <1>0, <2>1, <2>5, <3>1, StoreWork
      <3>2. CASE server' = server /\ watch' = watch
        BY <1>i, <2>1, <2>5, <3>2
      <3>. QED  BY <1>0, <2>1, <2>5, <3>1, <3>2, StoreStatusEffect
    <2>. QED  BY <2>2, <2>3, <2>4, <2>5
  <1>8. CASE Restart
    BY <1>i, <1>b, <1>8 DEF Restart, apiVars, histVars
  <1>9. CASE UNCHANGED <<server, watch, cache, worker, budget, answered, announced>>
    <2>1. \A j \in Incidents : Held(j)' \subseteq Known(j)
      BY <1>9, HeldOnly DEF Known
    <2>2. \A j \in Incidents : First(j) => HandlerWorked(j)'
      BY <1>9 DEF WorkInv, HandlerWorked
    <2>. QED  BY <1>q, <1>9, <2>1, <2>2
  <1>. QED  BY <1>1, <1>2, <1>3, <1>4, <1>5, <1>6, <1>7, <1>8, <1>9
           DEF Next, WorkerStep, DelayExpires, CooldownLapses, apiVars, envVars, histVars, vars

\* An incident is Resolved only after an LLM answered for it and its message was
\* handed to the notifier, whatever was interrupted in between.
THEOREM ResolvedWorked == Spec => []ResolvedAfterWork
  <1>1. Init => UidInv /\ WorkInv
    BY WorkInit
  <1>2. IndInv /\ UidInv /\ WorkInv /\ [Next]_vars => UidInv' /\ WorkInv'
    BY WorkStep
  <1>3. IndInv /\ WorkInv => ResolvedAfterWork
    <2> SUFFICES ASSUME IndInv, WorkInv, NEW i \in Incidents, Exists(server[i]),
                        server[i].phase = "Resolved", budget.creates[i] = 1
                 PROVE  i \in answered /\ i \in announced
      BY DEF ResolvedAfterWork
    <2>1. TypeOK /\ StreamInv
      BY DEF IndInv
    <2>2. server[i] \in Known(i)
      BY <2>1, StoredIsKnown
    <2>. QED  BY <2>2 DEF WorkInv, First, VersionWorked, Answered
  <1>. QED  BY <1>1, <1>2, <1>3, Inductive, PTL DEF Spec

=============================================================================
