--------------------------- MODULE AIIncidentProofs ---------------------------
(***************************************************************************)
(* Proofs about AIIncident, for every set of incidents, retry limit and    *)
(* bound: the invariant IndInv, the parts of it that are worth reading on  *)
(* their own, and the absence of lost updates.                             *)
(***************************************************************************)
EXTENDS AIIncident, SequenceTheorems, TLAPS

USE KeyAssumption, LimitAssumption, BoundsAssumption

-----------------------------------------------------------------------------
(* Operators the actions are built from.                                   *)

\* A new object and the missing one are objects.
LEMMA NewObjectType ==
  ASSUME NEW u \in Nat
  PROVE  /\ NewObject(u) \in Objects
         /\ NewObject(u).retry = 0
         /\ NewObject(u).uid = u
  BY DEF NewObject, Objects, Phases

\* A worker with nothing to do is a worker.
LEMMA IdleWorkerType == IdleWorker \in Workers
  BY NewObjectType DEF IdleWorker, Absent, Workers, Mutations, Mutation

\* A handler's closure keeps an object an object and its incarnation; it
\* increments the retry count at most once, and only handleFailed's does.
LEMMA MutatedType ==
  ASSUME NEW m \in Mutations, m.op \in Ops, NEW o \in Objects
  PROVE  /\ Mutated(m, o) \in Objects
         /\ Mutated(m, o).uid = o.uid
         /\ Mutated(m, o).retry = IF m.op = "retry" THEN o.retry + 1 ELSE o.retry
         /\ o.notified => Mutated(m, o).notified
         /\ m.op = "fail" => Mutated(m, o).phase = "Failed"
         /\ m.op = "resolve" => Mutated(m, o).phase = "Resolved"
  <1>1. TargetPhase(m.op) \in Phases
    BY DEF TargetPhase, Phases, Mutations, Ops
  <1>2. m.op = "fail" => TargetPhase(m.op) = "Failed"
    BY DEF TargetPhase
  <1>3. m.op = "resolve" => TargetPhase(m.op) = "Resolved"
    BY DEF TargetPhase
  <1>4. /\ m.level \in LLMLevels \cup {""}
        /\ o \in Objects
    BY DEF Mutations
  <1>5. /\ Mutated(m, o).uid = o.uid
        /\ Mutated(m, o).retry = IF m.op = "retry" THEN o.retry + 1 ELSE o.retry
        /\ Mutated(m, o).phase = TargetPhase(m.op)
        /\ o.notified => Mutated(m, o).notified
    BY DEF Mutated, Objects
  <1>6. Mutated(m, o) \in Objects
    <2>0. o.retry \in Nat
      BY DEF Objects
    <2>1. (IF m.op = "retry" THEN o.retry + 1 ELSE o.retry) \in Nat
      BY <2>0
    <2>2. (IF m.op = "resolve" /\ ~m.err THEN TRUE ELSE o.notified) \in BOOLEAN
      BY DEF Objects
    <2>. QED  BY <1>1, <1>4, <2>1, <2>2 DEF Mutated, Objects
  <1>. QED  BY <1>2, <1>3, <1>5, <1>6

\* What publishing a version does to the informer's stream.
LEMMA PublishStream ==
  ASSUME TypeOK, NEW i \in Incidents, NEW o \in Objects, Publish(i, o)
  PROVE  /\ server' \in [Incidents -> Objects]
         /\ watch'  \in [Incidents -> Seq(Objects)]
         /\ server'[i] = o
         /\ Len(watch'[i]) = Len(watch[i]) + 1
         /\ watch'[i] # <<>>
         /\ watch'[i][Len(watch'[i])] = o
         /\ DOMAIN watch'[i] = 1..(Len(watch[i]) + 1)
         /\ \A n \in DOMAIN watch[i] : watch'[i][n] = watch[i][n]
         /\ \A j \in Incidents \ {i} : server'[j] = server[j] /\ watch'[j] = watch[j]
  <1>1. watch[i] \in Seq(Objects)
    BY DEF TypeOK
  <1>2. watch'[i] = Append(watch[i], o)
    BY DEF Publish, TypeOK
  <1>3. /\ Append(watch[i], o) \in Seq(Objects)
        /\ Len(Append(watch[i], o)) = Len(watch[i]) + 1
        /\ \A n \in 1..Len(watch[i]) : Append(watch[i], o)[n] = watch[i][n]
        /\ Append(watch[i], o)[Len(watch[i]) + 1] = o
        /\ Append(watch[i], o) # <<>>
    BY <1>1, AppendProperties
  <1>4. watch' \in [Incidents -> Seq(Objects)]
    BY <1>2, <1>3 DEF Publish, TypeOK
  <1>5. watch'[i] # <<>>
    BY <1>2, <1>3
  <1>. QED  BY <1>1, <1>2, <1>3, <1>4, <1>5 DEF Publish, TypeOK

-----------------------------------------------------------------------------
(* Type correctness.                                                       *)

\* A worker that is not idle holds the key of an incident.
LEMMA BusyKey ==
  ASSUME TypeOK, worker.pc # "idle"
  PROVE  worker.key \in Incidents /\ worker.snap \in Objects /\ worker.mut \in Mutations
  BY DEF TypeOK, Workers

\* Reconcile's return frees the worker and, when it asks for a requeue, delays
\* its key; it never takes a key off a queue.
LEMMA ReturnType ==
  ASSUME TypeOK, worker.key \in Incidents, NEW requeue \in BOOLEAN, Return(requeue)
  PROVE  /\ worker' = IdleWorker
         /\ queue' = queue
         /\ delayed' \subseteq Incidents /\ delayed \subseteq delayed'
         /\ requeue => worker.key \in delayed'
  BY DEF Return, TypeOK

\* A dispatched phase handler holds the cached copy it was called with.
LEMMA DispatchType ==
  ASSUME TypeOK, worker.pc = "get", NEW pc \in {"llm", "send", "update"},
         NEW op \in Ops \cup {"none"}, pc = "update" <=> op \in Ops, Dispatch(pc, op)
  PROVE  /\ worker' \in Workers
         /\ worker'.pc = pc /\ worker'.key = worker.key
         /\ worker'.snap = cache[worker.key]
         /\ worker'.mut.op = op
         /\ queue' = queue /\ delayed' = delayed
  <1>1. Mutation(op) \in Mutations /\ Mutation(op).op = op
    BY DEF Mutation, Mutations
  <1>2. cache[worker.key] \in Objects
    BY BusyKey DEF TypeOK
  <1>3. worker \in Workers
    BY DEF TypeOK
  <1>. QED  BY <1>1, <1>2, <1>3 DEF Dispatch, Found, Workers, queueVars

\* The idle worker satisfies the two equivalences of TypeOK.
LEMMA IdleWorkerFields ==
  /\ IdleWorker.pc = "idle" /\ IdleWorker.key = NoKey
  /\ IdleWorker.mut.op = "none"
  /\ IdleWorker.mut.op \notin Ops
  BY DEF IdleWorker, Mutation, Ops

\* The object a status update is about to store.
LEMMA NewStatusType ==
  ASSUME TypeOK, worker.pc = "update"
  PROVE  /\ NewStatus \in Objects
         /\ NewStatus.uid = cache[worker.key].uid
         /\ NewStatus.retry = IF worker.mut.op = "retry" THEN cache[worker.key].retry + 1
                                                         ELSE cache[worker.key].retry
         /\ cache[worker.key].notified => NewStatus.notified
         /\ worker.mut.op = "fail" => NewStatus.phase = "Failed"
         /\ worker.mut.op = "resolve" => NewStatus.phase = "Resolved"
  <1>1. worker.mut \in Mutations /\ worker.mut.op \in Ops
    BY DEF TypeOK, Workers
  <1>2. cache[worker.key] \in Objects
    BY BusyKey DEF TypeOK
  <1>. QED  BY <1>1, <1>2, MutatedType DEF NewStatus, Latest

\* The closures that follow a call.
LEMMA LLMMutations ==
  /\ Mutation("fail") \in Mutations /\ Mutation("fail").op \in Ops
  /\ \A l \in LLMLevels : /\ [Mutation("analyze") EXCEPT !.level = l] \in Mutations
                          /\ [Mutation("analyze") EXCEPT !.level = l].op \in Ops
  BY DEF Mutation, Mutations, Ops

\* What handleAlerting writes, the channels' failure or not, is a mutation.
LEMMA SendMutations ==
  ASSUME NEW err \in BOOLEAN
  PROVE  /\ [Mutation("resolve") EXCEPT !.err = err] \in Mutations
         /\ [Mutation("resolve") EXCEPT !.err = err].op = "resolve"
         /\ "resolve" \in Ops
  BY DEF Mutation, Mutations, Ops

\* A handler that has chosen its mutation goes on to updateStatus with it.
LEMMA UpdatingWorker ==
  ASSUME TypeOK, NEW m \in Mutations,
         worker' = [worker EXCEPT !.pc = "update", !.mut = m]
  PROVE  /\ worker' \in Workers
         /\ worker'.pc = "update" /\ worker'.key = worker.key
         /\ worker'.snap = worker.snap /\ worker'.mut = m
  BY DEF TypeOK, Workers

\* A stored status is published as a new version, or nothing changes.
LEMMA StoreStatusEffect ==
  ASSUME TypeOK, worker.pc = "update", StoreStatus
  PROVE  /\ watch[worker.key] = <<>>
         /\ Exists(cache[worker.key])
         /\ \/ Publish(worker.key, NewStatus)
            \/ NewStatus = server[worker.key] /\ server' = server /\ watch' = watch
  BY DEF StoreStatus, UpToDate, Latest, apiVars

\* A status update keeps the API server's side well typed.
LEMMA StoreStatusType ==
  ASSUME TypeOK, worker.pc = "update", StoreStatus
  PROVE  server' \in [Incidents -> Objects] /\ watch' \in [Incidents -> Seq(Objects)]
  BY StoreStatusEffect, NewStatusType, BusyKey, PublishStream DEF TypeOK

\* The initial state is well typed: one conjunct of TypeOK at a time.
LEMMA TypeInit == Init => TypeOK
  <1> SUFFICES ASSUME Init PROVE TypeOK
    OBVIOUS
  <1>1. Absent \in Objects
    BY NewObjectType DEF Absent
  <1>2. \A i \in Incidents : watch[i] \in Seq(Objects)
    BY EmptySeq DEF Init
  <1>3. budget \in Budgets
    BY DEF Init, Budgets
  <1>. QED  BY <1>1, <1>2, <1>3, IdleWorkerType, IdleWorkerFields DEF Init, TypeOK

\* Every action keeps the types: one step per action of Next.
LEMMA TypeStep == TypeOK /\ [Next]_vars => TypeOK'
  <1> SUFFICES ASSUME TypeOK, [Next]_vars PROVE TypeOK'
    OBVIOUS
  <1>b. /\ budget.creates \in [Incidents -> 0..MaxCreates]
        /\ budget.edits \in 0..MaxEdits
        /\ budget.errors \in 0..MaxErrors
        /\ budget.crashes \in 0..MaxCrashes
        /\ budget \in Budgets
    BY DEF TypeOK, Budgets
  <1>1. ASSUME NEW i \in Incidents, CreateIncident(i) PROVE TypeOK'
    <2>1. budget.creates[i] + 1 \in 0..MaxCreates
      BY <1>b, <1>1 DEF CreateIncident
    <2>2. budget' \in Budgets
      <3>1. budget'.creates \in [Incidents -> 0..MaxCreates]
        BY <1>b, <1>1, <2>1 DEF CreateIncident, Budgets
      <3>. QED  BY <1>b, <1>1, <3>1 DEF CreateIncident, Budgets
    <2>3. NewObject(budget.creates[i] + 1) \in Objects
      BY <2>1, NewObjectType
    <2>4. server' \in [Incidents -> Objects] /\ watch' \in [Incidents -> Seq(Objects)]
      BY <1>1, <2>3, PublishStream DEF CreateIncident
    <2>. QED  BY <1>1, <2>2, <2>4 DEF CreateIncident, TypeOK, queueVars, histVars
  <1>2. ASSUME NEW i \in Incidents, DeleteIncident(i) PROVE TypeOK'
    <2>1. Absent \in Objects
      BY NewObjectType DEF Absent
    <2>2. server' \in [Incidents -> Objects] /\ watch' \in [Incidents -> Seq(Objects)]
      BY <1>2, <2>1, PublishStream DEF DeleteIncident
    <2>3. /\ answered' \subseteq Incidents /\ announced' \subseteq Incidents
          /\ delivered' \in [Incidents -> 0..2]
      BY <1>2 DEF DeleteIncident, TypeOK
    <2>. QED  BY <1>2, <2>2, <2>3 DEF DeleteIncident, TypeOK, queueVars, envVars
  <1>3. ASSUME NEW i \in Incidents, EditIncident(i) PROVE TypeOK'
    <2>1. server' \in [Incidents -> Objects] /\ watch' \in [Incidents -> Seq(Objects)]
      BY <1>3, PublishStream DEF EditIncident, TypeOK
    <2>2. budget' \in Budgets
      <3>1. budget.edits + 1 \in 0..MaxEdits
        BY <1>b, <1>3 DEF EditIncident
      <3>. QED  BY <1>b, <1>3, <3>1 DEF EditIncident, Budgets
    <2>. QED  BY <1>3, <2>1, <2>2 DEF EditIncident, TypeOK, queueVars, histVars
  <1>4. ASSUME NEW i \in Incidents, DeliverWatch(i) PROVE TypeOK'
    <2>1. watch[i] \in Seq(Objects) /\ watch[i] # <<>>
      BY <1>4 DEF DeliverWatch, TypeOK
    <2>2. Head(watch[i]) \in Objects /\ Tail(watch[i]) \in Seq(Objects)
      BY <2>1, HeadTailProperties
    <2>. QED  BY <1>4, <2>2 DEF DeliverWatch, TypeOK, envVars, histVars
  <1>5. ASSUME NEW i \in Incidents, DelayExpires(i) PROVE TypeOK'
    BY <1>5 DEF DelayExpires, TypeOK, apiVars, envVars, histVars
  <1>6. ASSUME NEW i \in Incidents, TakeKey(i) PROVE TypeOK'
    <2>1. /\ worker' \in Workers
          /\ worker'.pc = "get" /\ worker'.key = i /\ worker'.mut.op = "none"
      BY <1>6, IdleWorkerType, IdleWorkerFields DEF TakeKey, Workers
    <2>2. "none" \notin Ops /\ i # NoKey
      BY DEF Ops
    <2>. QED  BY <1>6, <2>1, <2>2 DEF TakeKey, TypeOK, apiVars, envVars, histVars
  <1>7. ASSUME NEW i \in Incidents, CooldownLapses(i) PROVE TypeOK'
    BY <1>7 DEF CooldownLapses, TypeOK, apiVars, queueVars, histVars
  <1>8. ASSUME Reconcile PROVE TypeOK'
    <2>1. worker.pc = "get" /\ worker.key \in Incidents
      BY <1>8, BusyKey DEF Reconcile
    <2>2. \/ Return(FALSE)
          \/ \E pc \in {"llm", "send", "update"}, op \in Ops \cup {"none"} :
                (pc = "update" <=> op \in Ops) /\ Dispatch(pc, op)
      BY <1>8 DEF Reconcile, GetNotFound, HandlePending, HandleAnalyzing, HandleAnalyzed,
                  HandleNotifying, HandleResolved, HandleFailed, Ops
    <2>3. CASE Return(FALSE)
      BY <1>8, <2>1, <2>3, ReturnType, IdleWorkerType, IdleWorkerFields
         DEF Reconcile, TypeOK, apiVars, envVars, histVars
    <2>4. ASSUME NEW pc \in {"llm", "send", "update"}, NEW op \in Ops \cup {"none"},
                 pc = "update" <=> op \in Ops, Dispatch(pc, op)
          PROVE  TypeOK'
      <3>1. /\ worker' \in Workers
            /\ worker'.pc = pc /\ worker'.key = worker.key
            /\ worker'.mut.op = op
            /\ queue' = queue /\ delayed' = delayed
        BY <2>1, <2>4, DispatchType
      <3>. QED  BY <1>8, <2>1, <2>4, <3>1
               DEF Reconcile, TypeOK, apiVars, envVars, histVars
    <2>. QED  BY <2>2, <2>3, <2>4
  <1>9. ASSUME LLMReturns PROVE TypeOK'
    <2>1. worker.key \in Incidents /\ worker.pc = "llm"
      BY <1>9, BusyKey DEF LLMReturns
    <2>2. /\ worker' \in Workers
          /\ worker'.pc = "update" /\ worker'.key = worker.key /\ worker'.mut.op \in Ops
      BY <1>9, UpdatingWorker, LLMMutations DEF LLMReturns
    <2>3. answered' \subseteq Incidents
      BY <1>9, <2>1 DEF LLMReturns, TypeOK
    <2>. QED  BY <1>9, <2>1, <2>2, <2>3 DEF LLMReturns, TypeOK, apiVars, queueVars, envVars
  <1>10. ASSUME SendReturns PROVE TypeOK'
    <2>1. worker.key \in Incidents /\ worker.pc = "send"
      BY <1>10, BusyKey DEF SendReturns
    <2>2. PICK err \in BOOLEAN : SendResult(err)
      BY <1>10 DEF SendReturns
    <2>3. /\ worker' \in Workers
          /\ worker'.pc = "update" /\ worker'.key = worker.key /\ worker'.mut.op \in Ops
      BY <2>2, UpdatingWorker, SendMutations DEF SendResult
    <2>4. announced' \subseteq Incidents /\ cooling' \subseteq Incidents
      BY <1>10, <2>1 DEF SendReturns, TypeOK
    <2>5. delivered' \in [Incidents -> 0..2]
      <3>1. \/ delivered' = delivered
            \/ /\ delivered[worker.key] < 2
               /\ delivered' = [delivered EXCEPT ![worker.key] = @ + 1]
        BY <1>10 DEF SendReturns
      <3>2. delivered \in [Incidents -> 0..2]
        BY DEF TypeOK
      <3>. QED  BY <2>1, <3>1, <3>2
    <2>. QED  BY <1>10, <2>1, <2>3, <2>4, <2>5 DEF SendReturns, TypeOK, apiVars, queueVars
  <1>11. ASSUME UpdateStatus PROVE TypeOK'
    <2>1. worker.key \in Incidents /\ worker.pc = "update"
      BY <1>11, BusyKey DEF UpdateStatus
    <2>2. server' \in [Incidents -> Objects] /\ watch' \in [Incidents -> Seq(Objects)]
      BY <1>11, <2>1, StoreStatusType
         DEF UpdateStatus, UpdateNotFound, UpdateStored, UpdateConflict, UpdateInvalid,
             UpdateError, TypeOK, apiVars
    <2>3. budget' \in Budgets
      <3>1. CASE budget' = budget
        BY <1>b, <3>1
      <3>2. CASE UpdateError /\ budget' = [budget EXCEPT !.errors = @ + 1]
        <4>1. budget.errors + 1 \in 0..MaxErrors
          BY <1>b, <3>2 DEF UpdateError
        <4>. QED  BY <1>b, <3>2, <4>1 DEF Budgets
      <3>. QED  BY <1>11, <3>1, <3>2 DEF UpdateStatus
    <2>4. \/ \E requeue \in BOOLEAN : Return(requeue)
          \/ /\ worker.tries + 1 < UpdateSteps
             /\ worker' = [worker EXCEPT !.tries = @ + 1]
             /\ UNCHANGED queueVars
      BY <1>11 DEF UpdateStatus, UpdateNotFound, UpdateStored, UpdateConflict,
                   UpdateInvalid, UpdateError, RequeueAfter
    <2>5. /\ worker' \in Workers
          /\ worker'.pc = "idle" <=> worker'.key = NoKey
          /\ worker'.pc = "update" <=> worker'.mut.op \in Ops
          /\ queue' \subseteq Incidents /\ delayed' \subseteq Incidents
      <3>1. CASE \E requeue \in BOOLEAN : Return(requeue)
        BY <2>1, <3>1, ReturnType, IdleWorkerType, IdleWorkerFields DEF TypeOK
      <3>2. CASE /\ worker.tries + 1 < UpdateSteps
                 /\ worker' = [worker EXCEPT !.tries = @ + 1]
                 /\ UNCHANGED queueVars
        <4>1. worker.tries \in 0..(UpdateSteps - 1)
          BY DEF TypeOK, Workers
        <4>2. worker.tries + 1 \in 0..(UpdateSteps - 1)
          BY <3>2, <4>1
        <4>3. worker' \in Workers
          BY <3>2, <4>2 DEF TypeOK, Workers
        <4>. QED  BY <3>2, <4>3 DEF TypeOK, Workers, queueVars
      <3>. QED  BY <2>4, <3>1, <3>2
    <2>. QED  BY <1>11, <2>2, <2>3, <2>5 DEF UpdateStatus, TypeOK, histVars
  <1>12. ASSUME Restart PROVE TypeOK'
    <2>1. budget' \in Budgets
      <3>1. budget.crashes + 1 \in 0..MaxCrashes
        BY <1>b, <1>12 DEF Restart
      <3>. QED  BY <1>b, <1>12, <3>1 DEF Restart, Budgets
    <2>. QED  BY <1>12, <2>1, IdleWorkerType, IdleWorkerFields
             DEF Restart, TypeOK, apiVars, histVars
  <1>13. CASE UNCHANGED vars
    BY <1>13 DEF vars, TypeOK
  <1>. QED  BY <1>1, <1>2, <1>3, <1>4, <1>5, <1>6, <1>7, <1>8, <1>9, <1>10, <1>11, <1>12,
               <1>13 DEF Next, User, WorkerStep

\* Every reachable state is well typed.
THEOREM TypeCorrect == Spec => []TypeOK
  BY TypeInit, TypeStep, PTL DEF Spec

-----------------------------------------------------------------------------
(* The informer's stream and how far behind its readers are.               *)

\* An object's retry count is a number.
LEMMA ObjectRetry == \A o \in Objects : o.retry \in Nat
  BY DEF Objects

\* A published version ends the stream and leaves the other objects alone.
LEMMA PublishKeepsStream ==
  ASSUME TypeOK, StreamInv, NEW i \in Incidents, NEW o \in Objects,
         Publish(i, o), cache' = cache
  PROVE  StreamInv'
  BY PublishStream DEF StreamInv

\* Delivering the head of a watch stream leaves its last entry where it is, or
\* empties the stream and leaves the cache equal to the server.
LEMMA DeliverKeepsStream ==
  ASSUME TypeOK, StreamInv, NEW i \in Incidents, DeliverWatch(i)
  PROVE  StreamInv'
  <1>1. watch[i] \in Seq(Objects) /\ watch[i] # <<>>
    BY DEF DeliverWatch, TypeOK
  <1>2. /\ Len(watch[i]) \in Nat \ {0}
        /\ Tail(watch[i]) \in Seq(Objects)
        /\ Len(Tail(watch[i])) = Len(watch[i]) - 1
        /\ \A n \in 1..Len(Tail(watch[i])) : Tail(watch[i])[n] = watch[i][n + 1]
        /\ Head(watch[i]) = watch[i][1]
    BY <1>1, HeadTailProperties, LenProperties, EmptySeq
  <1>3. server[i] = watch[i][Len(watch[i])]
    BY <1>1 DEF StreamInv
  <1>4. /\ cache'[i] = Head(watch[i]) /\ watch'[i] = Tail(watch[i])
        /\ server' = server
        /\ \A j \in Incidents \ {i} : cache'[j] = cache[j] /\ watch'[j] = watch[j]
    BY DEF DeliverWatch, TypeOK
  <1>5. server'[i] = IF watch'[i] = <<>> THEN cache'[i] ELSE watch'[i][Len(watch'[i])]
    <2>1. CASE Tail(watch[i]) = <<>>
      <3>1. Len(watch[i]) = 1
        <4>1. Len(Tail(watch[i])) = 0
          BY <2>1, EmptySeq
        <4>. QED  BY <1>2, <4>1
      <3>. QED  BY <1>2, <1>3, <1>4, <2>1, <3>1
    <2>2. CASE Tail(watch[i]) # <<>>
      <3>1. Len(Tail(watch[i])) \in 1..Len(Tail(watch[i]))
        BY <1>2, <2>2, EmptySeq, LenProperties
      <3>2. Tail(watch[i])[Len(Tail(watch[i]))] = watch[i][Len(watch[i])]
        BY <1>2, <3>1
      <3>. QED  BY <1>3, <1>4, <2>2, <3>2
    <2>. QED  BY <2>1, <2>2
  <1>. QED  BY <1>4, <1>5 DEF StreamInv

\* Server and cache start equal, with nothing in between.
LEMMA StreamInit == Init => StreamInv
  BY DEF Init, StreamInv

\* Only publishing and delivering touch the streams.
LEMMA StreamStep == TypeOK /\ StreamInv /\ [Next]_vars => StreamInv'
  <1> SUFFICES ASSUME TypeOK, StreamInv, [Next]_vars PROVE StreamInv'
    OBVIOUS
  <1>1. ASSUME NEW i \in Incidents, User(i) PROVE StreamInv'
    <2>1. /\ Absent \in Objects /\ server[i] \in Objects
          /\ NewObject(budget.creates[i] + 1) \in Objects
      BY NewObjectType DEF Absent, TypeOK, Budgets
    <2>. QED  BY <1>1, <2>1, PublishKeepsStream
             DEF User, CreateIncident, DeleteIncident, EditIncident
  <1>2. ASSUME NEW i \in Incidents, DeliverWatch(i) PROVE StreamInv'
    BY <1>2, DeliverKeepsStream
  <1>3. ASSUME UpdateStatus PROVE StreamInv'
    <2>1. worker.pc = "update" /\ cache' = cache /\ worker.key \in Incidents
      BY <1>3, BusyKey DEF UpdateStatus
    <2>2. CASE StoreStatus
      BY <2>1, <2>2, StoreStatusEffect, NewStatusType, PublishKeepsStream DEF StreamInv
    <2>3. CASE UNCHANGED apiVars
      BY <2>1, <2>3 DEF StreamInv, apiVars
    <2>. QED  BY <1>3, <2>2, <2>3
             DEF UpdateStatus, UpdateNotFound, UpdateStored, UpdateConflict, UpdateInvalid,
                 UpdateError
  <1>4. CASE UNCHANGED <<server, watch, cache>>
    BY <1>4 DEF StreamInv
  <1>. QED  BY <1>1, <1>2, <1>3, <1>4
           DEF Next, WorkerStep, Reconcile, LLMReturns, SendReturns, DelayExpires, TakeKey,
               CooldownLapses, Restart, apiVars, vars

\* What readers may still see after a new version was published.
LEMMA PublishReadable ==
  ASSUME TypeOK, NEW i \in Incidents, NEW o \in Objects, Publish(i, o), cache' = cache
  PROVE  /\ Readable(i)' = Readable(i) \cup {o}
         /\ \A j \in Incidents \ {i} : Readable(j)' = Readable(j)
  <1>1. DOMAIN watch[i] = 1..Len(watch[i]) /\ Len(watch[i]) \in Nat
    BY LenProperties DEF TypeOK
  <1>2. {watch'[i][n] : n \in DOMAIN watch'[i]} = {watch[i][n] : n \in DOMAIN watch[i]} \cup {o}
    <2>1. /\ DOMAIN watch'[i] = 1..(Len(watch[i]) + 1)
          /\ \A n \in 1..Len(watch[i]) : watch'[i][n] = watch[i][n]
          /\ watch'[i][Len(watch[i]) + 1] = o
      BY <1>1, PublishStream
    <2>2. DOMAIN watch'[i] = DOMAIN watch[i] \cup {Len(watch[i]) + 1}
      BY <1>1, <2>1
    <2>3. \A n \in DOMAIN watch[i] : watch'[i][n] = watch[i][n]
      BY <1>1, <2>1
    <2>. QED  BY <2>1, <2>2, <2>3
  <1>3. Readable(i)' = {cache[i]} \cup {watch'[i][n] : n \in DOMAIN watch'[i]}
    BY DEF Readable
  <1>4. Readable(i)' = Readable(i) \cup {o}
    BY <1>2, <1>3, Zenon DEF Readable
  <1>5. \A j \in Incidents \ {i} : watch'[j] = watch[j] /\ cache'[j] = cache[j]
    BY PublishStream
  <1>6. \A j \in Incidents \ {i} : Readable(j)' = Readable(j)
    BY <1>5 DEF Readable
  <1>. QED  BY <1>4, <1>6

\* What a read may yet return is an object.
LEMMA ReadableObjects ==
  ASSUME TypeOK, NEW i \in Incidents
  PROVE  Readable(i) \subseteq Objects
  <1>1. cache[i] \in Objects /\ watch[i] \in Seq(Objects)
    BY DEF TypeOK
  <1>2. \A n \in DOMAIN watch[i] : watch[i][n] \in Objects
    BY <1>1, ElementOfSeq, LenProperties
  <1>. QED  BY <1>1, <1>2 DEF Readable

\* Delivery only removes versions a read may yet return.
LEMMA DeliverReadable ==
  ASSUME TypeOK, NEW i \in Incidents, DeliverWatch(i)
  PROVE  \A j \in Incidents : Readable(j)' \subseteq Readable(j)
  <1>1. watch[i] \in Seq(Objects) /\ watch[i] # <<>>
    BY DEF DeliverWatch, TypeOK
  <1>2. /\ Len(watch[i]) \in Nat \ {0}
        /\ DOMAIN watch[i] = 1..Len(watch[i])
        /\ DOMAIN Tail(watch[i]) = 1..(Len(watch[i]) - 1)
        /\ \A n \in 1..(Len(watch[i]) - 1) : Tail(watch[i])[n] = watch[i][n + 1]
        /\ Head(watch[i]) = watch[i][1]
    BY <1>1, HeadTailProperties, LenProperties, EmptySeq
  <1>3. Head(watch[i]) \in {watch[i][n] : n \in DOMAIN watch[i]}
    BY <1>2
  <1>4. {Tail(watch[i])[n] : n \in DOMAIN Tail(watch[i])} \subseteq {watch[i][n] : n \in DOMAIN watch[i]}
    BY <1>2
  <1>. QED  BY <1>3, <1>4 DEF DeliverWatch, Readable, TypeOK

\* A new version at most one retry ahead of every version still readable, and
\* at least as far as none of them, keeps the staleness bound.
LEMMA PublishKeepsBound ==
  ASSUME TypeOK, BoundedStaleness, NEW i \in Incidents, NEW o \in Objects,
         Publish(i, o), cache' = cache,
         \A r \in Readable(i) : o.retry <= r.retry + 1
  PROVE  BoundedStaleness'
  <1>1. o.retry \in Nat /\ o.retry <= o.retry + 1
    BY ObjectRetry
  <1>2. \A r \in Readable(i)' : server'[i].retry <= r.retry + 1
    BY <1>1, PublishReadable, PublishStream
  <1>3. ASSUME NEW j \in Incidents \ {i}, NEW r \in Readable(j)'
        PROVE  server'[j].retry <= r.retry + 1
    <2>1. r \in Readable(j)
      BY PublishReadable
    <2>2. server'[j] = server[j]
      BY PublishStream
    <2>. QED  BY <2>1, <2>2 DEF BoundedStaleness
  <1>. QED  BY <1>2, <1>3 DEF BoundedStaleness

\* A status write finds the cache up to date.
LEMMA StoreUpToDate ==
  ASSUME TypeOK, StreamInv, worker.pc = "update", StoreStatus
  PROVE  /\ worker.key \in Incidents
         /\ server[worker.key] = cache[worker.key]
         /\ watch[worker.key] = <<>>
         /\ Readable(worker.key) = {cache[worker.key]}
  <1>1. worker.key \in Incidents /\ watch[worker.key] = <<>>
    BY BusyKey, StoreStatusEffect
  <1>2. DOMAIN watch[worker.key] = {}
    BY <1>1, EmptySeq
  <1>. QED  BY <1>1, <1>2 DEF StreamInv, Readable

\* New objects and absent ones start at retry count 0; edits keep it.
LEMMA UserPublishes ==
  ASSUME TypeOK, NEW i \in Incidents, User(i)
  PROVE  /\ cache' = cache /\ worker' = worker /\ queue' = queue /\ delayed' = delayed
         /\ \E o \in Objects : /\ Publish(i, o)
                               /\ o.retry = 0 \/ o.retry = server[i].retry
  <1>1. CASE CreateIncident(i)
    <2>1. budget.creates[i] + 1 \in Nat
      BY DEF TypeOK, Budgets
    <2>. QED  BY <1>1, <2>1, NewObjectType DEF CreateIncident, queueVars
  <1>2. CASE DeleteIncident(i)
    BY <1>2, NewObjectType DEF DeleteIncident, Absent, queueVars
  <1>3. CASE EditIncident(i)
    BY <1>3 DEF EditIncident, TypeOK, queueVars
  <1>. QED  BY <1>1, <1>2, <1>3 DEF User

\* At the start the only readable version is the server's.
LEMMA StalenessInit == Init => BoundedStaleness
  <1> SUFFICES ASSUME Init, NEW i \in Incidents PROVE Readable(i) = {server[i]} /\ server[i].retry <= server[i].retry + 1
    BY DEF BoundedStaleness
  <1>1. DOMAIN watch[i] = {}
    BY EmptySeq DEF Init
  <1>2. server[i] = Absent /\ Absent.retry = 0
    BY NewObjectType DEF Init, Absent
  <1>. QED  BY <1>1, <1>2 DEF Init, Readable

\* Only a retry raises the count, by one, and it is published only by a worker
\* that has read the newest version.
LEMMA StalenessStep ==
  TypeOK /\ StreamInv /\ BoundedStaleness /\ [Next]_vars => BoundedStaleness'
  <1> SUFFICES ASSUME TypeOK, StreamInv, BoundedStaleness, [Next]_vars
               PROVE  BoundedStaleness'
    OBVIOUS
  <1>1. ASSUME NEW i \in Incidents, User(i) PROVE BoundedStaleness'
    <2>1. PICK o \in Objects : Publish(i, o) /\ (o.retry = 0 \/ o.retry = server[i].retry)
      BY <1>1, UserPublishes
    <2>2. \A r \in Readable(i) : r.retry \in Nat /\ server[i].retry <= r.retry + 1
      BY ReadableObjects, ObjectRetry DEF BoundedStaleness
    <2>3. \A r \in Readable(i) : o.retry <= r.retry + 1
      BY <2>1, <2>2
    <2>. QED  BY <1>1, <2>1, <2>3, UserPublishes, PublishKeepsBound
  <1>2. ASSUME NEW i \in Incidents, DeliverWatch(i) PROVE BoundedStaleness'
    BY <1>2, DeliverReadable DEF BoundedStaleness, DeliverWatch
  <1>3. ASSUME UpdateStatus PROVE BoundedStaleness'
    <2>1. worker.pc = "update" /\ cache' = cache
      BY <1>3 DEF UpdateStatus
    <2>2. CASE StoreStatus
      <3>1. cache[worker.key] \in Objects /\ cache[worker.key].retry \in Nat
        BY <2>1, BusyKey, ObjectRetry DEF TypeOK
      <3>2. NewStatus.retry <= cache[worker.key].retry + 1
        BY <2>1, <3>1, NewStatusType
      <3>3. CASE Publish(worker.key, NewStatus)
        BY <2>1, <2>2, <3>2, <3>3, StoreUpToDate, NewStatusType, PublishKeepsBound
      <3>4. CASE server' = server /\ watch' = watch
        BY <2>1, <3>4 DEF BoundedStaleness, Readable
      <3>. QED  BY <2>1, <2>2, <3>3, <3>4, StoreStatusEffect
    <2>3. CASE UNCHANGED apiVars
      BY <2>1, <2>3 DEF BoundedStaleness, Readable, apiVars
    <2>. QED  BY <1>3, <2>2, <2>3
             DEF UpdateStatus, UpdateNotFound, UpdateStored, UpdateConflict, UpdateInvalid,
                 UpdateError
  <1>4. CASE UNCHANGED <<server, watch, cache>>
    BY <1>4 DEF BoundedStaleness, Readable
  <1>. QED  BY <1>1, <1>2, <1>3, <1>4
           DEF Next, WorkerStep, Reconcile, LLMReturns, SendReturns, DelayExpires, TakeKey,
               CooldownLapses, Restart, apiVars, vars

-----------------------------------------------------------------------------
(* The worker's snapshot.                                                  *)

\* Nothing is at work at the start.
LEMMA WorkerInit == Init => WorkerInv
  BY DEF Init, WorkerInv, IdleWorker

\* One step per action: the server's count stays within one retry of the snapshot
\* a handler acts on, and a snapshot gone stale has its key queued again.
LEMMA WorkerStepInv ==
  TypeOK /\ StreamInv /\ BoundedStaleness /\ WorkerInv /\ [Next]_vars => WorkerInv'
  <1> SUFFICES ASSUME TypeOK, StreamInv, BoundedStaleness, WorkerInv, [Next]_vars
               PROVE  WorkerInv'
    OBVIOUS
  <1>i. worker' = IdleWorker => WorkerInv'
    BY DEF WorkerInv, IdleWorker
  <1>1. ASSUME NEW i \in Incidents, User(i) PROVE WorkerInv'
    <2> SUFFICES ASSUME worker.pc \in {"llm", "send", "update"}
                 PROVE  server'[worker.key].retry <= worker.snap.retry + 1
      BY <1>1, UserPublishes DEF WorkerInv
    <2>1. PICK o \in Objects : Publish(i, o) /\ (o.retry = 0 \/ o.retry = server[i].retry)
      BY <1>1, UserPublishes
    <2>2. worker.key \in Incidents /\ worker.snap.retry \in Nat
      BY BusyKey, ObjectRetry
    <2>3. server[worker.key].retry <= worker.snap.retry + 1
      BY DEF WorkerInv
    <2>4. server'[worker.key] = IF worker.key = i THEN o ELSE server[worker.key]
      BY <2>1, <2>2, PublishStream
    <2>. QED  BY <2>1, <2>2, <2>3, <2>4
  <1>2. ASSUME NEW i \in Incidents, DeliverWatch(i) PROVE WorkerInv'
    <2>1. /\ worker' = worker /\ server' = server /\ queue' = queue \cup {i}
          /\ \A j \in Incidents \ {i} : cache'[j] = cache[j]
      BY <1>2 DEF DeliverWatch, TypeOK
    <2>2. worker.pc \in {"llm", "send", "update"} => worker.key \in Incidents
      BY BusyKey
    <2>. QED  BY <2>1, <2>2 DEF WorkerInv
  <1>3. ASSUME NEW i \in Incidents, DelayExpires(i) PROVE WorkerInv'
    BY <1>3 DEF DelayExpires, WorkerInv, apiVars
  <1>4. ASSUME NEW i \in Incidents, TakeKey(i) PROVE WorkerInv'
    BY <1>4, IdleWorkerType DEF TakeKey, WorkerInv, Workers
  <1>5. ASSUME Reconcile PROVE WorkerInv'
    <2>1. /\ worker.pc = "get" /\ worker.key \in Incidents
          /\ server' = server /\ cache' = cache
      BY <1>5, BusyKey DEF Reconcile, apiVars
    <2>3. CASE Return(FALSE)
      BY <1>i, <2>3 DEF Return
    <2>4. ASSUME NEW pc \in {"llm", "send", "update"}, NEW op \in Ops \cup {"none"},
                 pc = "update" <=> op \in Ops, Dispatch(pc, op), op # "fail",
                 pc = "llm" => cache[worker.key].phase = "Analyzing",
                 op = "retry" => cache[worker.key].retry < RetryLimit
          PROVE  WorkerInv'
      <3>1. /\ worker'.pc = pc /\ worker'.key = worker.key
            /\ worker'.snap = cache[worker.key]
            /\ worker'.mut.op = op
        BY <2>1, <2>4, DispatchType
      <3>2. server[worker.key].retry <= cache[worker.key].retry + 1
        BY <2>1 DEF BoundedStaleness, Readable
      <3>. QED  BY <2>1, <2>4, <3>1, <3>2 DEF WorkerInv
    <2>5. CASE GetNotFound \/ HandleResolved
      BY <2>3, <2>5 DEF GetNotFound, HandleResolved
    <2>6. CASE HandlePending
      BY <2>4, <2>6 DEF HandlePending, Ops
    <2>7. CASE HandleAnalyzing
      BY <2>4, <2>7 DEF HandleAnalyzing, Found, Ops
    <2>8. CASE HandleAnalyzed
      BY <2>4, <2>8 DEF HandleAnalyzed, Ops
    <2>9. CASE HandleNotifying
      BY <2>4, <2>9 DEF HandleNotifying, Ops
    <2>10. CASE HandleFailed
      BY <2>3, <2>4, <2>10 DEF HandleFailed, Found, Ops
    <2>. QED  BY <1>5, <2>5, <2>6, <2>7, <2>8, <2>9, <2>10 DEF Reconcile
  <1>6. ASSUME LLMReturns PROVE WorkerInv'
    <2>1. /\ worker.pc = "llm" /\ server' = server /\ cache' = cache /\ queue' = queue
      BY <1>6 DEF LLMReturns, apiVars, queueVars
    <2>2. /\ worker'.pc = "update" /\ worker'.key = worker.key /\ worker'.snap = worker.snap
          /\ worker'.mut.op \in {"fail", "analyze"}
      <3>1. /\ Mutation("fail").op = "fail"
            /\ \A l \in LLMLevels : [Mutation("analyze") EXCEPT !.level = l].op = "analyze"
        BY DEF Mutation
      <3>. QED  BY <1>6, <3>1, UpdatingWorker, LLMMutations DEF LLMReturns
    <2>. QED  BY <2>1, <2>2 DEF WorkerInv
  <1>7. ASSUME SendReturns PROVE WorkerInv'
    <2>1. /\ worker.pc = "send" /\ server' = server /\ cache' = cache /\ queue' = queue
      BY <1>7 DEF SendReturns, apiVars, queueVars
    <2>2. PICK err \in BOOLEAN : SendResult(err)
      BY <1>7 DEF SendReturns
    <2>3. /\ worker'.pc = "update" /\ worker'.key = worker.key /\ worker'.snap = worker.snap
          /\ worker'.mut.op = "resolve"
      BY <2>2, UpdatingWorker, SendMutations DEF SendResult
    <2>. QED  BY <2>1, <2>3 DEF WorkerInv
  <1>8. ASSUME UpdateStatus PROVE WorkerInv'
    <2>1. \/ worker' = IdleWorker
          \/ /\ worker' = [worker EXCEPT !.tries = @ + 1]
             /\ UNCHANGED <<server, cache, queue>>
      BY <1>8 DEF UpdateStatus, UpdateNotFound, UpdateStored, UpdateConflict, UpdateInvalid,
                  UpdateError, Return, apiVars, queueVars
    <2>2. CASE /\ worker' = [worker EXCEPT !.tries = @ + 1]
               /\ UNCHANGED <<server, cache, queue>>
      BY <2>2 DEF WorkerInv, TypeOK, Workers
    <2>. QED  BY <1>i, <2>1, <2>2
  <1>9. CASE Restart
    BY <1>i, <1>9 DEF Restart
  <1>10. CASE UNCHANGED <<server, cache, worker, queue>>
    BY <1>10 DEF WorkerInv
  <1>. QED  BY <1>1, <1>2, <1>3, <1>4, <1>5, <1>6, <1>7, <1>8, <1>9, <1>10
           DEF Next, WorkerStep, CooldownLapses, apiVars, queueVars, vars

-----------------------------------------------------------------------------
(* The retry bound.                                                        *)

\* Nothing was retried at the start.
LEMMA RetryInit == Init => RetryBound
  BY NewObjectType DEF Init, RetryBound, Absent

\* Publishing an object whose count is within the bound.
LEMMA PublishKeepsRetryBound ==
  ASSUME TypeOK, RetryBound, NEW i \in Incidents, NEW o \in Objects, Publish(i, o),
         o.retry <= RetryLimit + 1, RetryLimit = 0 => o.retry = 0
  PROVE  RetryBound'
  <1>1. server'[i] = o /\ \A j \in Incidents \ {i} : server'[j] = server[j]
    BY PublishStream
  <1>. QED  BY <1>1 DEF RetryBound

\* Only handleFailed retries, and from a count it has compared with the limit.
LEMMA RetryStep ==
  TypeOK /\ StreamInv /\ WorkerInv /\ RetryBound /\ [Next]_vars => RetryBound'
  <1> SUFFICES ASSUME TypeOK, StreamInv, WorkerInv, RetryBound, [Next]_vars
               PROVE  RetryBound'
    OBVIOUS
  <1>1. ASSUME NEW i \in Incidents, User(i) PROVE RetryBound'
    <2>1. PICK o \in Objects : Publish(i, o) /\ (o.retry = 0 \/ o.retry = server[i].retry)
      BY <1>1, UserPublishes
    <2>2. o.retry <= RetryLimit + 1 /\ (RetryLimit = 0 => o.retry = 0)
      BY <2>1 DEF RetryBound
    <2>. QED  BY <2>1, <2>2, PublishKeepsRetryBound
  <1>2. ASSUME UpdateStatus PROVE RetryBound'
    <2>1. worker.pc = "update" /\ worker.key \in Incidents
      BY <1>2, BusyKey DEF UpdateStatus
    <2>2. CASE StoreStatus
      <3>1. /\ server[worker.key] = cache[worker.key]
            /\ server[worker.key].retry \in Nat
            /\ worker.snap.retry \in Nat
        BY <2>1, <2>2, StoreUpToDate, BusyKey, ObjectRetry DEF TypeOK
      <3>2. /\ server[worker.key].retry <= worker.snap.retry + 1
            /\ worker.mut.op = "retry" => worker.snap.retry < RetryLimit
        BY <2>1 DEF WorkerInv
      <3>3. /\ server[worker.key].retry <= RetryLimit + 1
            /\ RetryLimit = 0 => server[worker.key].retry = 0
        BY <2>1 DEF RetryBound
      <3>4. NewStatus.retry = IF worker.mut.op = "retry" THEN server[worker.key].retry + 1
                                                         ELSE server[worker.key].retry
        BY <2>1, <3>1, NewStatusType
      <3>5. NewStatus.retry <= RetryLimit + 1 /\ (RetryLimit = 0 => NewStatus.retry = 0)
        BY <3>1, <3>2, <3>3, <3>4
      <3>6. CASE Publish(worker.key, NewStatus)
        BY <2>1, <3>5, <3>6, NewStatusType, PublishKeepsRetryBound
      <3>7. CASE server' = server
        BY <3>7 DEF RetryBound
      <3>. QED  BY <2>1, <2>2, <3>6, <3>7, StoreStatusEffect
    <2>3. CASE UNCHANGED apiVars
      BY <2>3 DEF RetryBound, apiVars
    <2>. QED  BY <1>2, <2>2, <2>3
             DEF UpdateStatus, UpdateNotFound, UpdateStored, UpdateConflict, UpdateInvalid,
                 UpdateError
  <1>3. CASE server' = server
    BY <1>3 DEF RetryBound
  <1>. QED  BY <1>1, <1>2, <1>3
           DEF Next, WorkerStep, Reconcile, LLMReturns, SendReturns, DeliverWatch, DelayExpires,
               TakeKey, CooldownLapses, Restart, apiVars, vars

-----------------------------------------------------------------------------
(* No incident with work left is forgotten.                                *)

\* The invariant for one incident.
Tracked(i) == Settled(i) \/ i \in queue \cup delayed \/ watch[i] # <<>> \/ worker.key = i

\* Reconcile may return for the worker's key without asking for another call
\* when that incident is settled, queued, or has an event under way.
LEMMA ReturnKeepsTracked ==
  ASSUME TypeOK, NeverForgotten, NEW requeue \in BOOLEAN, Return(requeue),
         NEW k \in Incidents, worker.key = k,
         \A j \in Incidents \ {k} : server'[j] = server[j] /\ watch'[j] = watch[j],
         requeue \/ Settled(k)' \/ k \in queue \/ watch'[k] # <<>>
  PROVE  NeverForgotten'
  <1>1. /\ queue' = queue /\ delayed \subseteq delayed'
        /\ requeue => k \in delayed'
    BY ReturnType
  <1>2. Tracked(k)'
    BY <1>1 DEF Tracked
  <1>3. ASSUME NEW j \in Incidents \ {k} PROVE Tracked(j)'
    BY <1>1, <1>3 DEF NeverForgotten, Tracked, Settled
  <1>. QED  BY <1>2, <1>3 DEF NeverForgotten, Tracked

\* Nothing exists at the start, so nothing can be forgotten.
LEMMA TrackedInit == Init => NeverForgotten
  BY NewObjectType DEF Init, NeverForgotten, Settled, Absent, Exists

\* With nothing under way, the cache shows what is stored.
LEMMA QuietCache ==
  ASSUME TypeOK, StreamInv, NEW i \in Incidents, watch[i] = <<>>
  PROVE  server[i] = cache[i]
  BY DEF StreamInv

\* One step per action: an incident with work to do keeps its key on a queue, in
\* the worker, in the delay, or an undelivered version that will queue it.
LEMMA TrackedStep ==
  TypeOK /\ StreamInv /\ WorkerInv /\ NeverForgotten /\ [Next]_vars => NeverForgotten'
  <1> SUFFICES ASSUME TypeOK, StreamInv, WorkerInv, NeverForgotten, [Next]_vars
               PROVE  NeverForgotten'
    OBVIOUS
  <1>1. ASSUME NEW i \in Incidents, User(i) PROVE NeverForgotten'
    <2>1. PICK o \in Objects : Publish(i, o)
      BY <1>1, UserPublishes
    <2>2. /\ watch'[i] # <<>>
          /\ \A j \in Incidents \ {i} : server'[j] = server[j] /\ watch'[j] = watch[j]
      BY <2>1, PublishStream
    <2>3. worker' = worker /\ queue' = queue /\ delayed' = delayed
      BY <1>1, UserPublishes
    <2>. QED  BY <2>2, <2>3 DEF NeverForgotten, Settled
  <1>2. ASSUME NEW i \in Incidents, DeliverWatch(i) PROVE NeverForgotten'
    <2>1. /\ server' = server /\ worker' = worker /\ delayed' = delayed
          /\ queue' = queue \cup {i}
          /\ \A j \in Incidents \ {i} : watch'[j] = watch[j]
      BY <1>2 DEF DeliverWatch, TypeOK
    <2>. QED  BY <2>1 DEF NeverForgotten, Settled
  <1>3. ASSUME NEW i \in Incidents, DelayExpires(i) PROVE NeverForgotten'
    BY <1>3 DEF DelayExpires, NeverForgotten, Settled, apiVars
  <1>4. ASSUME NEW i \in Incidents, TakeKey(i) PROVE NeverForgotten'
    <2>1. worker.key = NoKey /\ worker'.key = i
      BY <1>4, IdleWorkerType DEF TakeKey, TypeOK, Workers
    <2>2. server' = server /\ watch' = watch /\ delayed' = delayed /\ queue' = queue \ {i}
      BY <1>4 DEF TakeKey, apiVars
    <2>. QED  BY <2>1, <2>2 DEF NeverForgotten, Settled
  <1>5. ASSUME Reconcile PROVE NeverForgotten'
    <2>1. worker.pc = "get" /\ worker.key \in Incidents /\ server' = server /\ watch' = watch
      BY <1>5, BusyKey DEF Reconcile, apiVars
    <2>2. PICK k \in Incidents : k = worker.key
      BY <2>1
    <2>3. CASE GetNotFound \/ HandleResolved \/ (Found.retry >= RetryLimit /\ HandleFailed)
      <3>1. ~Exists(cache[k]) \/ cache[k].phase = "Resolved"
               \/ (cache[k].phase = "Failed" /\ cache[k].retry >= RetryLimit)
        BY <2>2, <2>3 DEF GetNotFound, HandleResolved, HandleFailed, Found
      <3>2. watch'[k] # <<>> \/ Settled(k)'
        BY <2>1, <2>2, <3>1, QuietCache DEF Settled
      <3>3. Found.retry >= RetryLimit => ~(Found.retry < RetryLimit)
        <4>1. Found.retry \in Nat
          BY <2>2, ObjectRetry DEF TypeOK, Found
        <4>. QED  BY <4>1
      <3>4. Return(FALSE)
        BY <2>2, <2>3, <3>3 DEF GetNotFound, HandleResolved, HandleFailed, Found
      <3>. QED  BY <2>1, <2>2, <3>2, <3>4, ReturnKeepsTracked
    <2>4. CASE \E pc \in {"llm", "send", "update"}, op \in Ops \cup {"none"} :
                  (pc = "update" <=> op \in Ops) /\ Dispatch(pc, op)
      BY <2>1, <2>4, DispatchType DEF NeverForgotten, Settled
    <2>5. \/ GetNotFound \/ HandleResolved \/ (Found.retry >= RetryLimit /\ HandleFailed)
          \/ \E pc \in {"llm", "send", "update"}, op \in Ops \cup {"none"} :
                (pc = "update" <=> op \in Ops) /\ Dispatch(pc, op)
      BY <1>5 DEF Reconcile, HandlePending, HandleAnalyzing, HandleAnalyzed,
                  HandleNotifying, HandleFailed, Ops
    <2>. QED  BY <2>3, <2>4, <2>5
  <1>6. ASSUME LLMReturns \/ SendReturns PROVE NeverForgotten'
    <2>1. server' = server /\ watch' = watch /\ queue' = queue /\ delayed' = delayed
      BY <1>6 DEF LLMReturns, SendReturns, apiVars, queueVars
    <2>2. worker'.key = worker.key
      BY <1>6, UpdatingWorker, LLMMutations, SendMutations
         DEF LLMReturns, SendReturns, SendResult
    <2>. QED  BY <2>1, <2>2 DEF NeverForgotten, Settled
  <1>7. ASSUME UpdateStatus PROVE NeverForgotten'
    <2>1. worker.pc = "update" /\ worker.key \in Incidents
      BY <1>7, BusyKey DEF UpdateStatus
    <2>2. PICK k \in Incidents : worker.key = k
      BY <2>1
    <2>3. ASSUME UNCHANGED apiVars \/ StoreStatus
          PROVE  \A j \in Incidents \ {k} : server'[j] = server[j] /\ watch'[j] = watch[j]
      BY <2>1, <2>2, <2>3, StoreStatusEffect, NewStatusType, PublishStream DEF apiVars
    <2>4. ASSUME NEW requeue \in BOOLEAN, Return(requeue),
                 UNCHANGED apiVars \/ StoreStatus,
                 requeue \/ Settled(k)' \/ k \in queue \/ watch'[k] # <<>>
          PROVE  NeverForgotten'
      BY <2>2, <2>3, <2>4, ReturnKeepsTracked
    <2>5. CASE UpdateNotFound
      <3>1. server' = server /\ watch' = watch
        BY <2>5 DEF UpdateNotFound, apiVars
      <3>2. watch'[k] # <<>> \/ Settled(k)'
        BY <2>2, <2>5, <3>1, QuietCache DEF UpdateNotFound, Latest, Settled
      <3>3. RequeueAfter(worker.mut.op) \in BOOLEAN
        BY DEF RequeueAfter
      <3>. QED  BY <2>4, <2>5, <3>2, <3>3 DEF UpdateNotFound
    <2>6. CASE UpdateStored
      <3>1. RequeueAfter(worker.mut.op) \/ Settled(k)' \/ k \in queue \/ watch'[k] # <<>>
        <4>1. CASE Publish(worker.key, NewStatus)
          BY <2>1, <2>2, <4>1, NewStatusType, PublishStream
        <4>2. CASE NewStatus = server[worker.key] /\ server' = server /\ watch' = watch
          <5>1. server[k] = cache[k]
            BY <2>1, <2>2, <2>6, StoreUpToDate DEF UpdateStored
          <5>2. CASE worker.mut.op = "fail"
            <6>1. cache[k].phase = "Failed"
              BY <2>1, <2>2, <4>2, <5>1, <5>2, NewStatusType
            <6>2. worker.snap.phase = "Analyzing"
              BY <2>1, <5>2 DEF WorkerInv
            <6>. QED  BY <2>1, <2>2, <6>1, <6>2 DEF WorkerInv
          <5>3. CASE worker.mut.op = "resolve"
            BY <2>1, <2>2, <4>2, <5>3, NewStatusType DEF Settled
          <5>. QED  BY <5>2, <5>3 DEF RequeueAfter
        <4>. QED  BY <2>1, <2>6, <4>1, <4>2, StoreStatusEffect DEF UpdateStored
      <3>2. RequeueAfter(worker.mut.op) \in BOOLEAN
        BY DEF RequeueAfter
      <3>. QED  BY <2>4, <2>6, <3>1, <3>2 DEF UpdateStored
    <2>7. CASE UpdateConflict
      <3>1. CASE Return(TRUE)
        BY <2>4, <2>7, <3>1 DEF UpdateConflict
      <3>2. CASE worker' = [worker EXCEPT !.tries = @ + 1] /\ UNCHANGED queueVars
        BY <2>7, <3>2 DEF UpdateConflict, NeverForgotten, Settled, TypeOK, Workers, apiVars, queueVars
      <3>. QED  BY <2>7, <3>1, <3>2 DEF UpdateConflict
    <2>8. CASE UpdateInvalid
      BY <2>4, <2>8 DEF UpdateInvalid
    <2>9. CASE UpdateError
      BY <2>4, <2>9 DEF UpdateError
    <2>. QED  BY <1>7, <2>5, <2>6, <2>7, <2>8, <2>9 DEF UpdateStatus
  <1>8. ASSUME Restart PROVE NeverForgotten'
    BY <1>8, QuietCache DEF Restart, NeverForgotten, Settled, apiVars
  <1>9. CASE UNCHANGED <<server, watch, worker, queue, delayed>>
    BY <1>9 DEF NeverForgotten, Settled
  <1>. QED  BY <1>1, <1>2, <1>3, <1>4, <1>5, <1>6, <1>7, <1>8, <1>9
           DEF Next, WorkerStep, CooldownLapses, apiVars, queueVars, vars

-----------------------------------------------------------------------------
(* What a handler writes follows what it was chosen on.                    *)

\* The worker starts without a handler.
LEMMA HandlerInit == Init => HandlerInv
  BY DEF Init, HandlerInv, IdleWorker

\* Reconcile chooses the handler by the phase it read; the calls choose between
\* the two successors of Analyzing, or the one of Notifying.
LEMMA HandlerStep == TypeOK /\ WorkerInv /\ HandlerInv /\ [Next]_vars => HandlerInv'
  <1> SUFFICES ASSUME TypeOK, WorkerInv, HandlerInv, [Next]_vars PROVE HandlerInv'
    OBVIOUS
  <1>i. worker' = IdleWorker => HandlerInv'
    BY DEF HandlerInv, IdleWorker
  <1>1. ASSUME NEW i \in Incidents, TakeKey(i) PROVE HandlerInv'
    BY <1>1, IdleWorkerType DEF TakeKey, HandlerInv, Workers
  <1>2. ASSUME Reconcile PROVE HandlerInv'
    <2>1. worker.pc = "get" /\ worker.key \in Incidents
      BY <1>2, BusyKey DEF Reconcile
    <2>2. CASE Return(FALSE)
      BY <1>i, <2>2 DEF Return
    <2>3. ASSUME NEW pc \in {"llm", "send", "update"}, NEW op \in Ops \cup {"none"},
                 pc = "update" <=> op \in Ops, Dispatch(pc, op), Exists(Found),
                 pc = "send" => Found.phase = "Notifying",
                 pc = "update" => <<Found.phase, TargetPhase(op)>> \in Lifecycle!Lifecycle
          PROVE  HandlerInv'
      BY <2>1, <2>3, DispatchType DEF HandlerInv, Found, Exists
    <2>4. CASE GetNotFound \/ HandleResolved
      BY <2>2, <2>4 DEF GetNotFound, HandleResolved
    <2> SUFFICES ASSUME Exists(Found),
                        \/ HandlePending \/ HandleAnalyzing \/ HandleAnalyzed
                        \/ HandleNotifying \/ HandleFailed
                 PROVE  HandlerInv'
      BY <1>2, <2>4 DEF Reconcile
    <2>5. CASE HandlePending
      BY <2>3, <2>5 DEF HandlePending, TargetPhase, Lifecycle!Lifecycle, Ops
    <2>6. CASE HandleAnalyzing
      BY <2>3, <2>6 DEF HandleAnalyzing, Ops
    <2>7. CASE HandleAnalyzed
      BY <2>3, <2>7 DEF HandleAnalyzed, TargetPhase, Lifecycle!Lifecycle, Ops
    <2>8. CASE HandleNotifying
      BY <2>3, <2>8 DEF HandleNotifying, Ops
    <2>9. CASE HandleFailed
      BY <2>2, <2>3, <2>9 DEF HandleFailed, TargetPhase, Lifecycle!Lifecycle, Ops
    <2>. QED  BY <2>5, <2>6, <2>7, <2>8, <2>9
  <1>3. ASSUME LLMReturns PROVE HandlerInv'
    <2>1. PICK m \in Mutations : /\ worker' = [worker EXCEPT !.pc = "update", !.mut = m]
                                 /\ m.op \in {"fail", "analyze"}
      <3>1. /\ Mutation("fail").op = "fail"
            /\ \A l \in LLMLevels : [Mutation("analyze") EXCEPT !.level = l].op = "analyze"
        BY DEF Mutation
      <3>. QED  BY <1>3, <3>1, LLMMutations DEF LLMReturns
    <2>2. worker.pc = "llm" /\ Exists(worker.snap) /\ worker.snap.phase = "Analyzing"
      BY <1>3 DEF LLMReturns, HandlerInv, WorkerInv
    <2>3. /\ worker'.pc = "update" /\ worker'.snap = worker.snap
          /\ worker'.mut.op \in {"fail", "analyze"}
      BY <2>1, UpdatingWorker
    <2>. QED  BY <2>2, <2>3 DEF HandlerInv, TargetPhase, Lifecycle!Lifecycle, Exists
  <1>4. ASSUME SendReturns PROVE HandlerInv'
    <2>1. PICK err \in BOOLEAN : SendResult(err)
      BY <1>4 DEF SendReturns
    <2>2. /\ worker'.pc = "update" /\ worker'.snap = worker.snap
          /\ worker'.mut.op = "resolve"
      BY <2>1, UpdatingWorker, SendMutations DEF SendResult
    <2>3. Exists(worker.snap) /\ worker.snap.phase = "Notifying"
      BY <1>4 DEF SendReturns, HandlerInv
    <2>. QED  BY <2>2, <2>3 DEF HandlerInv, TargetPhase, Lifecycle!Lifecycle, Exists
  <1>5. ASSUME UpdateStatus PROVE HandlerInv'
    <2>1. worker' = IdleWorker \/ worker' = [worker EXCEPT !.tries = @ + 1]
      BY <1>5 DEF UpdateStatus, UpdateNotFound, UpdateStored, UpdateConflict, UpdateInvalid,
                  UpdateError, Return
    <2>2. CASE worker' = [worker EXCEPT !.tries = @ + 1]
      BY <2>2 DEF HandlerInv, TypeOK, Workers, Exists
    <2>. QED  BY <1>i, <2>1, <2>2
  <1>6. CASE Restart
    BY <1>i, <1>6 DEF Restart
  <1>7. CASE worker' = worker
    BY <1>7 DEF HandlerInv
  <1>. QED  BY <1>1, <1>2, <1>3, <1>4, <1>5, <1>6, <1>7
           DEF Next, User, CreateIncident, DeleteIncident, EditIncident, DeliverWatch,
               DelayExpires, WorkerStep, CooldownLapses, vars

-----------------------------------------------------------------------------
(* The theorems.                                                           *)

\* The inductive invariant holds in every reachable state.
THEOREM Inductive == Spec => []IndInv
  <1>1. Init => IndInv
    BY TypeInit, StreamInit, StalenessInit, WorkerInit, RetryInit, TrackedInit, HandlerInit
       DEF IndInv
  <1>2. IndInv /\ [Next]_vars => IndInv'
    BY TypeStep, StreamStep, StalenessStep, WorkerStepInv, RetryStep, TrackedStep, HandlerStep
       DEF IndInv
  <1>. QED  BY <1>1, <1>2, PTL DEF Spec

\* No reader of an incident is more than one retry behind what is stored.
THEOREM StalenessBounded == Spec => []BoundedStaleness
  BY Inductive, PTL DEF IndInv

\* The retry count passes its limit by one at most.
THEOREM RetryBounded == Spec => []RetryBound
  BY Inductive, PTL DEF IndInv

\* An incident with work left is always queued, delayed, announced or held.
THEOREM NothingForgotten == Spec => []NeverForgotten
  BY Inductive, PTL DEF IndInv

\* No step undoes a retry or a recorded notification it had not seen.
THEOREM NoUpdateLost == Spec => NoLostUpdate
  <1>1. IndInv /\ [Next]_vars =>
          [\A i \in Incidents :
             Exists(server[i]) /\ server'[i].uid = server[i].uid =>
                /\ server'[i].retry >= server[i].retry
                /\ server[i].notified => server'[i].notified]_vars
    <2> SUFFICES ASSUME IndInv, [Next]_vars, NEW i \in Incidents,
                        Exists(server[i]), server'[i].uid = server[i].uid
                 PROVE  /\ server'[i].retry >= server[i].retry
                        /\ server[i].notified => server'[i].notified
      OBVIOUS
    <2>0. TypeOK /\ StreamInv /\ server[i].retry \in Nat
      BY ObjectRetry DEF IndInv, TypeOK
    <2>1. CASE server'[i] = server[i]
      BY <2>0, <2>1
    <2>2. ASSUME NEW j \in Incidents, User(j) PROVE server'[i] = server[i]
      <3>1. CASE CreateIncident(j)
        BY <2>0, <3>1 DEF CreateIncident, Publish, TypeOK
      <3>2. CASE DeleteIncident(j)
        BY <2>0, <3>2, NewObjectType DEF DeleteIncident, Publish, TypeOK, Absent, Exists
      <3>3. CASE EditIncident(j)
        BY <2>0, <3>3 DEF EditIncident, Publish, TypeOK
      <3>. QED  BY <2>2, <3>1, <3>2, <3>3 DEF User
    <2>3. ASSUME UpdateStatus, StoreStatus
          PROVE  /\ server'[i].retry >= server[i].retry
                 /\ server[i].notified => server'[i].notified
      <3>1. worker.pc = "update" /\ worker.key \in Incidents
        BY <2>0, <2>3, BusyKey DEF UpdateStatus
      <3>2. server[worker.key] = cache[worker.key]
        BY <2>0, <2>3, <3>1, StoreUpToDate
      <3>3. CASE server' = server
        BY <2>1, <3>3
      <3>4. CASE Publish(worker.key, NewStatus)
        <4>1. server'[i] = IF i = worker.key THEN NewStatus ELSE server[i]
          BY <2>0, <3>4 DEF Publish, TypeOK
        <4>2. CASE i = worker.key
          BY <2>0, <3>1, <3>2, <4>1, <4>2, NewStatusType
        <4>3. CASE i # worker.key
          BY <2>1, <4>1, <4>3
        <4>. QED  BY <4>2, <4>3
      <3>. QED  BY <2>0, <2>3, <3>1, <3>3, <3>4, StoreStatusEffect
    <2>4. CASE UpdateStatus /\ UNCHANGED apiVars
      BY <2>1, <2>4 DEF apiVars
    <2>5. CASE server' = server
      BY <2>1, <2>5
    <2>6. CASE UpdateStatus
      BY <2>3, <2>4, <2>6
         DEF UpdateStatus, UpdateNotFound, UpdateStored, UpdateConflict, UpdateInvalid,
             UpdateError
    <2>. QED  BY <2>1, <2>2, <2>5, <2>6
             DEF Next, WorkerStep, Reconcile, LLMReturns, SendReturns, DeliverWatch,
                 DelayExpires, TakeKey, CooldownLapses, Restart, apiVars, vars
  <1>. QED  BY <1>1, Inductive, PTL DEF Spec, NoLostUpdate

=============================================================================
