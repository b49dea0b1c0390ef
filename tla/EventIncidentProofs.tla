-------------------------- MODULE EventIncidentProofs --------------------------
(***************************************************************************)
(* Proofs about EventIncident, for every set of Events, descriptions and   *)
(* names and every bound: no Event that should get an incident is lost.    *)
(***************************************************************************)
EXTENDS EventIncident, TLAPS

USE KeyAssumption, TimeAssumption DEF NoTime, Absent

-----------------------------------------------------------------------------

\* An Event that is wanted has a name for its incident.
LEMMA WantedNamed ==
  ASSUME TypeOK, NEW e \in Events, about[e] \in Mapped
  PROVE  IncidentName[about[e]] \in Names
  BY DEF TypeOK, Names

\* The initial state is well typed.
LEMMA InitType == Init => TypeOK
  <1>. SUFFICES ASSUME Init PROVE TypeOK
    OBVIOUS
  <1>1. event \in [Events -> Stamps \cup {Absent}] /\ seen = event
    BY DEF Init
  <1>2. budget \in Budgets
    BY DEF Init, Budgets
  <1>. QED  BY <1>1, <1>2 DEF Init, TypeOK

\* A fault counted within its bound leaves the budget well typed.
LEMMA BudgetType ==
  ASSUME TypeOK
  PROVE  /\ budget.occurs < MaxOccurrences => [budget EXCEPT !.occurs = @ + 1] \in Budgets
         /\ budget.deletes < MaxDeletes => [budget EXCEPT !.deletes = @ + 1] \in Budgets
         /\ budget.errors < MaxErrors => [budget EXCEPT !.errors = @ + 1] \in Budgets
         /\ budget.crashes < MaxCrashes => [budget EXCEPT !.crashes = @ + 1] \in Budgets
  BY DEF TypeOK, Budgets

\* An Event that occurs, anew or again, keeps the types.
LEMMA OccurType ==
  ASSUME TypeOK, NEW e \in Events, Occur(e)
  PROVE  TypeOK'
  <1>1. event' \in [Events -> Stamps \cup {Absent}]
    BY DEF Occur, TypeOK, Stamps
  <1>2. \A d \in Events \ unseen' : seen'[d] = event'[d]
    BY DEF Occur, TypeOK
  <1>. QED  BY <1>1, <1>2, BudgetType DEF Occur, TypeOK, incVars, queueVars

\* An Event that the API server expires keeps the types.
LEMMA ExpireType ==
  ASSUME TypeOK, NEW e \in Events, Expire(e)
  PROVE  TypeOK'
  <1>1. event' \in [Events -> Stamps \cup {Absent}]
    BY DEF Expire, TypeOK
  <1>2. \A d \in Events \ unseen' : seen'[d] = event'[d]
    BY DEF Expire, TypeOK
  <1>. QED  BY <1>1, <1>2 DEF Expire, TypeOK, incVars, queueVars

\* Time, deletions and the incident informer keep the types.
LEMMA ClusterType ==
  ASSUME TypeOK, \/ Tick \/ UNCHANGED vars
                 \/ \E n \in Names : DeleteIncident(n) \/ DeliverIncident(n)
  PROVE  TypeOK'
  <1>1. CASE Tick
    BY <1>1 DEF Tick, TypeOK, eventVars, incVars, queueVars
  <1>2. CASE \E n \in Names : DeleteIncident(n)
    BY <1>2, BudgetType DEF DeleteIncident, NamedSo, TypeOK, eventVars, queueVars
  <1>3. CASE \E n \in Names : DeliverIncident(n)
    BY <1>3 DEF DeliverIncident, NamedSo, TypeOK, eventVars, queueVars
  <1>4. CASE UNCHANGED vars
    BY <1>4 DEF vars, TypeOK
  <1>. QED  BY <1>1, <1>2, <1>3, <1>4

\* Deliveries, delays and Reconcile up to the Create call keep the types.
LEMMA QueueType ==
  ASSUME TypeOK, NEW e \in Events, DeliverEvent(e) \/ DelayExpires(e) \/ Reconcile(e)
  PROVE  TypeOK'
  <1>1. CASE DeliverEvent(e)
    BY <1>1 DEF DeliverEvent, TypeOK, incVars
  <1>2. CASE DelayExpires(e)
    BY <1>2 DEF DelayExpires, TypeOK, eventVars, incVars
  <1>3. CASE Reconcile(e)
    BY <1>3 DEF Reconcile, Wanted, TypeOK, eventVars, incVars
  <1>. QED  BY <1>1, <1>2, <1>3

\* The return of Create keeps the types.
LEMMA CreateType ==
  ASSUME TypeOK, CreateReturns
  PROVE  TypeOK'
  <1>1. worker \in Events /\ about[worker] \in Mapped /\ NewIncident \in Names
    BY WantedNamed DEF CreateReturns, TypeOK, NewIncident
  <1>2. incident' \subseteq Names
    BY <1>1 DEF CreateReturns, Created, Refused, Failed, TypeOK
  <1>3. worker' = NoKey /\ delayed' \subseteq Events
    BY <1>1 DEF CreateReturns, Created, Refused, Failed, Return, TypeOK
  <1>4. budget' \in Budgets
    BY BudgetType DEF CreateReturns, Created, Refused, Failed, TypeOK
  <1>. QED  BY <1>2, <1>3, <1>4 DEF CreateReturns, TypeOK, eventVars

\* A restart keeps the types.
LEMMA RestartType ==
  ASSUME TypeOK, Restart
  PROVE  TypeOK'
  BY BudgetType DEF Restart, TypeOK, eventVars, incVars

\* Every step keeps the types.
LEMMA NextType == TypeOK /\ [Next]_vars => TypeOK'
  BY OccurType, ExpireType, ClusterType, QueueType, CreateType, RestartType DEF Next

\* The variables keep their types; only Warnings that map to a trigger are worked on.
THEOREM TypeCorrect == Spec => []TypeOK
  BY InitType, NextType, PTL DEF Spec

-----------------------------------------------------------------------------
(* No Event is forgotten.                                                  *)

\* What NoEventForgotten says of one Event.
Pending(e)   == e \in unseen \cup queue \cup delayed \/ worker = e
Accounted(e) == Settled(e) \/ Pending(e)

\* No Event is there at the start.
LEMMA AccountedInit == Init => NoEventForgotten
  BY DEF Init, NoEventForgotten, Settled, Wanted

\* The passing of time and the growth of what is known settle more, never less.
LEMMA SettledKept ==
  ASSUME TypeOK, NEW e \in Events, Settled(e), now \in Nat, now' \in Nat, now <= now',
         UNCHANGED about, event'[e] = event[e],
         incident \cup known \subseteq incident' \cup known', e \in dismissed => e \in dismissed'
  PROVE  Settled(e)'
  <1>1. event[e] \in Nat \cup {NoTime, Absent}
    BY DEF TypeOK, Stamps
  <1>2. Wanted(about[e], event[e])' => Wanted(about[e], event[e])
    BY <1>1 DEF Wanted, OldEvent
  <1>. QED  BY <1>2 DEF Settled

\* An Event that changes is undelivered, so accounted for; the others keep what
\* accounts for them.
LEMMA EventAccounted ==
  ASSUME TypeOK, NEW d \in Events, Occur(d) \/ Expire(d), NEW e \in Events, Accounted(e)
  PROVE  Accounted(e)'
  <1>1. /\ UNCHANGED <<now, about, incident, known, queue, delayed, worker>>
        /\ unseen' = unseen \cup {d}
        /\ \A x \in Events : x # d => event'[x] = event[x] /\ (x \in dismissed => x \in dismissed')
    BY DEF Occur, Expire, TypeOK, incVars, queueVars
  <1>2. CASE e = d \/ Pending(e)
    BY <1>1, <1>2 DEF Accounted, Pending
  <1>3. CASE e # d /\ Settled(e)
    BY <1>1, <1>3, SettledKept DEF Accounted, TypeOK
  <1>. QED  BY <1>2, <1>3 DEF Accounted

\* The events of a name that is deleted, or seen to be deleted, are dismissed.
LEMMA DeletionAccounted ==
  ASSUME TypeOK, NEW n \in Names, DeleteIncident(n) \/ DeliverIncident(n),
         NEW e \in Events, Accounted(e)
  PROVE  Accounted(e)'
  <1>1. UNCHANGED <<now, about, event, seen, unseen, queue, delayed, worker>>
    BY DEF DeleteIncident, DeliverIncident, eventVars, queueVars
  <1>2. CASE Pending(e)
    BY <1>1, <1>2 DEF Accounted, Pending
  <1>3. CASE Settled(e) /\ ~Wanted(about[e], event[e])
    BY <1>1, <1>3 DEF Accounted, Settled, Wanted, OldEvent
  <1>4. CASE e \in dismissed
    BY <1>4 DEF Accounted, Settled, DeleteIncident, DeliverIncident
  <1>5. CASE /\ Wanted(about[e], event[e])
             /\ IncidentName[about[e]] \in incident \cup known
    <2>1. CASE IncidentName[about[e]] = n
      <3>1. e \in NamedSo(n)
        BY <1>5, <2>1 DEF NamedSo, Wanted
      <3>2. e \in dismissed' \/ n \in known'
        BY <3>1 DEF DeleteIncident, DeliverIncident
      <3>. QED  BY <1>1, <2>1, <3>2 DEF Accounted, Settled
    <2>2. CASE IncidentName[about[e]] # n
      <3>1. IncidentName[about[e]] \in incident' \cup known'
        BY <1>5, <2>2 DEF DeleteIncident, DeliverIncident
      <3>. QED  BY <1>1, <3>1 DEF Accounted, Settled
    <2>. QED  BY <2>1, <2>2
  <1>. QED  BY <1>2, <1>3, <1>4, <1>5 DEF Accounted, Settled

\* The worker drops a key only for an Event whose newest version is settled.
LEMMA ReconcileAccounted ==
  ASSUME TypeOK, NEW d \in Events, Reconcile(d), NEW e \in Events, Accounted(e)
  PROVE  Accounted(e)'
  <1>1. /\ UNCHANGED <<now, about, event, seen, unseen, incident, known, delayed, dismissed>>
        /\ queue' = queue \ {d}
        /\ worker = NoKey /\ (worker' = worker \/ worker' = d)
    BY DEF Reconcile, eventVars, incVars
  <1>2. CASE Settled(e)
    BY <1>1, <1>2, SettledKept DEF Accounted, TypeOK
  <1>3. CASE Pending(e) /\ e # d
    BY <1>1, <1>3 DEF Accounted, Pending
  <1>4. CASE e = d /\ (e \in unseen \/ worker' = d)
    BY <1>1, <1>4 DEF Accounted, Pending
  <1>5. CASE e = d /\ e \notin unseen /\ worker' # d
    <2>1. seen[e] = event[e]
      BY <1>5 DEF TypeOK
    <2>2. ~Wanted(about[e], event[e]) \/ Exists(e)
      BY <1>5, <2>1 DEF Reconcile
    <2>3. Settled(e)
      BY <2>2 DEF Settled, Exists
    <2>. QED  BY <1>1, <2>3, SettledKept DEF Accounted, TypeOK
  <1>. QED  BY <1>2, <1>3, <1>4, <1>5 DEF Accounted

\* Create leaves the Event's incident there, made now or found there already, or
\* its failure delays the Event's key.
LEMMA CreateAccounted ==
  ASSUME TypeOK, CreateReturns, NEW e \in Events, Accounted(e)
  PROVE  Accounted(e)'
  <1>1. /\ UNCHANGED <<now, about, event, seen, unseen, known, queue, dismissed>>
        /\ incident \subseteq incident'
        /\ delayed \subseteq delayed'
        /\ worker # NoKey
    BY DEF CreateReturns, Created, Refused, Failed, Return, eventVars
  <1>2. CASE Settled(e)
    BY <1>1, <1>2, SettledKept DEF Accounted, TypeOK
  <1>3. CASE Pending(e) /\ worker # e
    BY <1>1, <1>3 DEF Accounted, Pending
  <1>4. CASE worker = e
    <2>1. e \in delayed' \/ IncidentName[about[e]] \in incident'
      BY <1>1, <1>4 DEF CreateReturns, Created, Refused, Failed, Return, NewIncident
    <2>. QED  BY <1>1, <2>1 DEF Accounted, Settled, Pending
  <1>. QED  BY <1>2, <1>3, <1>4 DEF Accounted, Pending

\* The new informer queues every Event it lists; one it does not list is
\* undelivered, or gone.
LEMMA RestartAccounted ==
  ASSUME TypeOK, Restart, NEW e \in Events, Accounted(e)
  PROVE  Accounted(e)'
  <1>1. /\ UNCHANGED <<now, about, event, seen, unseen, incident, known, dismissed>>
        /\ queue' = {x \in Events : seen[x] # Absent}
    BY DEF Restart, eventVars, incVars
  <1>2. CASE e \in unseen \/ seen[e] # Absent
    BY <1>1, <1>2 DEF Accounted, Pending
  <1>3. CASE e \notin unseen /\ seen[e] = Absent
    <2>1. event[e] = Absent
      BY <1>3 DEF TypeOK
    <2>. QED  BY <1>1, <2>1 DEF Accounted, Settled, Wanted
  <1>. QED  BY <1>2, <1>3

\* Time settles more; a delivery or a delay that expires moves a key from one
\* place that accounts for it to another.
LEMMA OtherAccounted ==
  ASSUME TypeOK, \/ Tick \/ UNCHANGED vars
                 \/ \E d \in Events : DeliverEvent(d) \/ DelayExpires(d),
         NEW e \in Events, Accounted(e)
  PROVE  Accounted(e)'
  <1>1. /\ UNCHANGED <<about, event, incident, known, worker, dismissed>>
        /\ now' \in Nat /\ now <= now'
        /\ unseen \cup queue \cup delayed \subseteq unseen' \cup queue' \cup delayed'
    BY DEF Tick, vars, DeliverEvent, DelayExpires, TypeOK, eventVars, incVars, queueVars
  <1>2. CASE Settled(e)
    BY <1>1, <1>2, SettledKept DEF Accounted, TypeOK
  <1>3. CASE Pending(e)
    BY <1>1, <1>3 DEF Accounted, Pending
  <1>. QED  BY <1>2, <1>3 DEF Accounted

\* Early returns, errors, deletions and restarts lose no Event that is news and
\* should get an incident.
THEOREM NothingForgotten == Spec => []NoEventForgotten
  <1>1. TypeOK /\ NoEventForgotten /\ [Next]_vars => NoEventForgotten'
    <2>. SUFFICES ASSUME TypeOK, NoEventForgotten, [Next]_vars, NEW e \in Events
                  PROVE  Accounted(e)'
      BY DEF NoEventForgotten, Accounted, Pending
    <2>1. Accounted(e)
      BY DEF NoEventForgotten, Accounted, Pending
    <2>. QED  BY <2>1, EventAccounted, DeletionAccounted, ReconcileAccounted,
                 CreateAccounted, RestartAccounted, OtherAccounted DEF Next
  <1>. QED  BY <1>1, AccountedInit, TypeCorrect, PTL DEF Spec

=============================================================================
