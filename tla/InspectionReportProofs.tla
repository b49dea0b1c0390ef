------------------------- MODULE InspectionReportProofs -------------------------
(***************************************************************************)
(* Proofs about InspectionReport, for every cluster, whatever comes and    *)
(* goes during the run, and every limit of the lists.                      *)
(***************************************************************************)
EXTENDS InspectionReport, FiniteSetTheorems, WellFoundedInduction, TLAPS

-----------------------------------------------------------------------------
(* The steps that read lists.                                              *)

\* The names of the steps that read lists.
LEMMA StepNames ==
  Steps = {"nodes", "workloads", "components", "pods", "quotas", "pvcs", "storage",
           "events", "network", "security", "certs", "certRefs", "slices", "endpoints",
           "scaling", "stalePods", "staleClaims", "leftovers"}
BY DEF Steps, ListsOf

\* What a step leaves in past, and which stages may follow it.
Remembers(step) ==
  past' = IF step = "slices" THEN [past EXCEPT !.services = cluster["services"]]
          ELSE IF step = "stalePods" THEN [past EXCEPT !.pvcs = cluster["pvcs"]]
          ELSE past

AfterClaims   == {"leftovers", "analyze", "build", "render", "send", "done"}
AfterServices == AfterClaims \cup {"scaling", "stalePods", "staleClaims"}

Follows(step, next) ==
  /\ next \in Steps \cup {"analyze"}
  /\ next = "staleClaims" => step = "stalePods"
  /\ next = "endpoints" => step = "slices"
  /\ step \in AfterClaims => next \in AfterClaims
  /\ step \in AfterServices => next \in AfterServices
  /\ step = "staleClaims" => next \in AfterClaims
  /\ step = "endpoints" => next \in AfterServices
  /\ step = "stalePods" => next \in AfterServices
  /\ next \in AfterClaims => step \in {"stalePods", "staleClaims", "leftovers"}

\* Every collecting step reads its lists and goes on in order.
LEMMA CollectReads ==
  ASSUME CollectStep
  PROVE  \E step \in Steps, next \in Stages : Read(step, next) /\ Remembers(step) /\ Follows(step, next)
<1> USE DEF Remembers, Follows, AfterClaims, AfterServices, Stages
<1>1. CASE CollectNodes
  <2>1. Read("nodes", "workloads") /\ past' = past
    BY <1>1 DEF CollectNodes, Collect
  <2> QED BY <2>1, StepNames
<1>2. CASE CollectWorkloads
  <2>1. Read("workloads", "components") /\ past' = past
    BY <1>2 DEF CollectWorkloads, Collect
  <2> QED BY <2>1, StepNames
<1>3. CASE CollectComponents
  <2>1. Read("components", "pods") /\ past' = past
    BY <1>3 DEF CollectComponents, Collect
  <2> QED BY <2>1, StepNames
<1>4. CASE CollectPods
  <2>1. Read("pods", "quotas") /\ past' = past
    BY <1>4 DEF CollectPods
  <2> QED BY <2>1, StepNames
<1>5. CASE CollectQuotaRisks
  <2>1. Read("quotas", "pvcs") /\ past' = past
    BY <1>5 DEF CollectQuotaRisks, Collect
  <2> QED BY <2>1, StepNames
<1>6. CASE CollectPVCs
  <2>1. Read("pvcs", "storage") /\ past' = past
    BY <1>6 DEF CollectPVCs, Collect
  <2> QED BY <2>1, StepNames
<1>7. CASE CollectStorage
  <2>1. Read("storage", "events") /\ past' = past
    BY <1>7 DEF CollectStorage, Collect
  <2> QED BY <2>1, StepNames
<1>8. CASE CollectWarningEvents
  <2>1. Read("events", "network") /\ past' = past
    BY <1>8 DEF CollectWarningEvents, Collect
  <2> QED BY <2>1, StepNames
<1>9. CASE CollectNetwork
  <2>1. Read("network", "security") /\ past' = past
    BY <1>9 DEF CollectNetwork, Collect
  <2> QED BY <2>1, StepNames
<1>10. CASE CollectSecurity
  <2>1. Read("security", "certs") /\ past' = past
    BY <1>10 DEF CollectSecurity, Collect
  <2> QED BY <2>1, StepNames
<1>11. CASE CollectSecrets
  <2>1. /\ Read("certs", "slices") \/ Read("certs", "certRefs")
        /\ past' = past
    BY <1>11 DEF CollectSecrets, Collect
  <2> QED BY <2>1, StepNames
<1>12. CASE CollectCertRefs
  <2>1. Read("certRefs", "slices") /\ past' = past
    BY <1>12 DEF CollectCertRefs, Collect
  <2> QED BY <2>1, StepNames
<1>13. CASE CollectSlices
  <2>1. /\ Read("slices", "scaling") \/ Read("slices", "endpoints")
        /\ past' = [past EXCEPT !.services = cluster["services"]]
    BY <1>13 DEF CollectSlices
  <2> QED BY <2>1, StepNames
<1>14. CASE CollectEndpoints
  <2>1. Read("endpoints", "scaling") /\ past' = past
    BY <1>14 DEF CollectEndpoints, Collect
  <2> QED BY <2>1, StepNames
<1>15. CASE CollectScaling
  <2>1. Read("scaling", "stalePods") /\ past' = past
    BY <1>15 DEF CollectScaling, Collect
  <2> QED BY <2>1, StepNames
<1>16. CASE CollectStalePods
  <2>1. /\ Read("stalePods", "leftovers") \/ Read("stalePods", "staleClaims")
        /\ past' = [past EXCEPT !.pvcs = cluster["pvcs"]]
    BY <1>16 DEF CollectStalePods
  <2> QED BY <2>1, StepNames
<1>17. CASE CollectStaleClaims
  <2>1. Read("staleClaims", "leftovers") /\ past' = past
    BY <1>17 DEF CollectStaleClaims, Collect
  <2> QED BY <2>1, StepNames
<1>18. CASE CollectLeftovers
  <2>1. Read("leftovers", "analyze") /\ past' = past
    BY <1>18 DEF CollectLeftovers, Collect
  <2> QED BY <2>1, StepNames
<1> QED
  BY <1>1, <1>2, <1>3, <1>4, <1>5, <1>6, <1>7, <1>8, <1>9, <1>10, <1>11, <1>12, <1>13,
     <1>14, <1>15, <1>16, <1>17, <1>18 DEF CollectStep

-----------------------------------------------------------------------------
(* The report is built from what was seen, and so is the message's level.  *)

RunInv ==
  /\ pc \in Stages
  /\ pc \in Steps \cup {"start", "analyze", "build"} => report = NoReport
  /\ pc # "done" => message = NoMessage
  /\ pc \in {"render", "send"} => report = ReportOf(seen, shown)
  /\ message.level # "none" => report = ReportOf(seen, shown) /\ message.level = Level(seen)

\* It holds at the start of a run.
LEMMA RunInit == Init => RunInv
BY DEF Init, RunInv, Stages, NoReport, NoMessage

\* Every step keeps it: the report is built once, the message made once.
LEMMA RunNext == RunInv /\ [Next]_vars => RunInv'
<1> SUFFICES ASSUME RunInv, [Next]_vars PROVE RunInv'
  OBVIOUS
<1>1. CASE Start
  BY <1>1, StepNames DEF Start, RunInv, Stages, NoMessage, NoReport
<1>2. CASE CollectStep
  <2>1. PICK step \in Steps, next \in Stages : Read(step, next) /\ Follows(step, next)
    BY <1>2, CollectReads
  <2>2. /\ pc = step /\ pc' = next /\ next \in Steps \cup {"analyze"}
        /\ report' = report /\ message' = message
    BY <2>1 DEF Read, Follows
  <2>3. report' = NoReport /\ message' = NoMessage
    BY <2>2, StepNames DEF RunInv
  <2> QED BY <2>2, <2>3, StepNames DEF RunInv, Stages, NoMessage
<1>3. CASE AnalyzePods
  BY <1>3, StepNames DEF AnalyzePods, RunInv, Stages, NoMessage
<1>4. CASE BuildReport
  <2>1. /\ pc' = "render" /\ report' = ReportOf(seen, shown)
        /\ UNCHANGED <<seen, shown, message>> /\ message = NoMessage
    BY <1>4 DEF BuildReport, RunInv
  <2> QED BY <2>1, StepNames DEF RunInv, Stages, NoMessage
<1>5. CASE RenderReport
  BY <1>5, StepNames DEF RenderReport, RunInv, Stages, NoMessage
<1>6. CASE SendReport
  <2>1. /\ pc' = "done" /\ report = ReportOf(seen, shown) /\ message'.level = Level(seen)
        /\ UNCHANGED <<seen, shown, report>>
    BY <1>6 DEF SendReport, RunInv
  <2> QED BY <2>1, StepNames DEF RunInv, Stages
<1>7. CASE ContextEnds
  BY <1>7 DEF ContextEnds, RunInv
<1>8. ASSUME NEW k, NEW objects, Change(k, objects) PROVE RunInv'
  BY <1>8 DEF Change, RunInv
<1>9. CASE UNCHANGED vars
  BY <1>9 DEF vars, RunInv
<1> QED
  BY <1>1, <1>2, <1>3, <1>4, <1>5, <1>6, <1>7, <1>8, <1>9
  DEF Next, RunStep, Appear, Vanish
-----------------------------------------------------------------------------
(* What the lists hold.                                                    *)

ObjectsInv ==
  /\ DOMAIN cluster = Kinds
  /\ \A k \in Kinds : IsFiniteSet(cluster[k]) /\ \A o \in cluster[k] : WellFormed(k, o)
  /\ DOMAIN seen = Lists
  /\ \A l \in Lists : IsFiniteSet(seen[l]) /\ \A o \in seen[l] : WellFormed(KindOf(l), o)

\* Every list is of a kind.
LEMMA KindsOfLists == \A l \in Lists : KindOf(l) \in Kinds
BY DEF Lists, KindOf, Again, Kinds

\* They are well-formed at the start, and nothing is listed yet.
LEMMA ObjectsInit == Init => ObjectsInv
<1> SUFFICES ASSUME Init PROVE ObjectsInv
  OBVIOUS
<1>1. /\ DOMAIN cluster = Kinds
      /\ \A k \in Kinds : IsFiniteSet(cluster[k]) /\ \A o \in cluster[k] : WellFormed(k, o)
  BY ClustersAssumption DEF Init
<1>2. DOMAIN seen = Lists /\ \A l \in Lists : seen[l] = {}
  BY DEF Init
<1> QED BY <1>1, <1>2, FS_EmptySet DEF ObjectsInv

\* The cluster changes by an object that is well-formed, the lists not at all.
LEMMA ObjectsChange ==
  ASSUME ObjectsInv, NEW k \in Kinds, NEW objects, Change(k, objects),
         IsFiniteSet(objects), \A o \in objects : WellFormed(k, o)
  PROVE  ObjectsInv'
<1>1. cluster' = [cluster EXCEPT ![k] = objects] /\ seen' = seen
  BY DEF Change
<1>2. DOMAIN cluster' = Kinds
  BY <1>1 DEF ObjectsInv
<1>3. ASSUME NEW j \in Kinds
      PROVE  IsFiniteSet(cluster'[j]) /\ \A o \in cluster'[j] : WellFormed(j, o)
  <2>1. CASE j = k
    <3>1. cluster'[j] = objects
      BY <1>1, <2>1 DEF ObjectsInv
    <3> QED BY <2>1, <3>1
  <2>2. CASE j # k
    <3>1. cluster'[j] = cluster[j]
      BY <1>1, <2>2 DEF ObjectsInv
    <3> QED BY <3>1 DEF ObjectsInv
  <2> QED BY <2>1, <2>2
<1> QED BY <1>1, <1>2, <1>3 DEF ObjectsInv

\* Every step keeps them so: a list holds what the cluster does.
LEMMA ObjectsNext == ObjectsInv /\ [Next]_vars => ObjectsInv'
<1> SUFFICES ASSUME ObjectsInv, [Next]_vars PROVE ObjectsInv'
  OBVIOUS
<1>1. CASE UNCHANGED <<cluster, seen>>
  BY <1>1 DEF ObjectsInv
<1>2. CASE CollectStep
  <2>1. PICK step \in Steps, next \in Stages : Read(step, next)
    BY <1>2, CollectReads
  <2>2. cluster' = cluster /\ DOMAIN seen' = Lists
    BY <2>1 DEF Read
  <2>3. ASSUME NEW l \in Lists
        PROVE  seen'[l] = seen[l] \/ seen'[l] = cluster[KindOf(l)]
    BY <2>1 DEF Read
  <2>4. ASSUME NEW l \in Lists
        PROVE  IsFiniteSet(seen'[l]) /\ \A o \in seen'[l] : WellFormed(KindOf(l), o)
    BY <2>3, KindsOfLists DEF ObjectsInv
  <2> QED BY <2>2, <2>4 DEF ObjectsInv
<1>3. ASSUME NEW k \in Changing, NEW o \in Newcomers[k], Appear(k, o) PROVE ObjectsInv'
  <2>1. k \in Kinds
    BY ReportAssumption
  <2>2. IsFiniteSet(cluster[k] \cup {o})
    BY <2>1, FS_AddElement DEF ObjectsInv
  <2>3. \A x \in cluster[k] \cup {o} : WellFormed(k, x)
    BY <2>1, NewcomersAssumption DEF ObjectsInv
  <2> QED BY <1>3, <2>1, <2>2, <2>3, ObjectsChange DEF Appear
<1>4. ASSUME NEW k \in Changing, NEW o \in cluster[k], Vanish(k, o) PROVE ObjectsInv'
  <2>1. k \in Kinds
    BY ReportAssumption
  <2>2. IsFiniteSet(cluster[k] \ {o})
    BY <2>1, FS_RemoveElement DEF ObjectsInv
  <2>3. \A x \in cluster[k] \ {o} : WellFormed(k, x)
    BY <2>1 DEF ObjectsInv
  <2> QED BY <1>4, <2>1, <2>2, <2>3, ObjectsChange DEF Vanish
<1> QED
  BY <1>1, <1>2, <1>3, <1>4
  DEF Next, RunStep, Start, AnalyzePods, BuildReport, RenderReport, SendReport, ContextEnds, vars

\* Both invariants hold of every behaviour.
LEMMA ReportsAlways == Spec => [](RunInv /\ ObjectsInv)
BY RunInit, RunNext, ObjectsInit, ObjectsNext, PTL DEF Spec

\* The nodes that are not ready have a number.
LEMMA NotReadyCounts ==
  ASSUME NEW s, IsFiniteSet(s["nodes"])
  PROVE  NotReady(s) \in Nat
<1>1. IsFiniteSet({n \in s["nodes"] : ~n.ready})
  BY FS_Subset
<1> QED BY <1>1, FS_CardinalityType DEF NotReady, Count

\* Whatever the lists held and however they changed between two of them, the
\* level of the message agrees with the report's title and summary.
THEOREM LevelsAlwaysAgree == Spec => []LevelsAgree
<1>1. RunInv /\ ObjectsInv => LevelsAgree
  <2> SUFFICES ASSUME RunInv, ObjectsInv, message.level # "none" PROVE LevelsAgree
    BY DEF LevelsAgree
  <2>1. /\ report.emoji = Emoji(seen) /\ report.allClear = AllClear(seen)
        /\ message.level = Level(seen)
    BY DEF RunInv, ReportOf
  <2>2. NotReady(seen) \in Nat
    <3>1. "nodes" \in Lists
      BY DEF Lists, Kinds
    <3> QED BY <3>1, NotReadyCounts DEF ObjectsInv
  <2>3. Emoji(seen) = "red" <=> Level(seen) = "Critical"
    BY DEF Emoji, Level
  <2>4. Emoji(seen) = "yellow" => Level(seen) = "Warning"
    BY DEF Emoji, Level
  <2>5. Level(seen) = "Success" => AllClear(seen)
    BY <2>2 DEF Level, AllClear
  <2> QED BY <2>1, <2>3, <2>4, <2>5 DEF LevelsAgree
<1> QED BY <1>1, ReportsAlways, PTL

-----------------------------------------------------------------------------
(* Lists that are joined.                                                  *)

\* What a list read later can hold: what was there, and newcomers.
OldOrNew(S, old, k) == S \subseteq old \cup Newcomers[k]

JoinInv ==
  /\ pc = "staleClaims" => OldOrNew(cluster["pvcs"], past.pvcs, "pvcs")
  /\ OldOrNew(seen["stalePVCs"], past.pvcs, "pvcs")
  /\ pc \notin AfterClaims => seen["stalePVCs"] = {}
  /\ pc = "endpoints" => OldOrNew(cluster["services"], past.services, "services")
  /\ OldOrNew(seen["endpointServices"], past.services, "services")
  /\ pc \notin AfterServices => seen["endpointServices"] = {}
  /\ DOMAIN past = {"pvcs", "services"}

\* Nothing is listed at the start.
LEMMA JoinInit == Init => JoinInv
<1> SUFFICES ASSUME Init PROVE JoinInv
  OBVIOUS
<1>1. {"stalePVCs", "endpointServices"} \subseteq Lists
  BY DEF Lists, Again
<1> QED BY <1>1 DEF Init, JoinInv, OldOrNew

\* Only one step reads each of the two lists.
LEMMA ReadOnce ==
  ASSUME NEW step \in Steps, NEW next, Read(step, next)
  PROVE  /\ \/ seen'["stalePVCs"] = seen["stalePVCs"]
            \/ step = "staleClaims" /\ seen'["stalePVCs"] = cluster["pvcs"]
         /\ \/ seen'["endpointServices"] = seen["endpointServices"]
            \/ step = "endpoints" /\ seen'["endpointServices"] = cluster["services"]
<1>1. {"stalePVCs", "endpointServices"} \subseteq Lists
  BY DEF Lists, Again
<1>2. KindOf("stalePVCs") = "pvcs" /\ KindOf("endpointServices") = "services"
  BY DEF KindOf, Again
<1>3. "stalePVCs" \in ListsOf[step] => step = "staleClaims"
  BY StepNames DEF ListsOf, WorkloadLists
<1>4. "endpointServices" \in ListsOf[step] => step = "endpoints"
  BY StepNames DEF ListsOf, WorkloadLists
<1> QED BY <1>1, <1>2, <1>3, <1>4 DEF Read

\* A collecting step keeps the joined lists among the old and the new.
LEMMA JoinCollects ==
  ASSUME JoinInv, CollectStep
  PROVE  JoinInv'
<1>1. PICK step \in Steps, next \in Stages : Read(step, next) /\ Remembers(step) /\ Follows(step, next)
  BY CollectReads
<1>2. pc = step /\ pc' = next /\ cluster' = cluster
  BY <1>1 DEF Read
<1>3. /\ DOMAIN past' = {"pvcs", "services"}
      /\ past'.pvcs = IF step = "stalePods" THEN cluster["pvcs"] ELSE past.pvcs
      /\ past'.services = IF step = "slices" THEN cluster["services"] ELSE past.services
  BY <1>1 DEF Remembers, JoinInv
<1>4. /\ next = "staleClaims" => OldOrNew(cluster["pvcs"], past'.pvcs, "pvcs")
      /\ next = "endpoints" => OldOrNew(cluster["services"], past'.services, "services")
  BY <1>1, <1>3 DEF Follows, OldOrNew
<1>5. OldOrNew(seen'["stalePVCs"], past'.pvcs, "pvcs")
  <2>1. CASE step = "stalePods"
    <3>1. seen'["stalePVCs"] = {}
      BY <1>1, <1>2, <2>1, ReadOnce DEF JoinInv, AfterClaims
    <3> QED BY <3>1 DEF OldOrNew
  <2>2. CASE step # "stalePods"
    BY <1>1, <1>2, <1>3, <2>2, ReadOnce DEF JoinInv
  <2> QED BY <2>1, <2>2
<1>6. next \notin AfterClaims => seen'["stalePVCs"] = {}
  BY <1>1, <1>2, ReadOnce DEF JoinInv, Follows
<1>7. OldOrNew(seen'["endpointServices"], past'.services, "services")
  <2>1. CASE step = "slices"
    <3>1. seen'["endpointServices"] = {}
      BY <1>1, <1>2, <2>1, ReadOnce DEF JoinInv, AfterServices, AfterClaims
    <3> QED BY <3>1 DEF OldOrNew
  <2>2. CASE step # "slices"
    BY <1>1, <1>2, <1>3, <2>2, ReadOnce DEF JoinInv
  <2> QED BY <2>1, <2>2
<1>8. next \notin AfterServices => seen'["endpointServices"] = {}
  BY <1>1, <1>2, ReadOnce DEF JoinInv, Follows
<1> QED BY <1>2, <1>3, <1>4, <1>5, <1>6, <1>7, <1>8 DEF JoinInv

\* So does every other step.
LEMMA JoinNext == ObjectsInv /\ JoinInv /\ [Next]_vars => JoinInv'
<1> SUFFICES ASSUME ObjectsInv, JoinInv, [Next]_vars PROVE JoinInv'
  OBVIOUS
<1>1. CASE CollectStep
  BY <1>1, JoinCollects
<1>2. ASSUME cluster' = cluster, seen' = seen, past' = past,
             \/ pc' = pc
             \/ pc' \in AfterClaims
             \/ pc = "start" /\ pc' = "nodes"
      PROVE  JoinInv'
  BY <1>2 DEF JoinInv, AfterClaims, AfterServices
<1>3. CASE Start
  BY <1>2, <1>3 DEF Start, AfterClaims
<1>4. CASE AnalyzePods \/ BuildReport \/ RenderReport \/ SendReport
  BY <1>2, <1>4 DEF AnalyzePods, BuildReport, RenderReport, SendReport, AfterClaims
<1>5. CASE ContextEnds \/ UNCHANGED vars
  BY <1>2, <1>5 DEF ContextEnds, vars
<1>6. ASSUME NEW k \in Changing, NEW objects, Change(k, objects),
             objects \subseteq cluster[k] \cup Newcomers[k]
      PROVE  JoinInv'
  <2>1. UNCHANGED <<pc, seen, past>> /\ cluster' = [cluster EXCEPT ![k] = objects]
    BY <1>6 DEF Change
  <2>2. ASSUME NEW j \in {"pvcs", "services"}
        PROVE  cluster'[j] \subseteq cluster[j] \cup Newcomers[j]
    <3>1. j \in DOMAIN cluster
      BY DEF ObjectsInv, Kinds
    <3> QED BY <1>6, <2>1, <3>1
  <2>3. pc = "staleClaims" => OldOrNew(cluster'["pvcs"], past.pvcs, "pvcs")
    BY <2>2 DEF JoinInv, OldOrNew
  <2>4. pc = "endpoints" => OldOrNew(cluster'["services"], past.services, "services")
    BY <2>2 DEF JoinInv, OldOrNew
  <2> QED BY <2>1, <2>3, <2>4 DEF JoinInv
<1>7. ASSUME NEW k \in Changing, NEW o \in Newcomers[k], Appear(k, o) PROVE JoinInv'
  BY <1>6, <1>7 DEF Appear
<1>8. ASSUME NEW k \in Changing, NEW o \in cluster[k], Vanish(k, o) PROVE JoinInv'
  BY <1>6, <1>8 DEF Vanish
<1> QED
  BY <1>1, <1>3, <1>4, <1>5, <1>7, <1>8 DEF Next, RunStep

\* Whatever comes and goes between the lists, a claim reported as unused and a
\* Service reported as empty were there when the other list was read.
THEOREM JoinsAlwaysTruthful == Spec => []JoinsTruthful
<1>1. ObjectsInv /\ JoinInv => JoinsTruthful
  <2> SUFFICES ASSUME ObjectsInv, JoinInv PROVE JoinsTruthful
    OBVIOUS
  <2>1. {"stalePVCs", "endpointServices"} \subseteq Lists
        /\ KindOf("stalePVCs") = "pvcs" /\ KindOf("endpointServices") = "services"
    BY DEF Lists, Again, KindOf
  <2>2. {Now, OrphanAge, PendingAge} \subseteq Nat
    BY ReportAssumption, CollectorsAssumption
  <2>3. ASSUME NEW c \in OrphanClaims(seen, Now)
        PROVE  c \in past.pvcs
    <3>1. c \in seen["stalePVCs"] /\ Now - c.created >= OrphanAge
      BY DEF OrphanClaims
    <3>2. c.created \in Nat
      BY <2>1, <3>1 DEF ObjectsInv, WellFormed
    <3>3. c \notin Newcomers["pvcs"]
      <4>1. ~(Now - c.created < OrphanAge)
        BY <2>2, <3>1, <3>2
      <4> QED BY <4>1, NewcomersAssumption
    <3> QED BY <3>1, <3>3 DEF JoinInv, OldOrNew
  <2>4. ASSUME NEW s \in EmptyServices(seen, Now)
        PROVE  s \in past.services
    <3>1. s \in seen["endpointServices"] /\ Now - s.created > PendingAge
      BY DEF EmptyServices
    <3>2. s.created \in Nat
      BY <2>1, <3>1 DEF ObjectsInv, WellFormed
    <3>3. s \notin Newcomers["services"]
      <4>1. ~(Now - s.created <= PendingAge)
        BY <2>2, <3>1, <3>2
      <4> QED BY <4>1, NewcomersAssumption
    <3> QED BY <3>1, <3>3 DEF JoinInv, OldOrNew
  <2> QED BY <2>3, <2>4 DEF JoinsTruthful
<1> QED BY <1>1, ObjectsInit, ObjectsNext, JoinInit, JoinNext, PTL DEF Spec

-----------------------------------------------------------------------------
(* What is urgent.                                                         *)

\* A finite set of numbers has a largest member.
LEMMA LargestExists ==
  ASSUME NEW Q, IsFiniteSet(Q), Q \subseteq Int, Q # {}
  PROVE  \E x \in Q : \A y \in Q : x >= y
<1> DEFINE HasMax(S) == \E x \in S : \A y \in S : x >= y
           Bad == {S \in SUBSET Q : S # {} /\ ~HasMax(S)}
<1> SUFFICES ASSUME Bad # {} PROVE FALSE
  OBVIOUS
<1>1. PICK S \in Bad : \A T \in Bad : ~(<<T, S>> \in StrictSubsetOrdering(Q))
  <2>1. IsWellFoundedOn(StrictSubsetOrdering(Q), FiniteSubsetsOf(Q))
    BY FS_StrictSubsetOrderingWellFounded
  <2>2. Bad \subseteq FiniteSubsetsOf(Q)
    BY FS_Subset DEF FiniteSubsetsOf
  <2> QED BY <2>1, <2>2, WFMin
<1>2. PICK x \in S : TRUE
  BY <1>1
<1>3. S \ {x} \notin Bad
  BY <1>1, <1>2 DEF StrictSubsetOrdering
<1>4. CASE S \ {x} = {}
  <2>1. S = {x}
    BY <1>2, <1>4
  <2>2. x >= x
    BY <1>1, <1>2
  <2> QED BY <1>1, <2>1, <2>2
<1>5. CASE S \ {x} # {}
  <2>1. PICK m \in S \ {x} : \A y \in S \ {x} : m >= y
    BY <1>1, <1>3, <1>5
  <2>2. CASE m >= x
    BY <1>1, <2>1, <2>2
  <2>3. CASE ~(m >= x)
    BY <1>1, <1>2, <2>1, <2>3
  <2> QED BY <2>2, <2>3
<1> QED BY <1>4, <1>5

\* Largest of finitely many numbers is one and bounds them.
LEMMA LargestBounds ==
  ASSUME NEW S, IsFiniteSet(S), S \subseteq Nat
  PROVE  /\ Largest(S) \in Nat /\ Largest(S) \in S \cup {0}
         /\ \A y \in S : Largest(S) >= y
<1> DEFINE Q == S \cup {0}
<1>1. IsFiniteSet(Q) /\ Q \subseteq Int /\ Q # {}
  BY FS_AddElement
<1>2. PICK x \in Q : \A y \in Q : x >= y
  BY <1>1, LargestExists
<1>3. Max(Q) \in Q /\ \A y \in Q : Max(Q) >= y
  BY <1>2 DEF Max
<1>4. Largest(S) = Max(Q)
  BY DEF Largest
<1>5. \A y \in S : y \in Q
  OBVIOUS
<1>6. Q \subseteq Nat
  OBVIOUS
<1>7. Largest(S) \in S \cup {0}
  BY <1>3, <1>4
<1> HIDE DEF Q
<1> QED BY <1>3, <1>4, <1>5, <1>6, <1>7

\* A non-empty set of natural numbers has a smallest.
LEMMA SmallestExists ==
  ASSUME NEW Q, Q \subseteq Nat, Q # {}
  PROVE  Min(Q) \in Q /\ \A y \in Q : Min(Q) <= y
<1> DEFINE R == {p \in Nat \X Nat : p[1] < p[2]}
<1>1. IsWellFoundedOn(R, Nat)
  BY NatLessThanWellFounded DEF OpToRel
<1>2. PICK x \in Q : \A y \in Q : ~(<<y, x>> \in R)
  BY <1>1, WFMin
<1>3. \A y \in Q : ~(y < x)
  BY <1>2
<1>4. \A y \in Q : x <= y
  BY <1>3
<1> QED BY <1>4 DEF Min

\* A list of items holds those whose condition does, and no others.
LEMMA HoldingItem ==
  ASSUME NEW pairs, NEW item, <<item, TRUE>> \in pairs
  PROVE  item \in Holding(pairs)
<1> DEFINE p == <<item, TRUE>>
<1>1. p[1] = item /\ p[2]
  OBVIOUS
<1> HIDE DEF p
<1>2. p \in {q \in pairs : q[2]}
  BY <1>1 DEF p
<1> QED BY <1>1, <1>2 DEF Holding

\* Every item of a list comes from one of its pairs.
LEMMA HoldingOnly ==
  ASSUME NEW pairs, NEW item \in Holding(pairs)
  PROVE  \E p \in pairs : item = p[1]
BY DEF Holding

\* The first item of a list is never cut off.
LEMMA FirstKept ==
  ASSUME NEW n \in Nat \ {0}, NEW S, NEW x \in S, \A y \in S : ~(y.at < x.at)
  PROVE  x \in First(n, S)
<1>1. {y \in S : y.at < x.at} = {}
  OBVIOUS
<1>2. Cardinality({y \in S : y.at < x.at}) = 0
  BY <1>1, FS_EmptySet
<1> QED BY <1>2 DEF First, Cut

\* Items with places of their own among the first m are finitely many.
Placed(S, m) ==
  /\ \A x \in S : x.at \in 1..m
  /\ \A x, y \in S : x.at = y.at => x = y

\* Items that have places of their own are finitely many.
LEMMA PlacedFinite ==
  ASSUME NEW m \in Nat, NEW S, Placed(S, m)
  PROVE  IsFiniteSet(S)
<1> DEFINE f == [x \in S |-> x.at]
<1>1. f \in Injection(S, 1..m)
  BY DEF Placed, Injection, IsInjective
<1>2. IsFiniteSet(1..m)
  BY FS_Interval
<1> QED BY <1>1, <1>2, FS_Injection

\* No more than n items are left of a list that is cut to n.
LEMMA FirstAreFew ==
  ASSUME NEW n \in Nat \ {0}, NEW m \in Nat, NEW S, Placed(S, m)
  PROVE  /\ IsFiniteSet(First(n, S))
         /\ Cardinality(First(n, S)) \in Nat
         /\ Cardinality(First(n, S)) <= n
<1> DEFINE T == First(n, S)
<1>1. T \subseteq S /\ \A x \in T : Cardinality({y \in S : y.at < x.at}) < n
  BY DEF First, Cut
<1> HIDE DEF T
<1>2. IsFiniteSet(S) /\ IsFiniteSet(T)
  BY <1>1, PlacedFinite, FS_Subset
<1>3. CASE T = {}
  BY <1>2, <1>3, FS_EmptySet DEF T
<1>4. CASE T # {}
  <2> DEFINE places == {y.at : y \in T}
  <2>1. places \subseteq 1..m /\ places \subseteq Int /\ places # {}
    BY <1>1, <1>4 DEF Placed
  <2>2. IsFiniteSet(places)
    <3>1. IsFiniteSet(1..m)
      BY FS_Interval
    <3> HIDE DEF places
    <3> QED BY <2>1, <3>1, FS_Subset
  <2>3. PICK p \in places : \A q \in places : p >= q
    <3> HIDE DEF places
    <3> QED BY <2>1, <2>2, LargestExists
  <2>4. PICK x \in T : p = x.at
    BY <2>3
  <2>5. \A y \in T : y.at <= x.at
    BY <2>1, <2>3, <2>4
  <2> DEFINE before == {y \in S : y.at < x.at}
  <2>6. T \ {x} \subseteq before
    <3> SUFFICES ASSUME NEW y \in T, y # x PROVE y.at < x.at
      BY <1>1
    <3>1. y.at \in Int /\ x.at \in Int /\ y.at # x.at
      BY <1>1, <2>4 DEF Placed
    <3> QED BY <2>5, <3>1
  <2>7. /\ IsFiniteSet(before) /\ Cardinality(before) \in Nat /\ Cardinality(before) < n
    BY <1>1, <1>2, <2>4, FS_Subset, FS_CardinalityType
  <2> HIDE DEF before
  <2>8. Cardinality(T \ {x}) <= Cardinality(before)
    BY <2>6, <2>7, FS_Subset
  <2>9. Cardinality(T \ {x}) = Cardinality(T) - 1 /\ Cardinality(T) \in Nat
    BY <1>2, <2>4, FS_RemoveElement, FS_CardinalityType
  <2> QED BY <1>2, <2>7, <2>8, <2>9 DEF T
<1> QED BY <1>3, <1>4

\* Every action has a place of its own, the extras' after the general ones.
LEMMA SuggestedPlaced ==
  ASSUME NEW s, NEW pods
  PROVE  /\ Placed(SuggestedActions(s, pods), 8)
         /\ IsFiniteSet(SuggestedActions(s, pods))
         /\ Cardinality(SuggestedActions(s, pods)) \in Nat
         /\ Cardinality(SuggestedActions(s, pods)) <= GeneralActions
<1> DEFINE pairs ==
      {<<Item(1, "quota"), QuotaRatios(s) # {}>>,
       <<Item(2, "memory"), HighMemory(s) # {}>>,
       <<Item(3, "images"), PullFailures(pods) # {}>>,
       <<Item(4, "cronJobs"), BatchRisk(s)>>,
       <<Item(5, "jobs"), FailedJobs(s) # {}>>,
       <<Item(6, "storage"), StorageRisk(s)>>,
       <<Item(7, "events"), WarningEvents(s, Now) # {}>>,
       <<Item(8, "network"), NetworkRisk(s)>>}
      items == {Item(1, "quota"), Item(2, "memory"), Item(3, "images"), Item(4, "cronJobs"),
                Item(5, "jobs"), Item(6, "storage"), Item(7, "events"), Item(8, "network")}
<1>1. SuggestedActions(s, pods) = First(GeneralActions, Holding(pairs))
  BY DEF SuggestedActions
<1>2. \A p \in pairs : p[1] \in items
  OBVIOUS
<1>3. Placed(items, 8)
  BY DEF Placed, Item
<1> HIDE DEF pairs, items
<1>4. Holding(pairs) \subseteq items
  BY <1>2, HoldingOnly
<1>5. Placed(Holding(pairs), 8)
  BY <1>3, <1>4 DEF Placed
<1>6. First(GeneralActions, Holding(pairs)) \subseteq Holding(pairs)
  BY DEF First, Cut
<1> QED BY <1>1, <1>5, <1>6, FirstAreFew, ReportAssumption DEF Placed

\* The places of the actions about the extras.
LEMMA ExtrasPlaced ==
  ASSUME NEW s
  PROVE  \A x \in ExtrasActions(s) : x.at \in 11..15
<1> DEFINE pairs ==
      {<<Item(11, "certs"), Expired(s, Now) \cup Expiring7(s, Now) # {}>>,
       <<Item(12, "endpoints"), EmptyServices(s, Now) # {}>>,
       <<Item(13, "security"), WithIssue(s, "privileged") \cup WithIssue(s, "root") # {}>>,
       <<Item(14, "stuck"), StuckNamespaces(s) \cup StuckPods(s, Now) # {}>>,
       <<Item(15, "oldJobs"), OldJobs(s, Now) # {}>>}
<1>1. ExtrasActions(s) = Holding(pairs)
  BY DEF ExtrasActions
<1>2. \A p \in pairs : p[1].at \in 11..15
  BY DEF Item
<1> HIDE DEF pairs
<1> QED BY <1>1, <1>2, HoldingOnly

\* A quota that is nearly used up is urgent, and leads both lists.
LEMMA QuotaShown ==
  ASSUME ObjectsInv, NEW q \in seen["quotas"], q.cpu >= 95 \/ q.memory >= 95
  PROVE  /\ \E i \in Focus(seen, shown) : i.name = "quota" /\ i.urgent
         /\ \E a \in Actions(seen, shown) : a.name = "quota"
<1>1. /\ IsFiniteSet(seen["quotas"])
      /\ \A x \in seen["quotas"] : x.cpu \in Nat /\ x.memory \in Nat
  <2>1. "quotas" \in Lists /\ KindOf("quotas") = "quotas"
    BY DEF Lists, Kinds, KindOf, Again
  <2> QED BY <2>1 DEF ObjectsInv, WellFormed
<1>2. PICK r \in QuotaRatios(seen) : r >= 95
  <2>1. PICK r \in {q.cpu, q.memory} : r >= 95 /\ r \in Nat
    BY <1>1
  <2>2. r >= 90
    BY <2>1
  <2>3. r \in UNION {{x.cpu, x.memory} : x \in seen["quotas"]}
    BY <2>1
  <2> QED BY <2>1, <2>2, <2>3 DEF QuotaRatios
<1>3. IsFiniteSet(QuotaRatios(seen)) /\ QuotaRatios(seen) \subseteq Nat
  <2> DEFINE pairs == {{x.cpu, x.memory} : x \in seen["quotas"]}
  <2>1. IsFiniteSet(pairs)
    <3> DEFINE f == [x \in seen["quotas"] |-> {x.cpu, x.memory}]
    <3>1. f \in Surjection(seen["quotas"], pairs)
      BY DEF Surjection
    <3> QED BY <1>1, <3>1, FS_Surjection
  <2>2. \A p \in pairs : IsFiniteSet(p)
    <3>1. \A x, y : IsFiniteSet({x, y})
      <4> SUFFICES ASSUME NEW x, NEW y PROVE IsFiniteSet({x, y})
        OBVIOUS
      <4>1. {x, y} = {x} \cup {y} /\ IsFiniteSet({x})
        BY FS_Singleton
      <4> QED BY <4>1, FS_AddElement
    <3> QED BY <3>1
  <2>3. IsFiniteSet(UNION pairs)
    BY <2>1, <2>2, FS_UNION
  <2>4. QuotaRatios(seen) \subseteq UNION pairs /\ UNION pairs \subseteq Nat
    BY <1>1 DEF QuotaRatios
  <2> QED BY <2>3, <2>4, FS_Subset
<1>4. Largest(QuotaRatios(seen)) >= 95
  <2>1. Largest(QuotaRatios(seen)) \in Nat /\ Largest(QuotaRatios(seen)) >= r
    BY <1>3, LargestBounds
  <2>2. r \in Nat
    BY <1>3
  <2> QED BY <1>2, <2>1, <2>2
<1>5. (QuotaRatios(seen) # {}) = TRUE
  BY <1>2
<1>6. QuotaItem(seen).at = 1 /\ QuotaItem(seen).name = "quota" /\ QuotaItem(seen).urgent
  BY <1>4 DEF QuotaItem, Item
<1>7. QuotaItem(seen) \in GeneralFocus(seen, shown)
  <2> DEFINE pairs ==
        {<<QuotaItem(seen), QuotaRatios(seen) # {}>>,
         <<Item(2, "memory"), HighMemory(seen) # {}>>,
         <<Item(3, "images"), PullFailures(shown) # {}>>,
         <<Item(4, "batch"), BatchRisk(seen) \/ FailedJobs(seen) # {}>>,
         <<Item(5, "storage"), StorageRisk(seen)>>,
         <<Item(6, "events"), WarningEvents(seen, Now) # {}>>,
         <<Item(7, "network"), NetworkRisk(seen)>>}
  <2>1. <<QuotaItem(seen), TRUE>> \in pairs
    BY <1>5
  <2>2. \A p \in pairs : ~(p[1].at < 1)
    BY <1>6 DEF Item
  <2>3. GeneralFocus(seen, shown) = First(FocusLimit, Holding(pairs))
    BY DEF GeneralFocus
  <2> HIDE DEF pairs
  <2>4. QuotaItem(seen) \in Holding(pairs)
    BY <2>1, HoldingItem
  <2>5. \A y \in Holding(pairs) : ~(y.at < QuotaItem(seen).at)
    BY <1>6, <2>2, HoldingOnly
  <2> QED BY <2>3, <2>4, <2>5, FirstKept, ReportAssumption
<1>8. Item(1, "quota") \in SuggestedActions(seen, shown)
  <2> DEFINE pairs ==
        {<<Item(1, "quota"), QuotaRatios(seen) # {}>>,
         <<Item(2, "memory"), HighMemory(seen) # {}>>,
         <<Item(3, "images"), PullFailures(shown) # {}>>,
         <<Item(4, "cronJobs"), BatchRisk(seen)>>,
         <<Item(5, "jobs"), FailedJobs(seen) # {}>>,
         <<Item(6, "storage"), StorageRisk(seen)>>,
         <<Item(7, "events"), WarningEvents(seen, Now) # {}>>,
         <<Item(8, "network"), NetworkRisk(seen)>>}
  <2>1. <<Item(1, "quota"), TRUE>> \in pairs
    BY <1>5
  <2>2. \A p \in pairs : ~(p[1].at < 1)
    BY DEF Item
  <2>3. SuggestedActions(seen, shown) = First(GeneralActions, Holding(pairs))
    BY DEF SuggestedActions
  <2> HIDE DEF pairs
  <2>4. Item(1, "quota") \in Holding(pairs)
    BY <2>1, HoldingItem
  <2>5. \A y \in Holding(pairs) : ~(y.at < Item(1, "quota").at)
    <3>1. Item(1, "quota").at = 1
      BY DEF Item
    <3> QED BY <2>2, <3>1, HoldingOnly
  <2> QED BY <2>3, <2>4, <2>5, FirstKept, ReportAssumption
<1>9. Item(1, "quota") \in Actions(seen, shown)
  <2>1. \A y \in SuggestedActions(seen, shown) : y.at \in 1..8
    BY SuggestedPlaced DEF Placed
  <2>2. \A y \in ExtrasActions(seen) : y.at \in 11..15
    BY ExtrasPlaced
  <2>3. Item(1, "quota").at = 1 /\ Item(1, "quota").name = "quota"
    BY DEF Item
  <2>4. \A y \in SuggestedActions(seen, shown) \cup ExtrasActions(seen) :
          ~(y.at < Item(1, "quota").at)
    BY <2>1, <2>2, <2>3
  <2> HIDE DEF Item
  <2> QED BY <1>8, <2>4, FirstKept, ReportAssumption DEF Actions
<1>10. Item(1, "quota").name = "quota"
  BY DEF Item
<1> QED BY <1>6, <1>7, <1>9, <1>10 DEF Focus

\* An expired certificate is urgent, and no general action cuts its own off.
LEMMA CertsShown ==
  ASSUME ObjectsInv, NEW s \in seen["secrets"], s.tls, NEW t \in s.chain, t < Now
  PROVE  /\ \E i \in Focus(seen, shown) : i.name = "certs" /\ i.urgent
         /\ \E a \in Actions(seen, shown) : a.name = "certs"
<1>1. s.chain \subseteq Nat
  <2>1. "secrets" \in Lists /\ KindOf("secrets") = "secrets"
    BY DEF Lists, Kinds, KindOf, Again
  <2> QED BY <2>1 DEF ObjectsInv, WellFormed
<1>2. s \in Expired(seen, Now)
  <2>1. /\ EarliestNotAfter(s) \in Nat
        /\ EarliestNotAfter(s) <= t
    BY <1>1, SmallestExists DEF EarliestNotAfter
  <2>2. t \in Nat /\ Now \in Nat
    BY <1>1, ReportAssumption
  <2>3. EarliestNotAfter(s) # NoTime /\ EarliestNotAfter(s) < Now
    BY <2>1, <2>2 DEF NoTime
  <2>4. s \in TLSSecrets(seen)
    BY DEF TLSSecrets
  <2> QED BY <2>3, <2>4 DEF Expired, Readable
<1>3. CertItem(seen).name = "certs" /\ CertItem(seen).urgent
  <2>1. Expired(seen, Now) # {}
    BY <1>2
  <2> HIDE DEF Expired
  <2> QED BY <2>1 DEF CertItem, Item
<1>4. CertItem(seen) \in ExtrasFocus(seen)
  <2> DEFINE pairs ==
        {<<CertItem(seen), Expired(seen, Now) \cup Expiring30(seen, Now) \cup Expiring7(seen, Now) # {}>>,
         <<Item(12, "endpoints"), EmptyServices(seen, Now) # {}>>,
         <<Item(13, "privileged"), WithIssue(seen, "privileged") # {}>>,
         <<Item(14, "stuckNamespaces"), StuckNamespaces(seen) # {}>>,
         <<Item(15, "stuckPods"), StuckPods(seen, Now) # {}>>,
         <<Item(16, "hpas"), HPARisks(seen) # {}>>,
         <<Item(17, "orphans"), OrphanClaims(seen, Now) # {}>>}
  <2>1. (Expired(seen, Now) \cup Expiring30(seen, Now) \cup Expiring7(seen, Now) # {}) = TRUE
    BY <1>2
  <2>2. <<CertItem(seen), TRUE>> \in pairs
    BY <2>1
  <2>3. ExtrasFocus(seen) = Holding(pairs)
    BY DEF ExtrasFocus
  <2> HIDE DEF pairs
  <2> QED BY <2>2, <2>3, HoldingItem
<1>5. Item(11, "certs") \in ExtrasActions(seen)
  <2> DEFINE pairs ==
        {<<Item(11, "certs"), Expired(seen, Now) \cup Expiring7(seen, Now) # {}>>,
         <<Item(12, "endpoints"), EmptyServices(seen, Now) # {}>>,
         <<Item(13, "security"), WithIssue(seen, "privileged") \cup WithIssue(seen, "root") # {}>>,
         <<Item(14, "stuck"), StuckNamespaces(seen) \cup StuckPods(seen, Now) # {}>>,
         <<Item(15, "oldJobs"), OldJobs(seen, Now) # {}>>}
  <2>1. (Expired(seen, Now) \cup Expiring7(seen, Now) # {}) = TRUE
    BY <1>2
  <2>2. <<Item(11, "certs"), TRUE>> \in pairs
    BY <2>1
  <2>3. ExtrasActions(seen) = Holding(pairs)
    BY DEF ExtrasActions
  <2> HIDE DEF pairs
  <2>4. Item(11, "certs") \in Holding(pairs)
    BY <2>2, HoldingItem
  <2> QED BY <2>3, <2>4
<1>6. Item(11, "certs") \in Actions(seen, shown)
  <2> DEFINE general == SuggestedActions(seen, shown)
             all     == general \cup ExtrasActions(seen)
             before  == {y \in all : y.at < Item(11, "certs").at}
  <2>1. Item(11, "certs").at = 11
    BY DEF Item
  <2>2. /\ IsFiniteSet(general) /\ Cardinality(general) \in Nat
        /\ Cardinality(general) <= GeneralActions
    BY SuggestedPlaced
  <2>3. \A y \in ExtrasActions(seen) : ~(y.at < 11)
    BY ExtrasPlaced
  <2>4. before \subseteq general
    BY <2>1, <2>3
  <2>5. Item(11, "certs") \in all
    BY <1>5
  <2>6. Actions(seen, shown) = {x \in all : Cardinality({y \in all : y.at < x.at}) < ActionLimit}
    BY DEF Actions, First, Cut
  <2>7. Cardinality(before) < ActionLimit
    <3> HIDE DEF general, before
    <3>1. Cardinality(before) <= Cardinality(general) /\ Cardinality(before) \in Nat
      BY <2>2, <2>4, FS_Subset, FS_CardinalityType
    <3> QED BY <2>2, <3>1, ReportAssumption
  <2> HIDE DEF general, all
  <2> QED BY <2>5, <2>6, <2>7
<1>7. Item(11, "certs").name = "certs"
  BY DEF Item
<1> QED BY <1>3, <1>4, <1>6, <1>7 DEF Focus

\* However much else was found, no cut hides a full quota or an expired
\* certificate, whatever the limits of the lists.
THEOREM UrgentAlwaysShown == Spec => []UrgentShown
<1>1. RunInv /\ ObjectsInv => UrgentShown
  <2> SUFFICES ASSUME RunInv, ObjectsInv, Finished PROVE UrgentShown
    BY DEF UrgentShown
  <2>1. /\ report.focus = Focus(seen, shown)
        /\ Focus(seen, shown) # {} => report.actions = Actions(seen, shown)
    BY DEF RunInv, Finished, ReportOf
  <2>2. ASSUME NEW q \in seen["quotas"], q.cpu >= 95 \/ q.memory >= 95
        PROVE  /\ \E i \in report.focus : i.name = "quota" /\ i.urgent
               /\ \E a \in report.actions : a.name = "quota"
    BY <2>1, <2>2, QuotaShown
  <2>3. ASSUME NEW s \in seen["secrets"], s.tls, NEW t \in s.chain, t < Now
        PROVE  /\ \E i \in report.focus : i.name = "certs" /\ i.urgent
               /\ \E a \in report.actions : a.name = "certs"
    BY <2>1, <2>3, CertsShown
  <2> QED BY <2>2, <2>3 DEF UrgentShown
<1> QED BY <1>1, ReportsAlways, PTL

-----------------------------------------------------------------------------
(* Types, and the range of every score.                                    *)

\* Scores are numbers.
LEMMA ScoresAreInts == Scores \subseteq Int
BY DEF Scores, Full

\* What is clamped is a score.
LEMMA ClampInRange == \A v \in Int : Clamp100(v) \in Scores
BY DEF Clamp100, Scores, Full

\* A difference cut at zero is a natural number.
LEMMA MonusInRange == \A a, b \in Int : Monus(a, b) \in Nat
BY DEF Monus

\* A share is a score, whatever it is a share of.
LEMMA ShareInRange == \A part \in Int, whole \in Nat \ {0} : Share(part, whole) \in Scores
<1> SUFFICES ASSUME NEW part \in Int, NEW whole \in Nat \ {0} PROVE Share(part, whole) \in Scores
  OBVIOUS
<1>1. Full * part \in Int
  BY DEF Full
<1>2. (Full * part) \div whole \in Int
  <2> DEFINE p == Full * part
  <2> HIDE DEF p
  <2> QED BY <1>1 DEF p
<1> QED BY <1>2, ClampInRange DEF Share

\* The score for healthy objects is a score, also of none.
LEMMA HealthyInRange == \A total, bad \in Nat : ScoreHealthy(total, bad) \in Scores
<1> SUFFICES ASSUME NEW total \in Nat, NEW bad \in Nat PROVE ScoreHealthy(total, bad) \in Scores
  OBVIOUS
<1>1. CASE total = 0
  BY <1>1 DEF ScoreHealthy, Scores, Full
<1>2. CASE total # 0
  BY <1>2, MonusInRange, ShareInRange DEF ScoreHealthy
<1> QED BY <1>1, <1>2

\* So is the score for claims and volumes.
LEMMA StorageInRange ==
  \A total, bound, lost, pending, failed \in Nat :
    ScoreStorage(total, bound, lost, pending, failed) \in Scores
<1> SUFFICES ASSUME NEW total \in Nat, NEW bound \in Nat, NEW lost \in Nat, NEW pending \in Nat,
                    NEW failed \in Nat
             PROVE  ScoreStorage(total, bound, lost, pending, failed) \in Scores
  OBVIOUS
<1>1. CASE total = 0
  BY <1>1 DEF ScoreStorage, Scores, Full
<1>2. CASE total # 0
  <2>1. Share(bound, total) \in Int
    <3>1. total \in Nat \ {0} /\ bound \in Int
      BY <1>2
    <3> QED BY <3>1, ShareInRange, ScoresAreInts
  <2>2. Share(bound, total) - 1500 * lost - 500 * pending - 2000 * failed \in Int
    BY <2>1
  <2> QED BY <1>2, <2>2, ClampInRange DEF ScoreStorage
<1> QED BY <1>1, <1>2

\* Every score lies between zero and one hundred, whatever is counted.
LEMMA PenaltiesInRange ==
  /\ \A a, b \in Nat : ScoreNodeStatus(a, b) \in Scores
  /\ \A a, b, c \in Nat : ScoreNodeResource(a, b, c) \in Scores
  /\ \A a \in Nat : ScoreWarningEvents(a) \in Scores
  /\ \A a, b \in Nat : ScoreNetwork(a, b) \in Scores
  /\ \A a, b, c, d, e, f \in Nat : ScoreSecurity(a, b, c, d, e, f) \in Scores
  /\ \A a, b, c, d, e \in Nat : ScoreCerts(a, b, c, d, e) \in Scores
<1>1. ASSUME NEW a \in Nat, NEW b \in Nat PROVE ScoreNodeStatus(a, b) \in Scores
  <2>1. Full - 3000 * a - 1000 * b \in Int
    BY DEF Full
  <2> QED BY <2>1, ClampInRange DEF ScoreNodeStatus
<1>2. ASSUME NEW a \in Nat, NEW b \in Nat, NEW c \in Nat PROVE ScoreNodeResource(a, b, c) \in Scores
  <2>1. Monus(a, 70) \in Int /\ Monus(b, 80) \in Int
    BY MonusInRange
  <2>2. Full - 80 * Monus(a, 70) - 30 * Monus(b, 80) - 300 * c \in Int
    BY <2>1 DEF Full
  <2> QED BY <2>2, ClampInRange DEF ScoreNodeResource
<1>3. ASSUME NEW a \in Nat PROVE ScoreWarningEvents(a) \in Scores
  <2>1. (Full - IF 50 * a > 6000 THEN 6000 ELSE 50 * a) \in Int
    BY DEF Full
  <2> QED BY <2>1, ClampInRange DEF ScoreWarningEvents
<1>4. ASSUME NEW a \in Nat, NEW b \in Nat PROVE ScoreNetwork(a, b) \in Scores
  <2>1. Full - 2000 * a - 2000 * b \in Int
    BY DEF Full
  <2> QED BY <2>1, ClampInRange DEF ScoreNetwork
<1>5. ASSUME NEW a \in Nat, NEW b \in Nat, NEW c \in Nat, NEW d \in Nat, NEW e \in Nat, NEW f \in Nat
      PROVE  ScoreSecurity(a, b, c, d, e, f) \in Scores
  <2>1. Full - 800 * a - 400 * b - 200 * c - 200 * d - 50 * e - 20 * f \in Int
    BY DEF Full
  <2> QED BY <2>1, ClampInRange DEF ScoreSecurity
<1>6. ASSUME NEW a \in Nat, NEW b \in Nat, NEW c \in Nat, NEW d \in Nat, NEW e \in Nat
      PROVE  ScoreCerts(a, b, c, d, e) \in Scores
  <2>1. Full - 4000 * b - 2500 * c - 800 * d - 500 * e \in Int
    BY DEF Full
  <2>2. Full \in Scores
    BY DEF Full, Scores
  <2> QED BY <2>1, <2>2, ClampInRange DEF ScoreCerts
<1> QED BY <1>1, <1>2, <1>3, <1>4, <1>5, <1>6

\* The parts of a finite set have a size.
LEMMA PartsCount ==
  ASSUME NEW S, IsFiniteSet(S)
  PROVE  \A T : T \subseteq S => IsFiniteSet(T) /\ Cardinality(T) \in Nat
BY FS_Subset, FS_CardinalityType

\* Every score of the report is one, whatever the lists hold.
LEMMA ScoresTyped ==
  ASSUME NEW s,
         \A l \in Lists : IsFiniteSet(s[l]) /\ \A o \in s[l] : WellFormed(KindOf(l), o)
  PROVE  ReportScores(s, Now) \in [ScoreNames -> Scores]
<1>1. \A l \in Lists : IsFiniteSet(s[l])
  OBVIOUS
<1>2. \A l \in Lists : \A T : T \subseteq s[l] => IsFiniteSet(T) /\ Cardinality(T) \in Nat
  BY <1>1, PartsCount
<1>3. Kinds \subseteq Lists /\ DOMAIN Again \subseteq Lists
  BY DEF Lists
<1>4. {"nodes", "pods", "pvcs", "pvs", "events", "services", "ingresses", "secrets",
       "deployments", "statefulSets", "daemonSets"} \subseteq Lists
  BY <1>3 DEF Kinds
<1>5. {"securityPods", "tlsIngresses"} \subseteq Lists
  BY <1>3 DEF Again
<1>6. \A n \in s["nodes"] : n.mem \in Nat /\ n.cpu \in Nat
  <2>1. KindOf("nodes") = "nodes"
    BY DEF KindOf, Again
  <2> QED BY <1>4, <2>1 DEF WellFormed
<1>7. NodeStatusScore(s) \in Scores
  <2>1. NotReady(s) \in Nat /\ UnderPressure(s) \in Nat
    BY <1>2, <1>4 DEF NotReady, UnderPressure, Count
  <2> QED BY <2>1, PenaltiesInRange DEF NodeStatusScore
<1>8. NodeResourceScore(s) \in Scores
  <2>1. Largest({n.mem : n \in s["nodes"]}) \in Nat
    <3> DEFINE f == [n \in s["nodes"] |-> n.mem]
               T == {n.mem : n \in s["nodes"]}
    <3>1. f \in Surjection(s["nodes"], T)
      BY DEF Surjection
    <3>2. IsFiniteSet(T)
      BY <1>1, <1>4, <3>1, FS_Surjection
    <3>3. T \subseteq Nat
      BY <1>6
    <3> QED BY <3>2, <3>3, LargestBounds
  <2>2. Largest({n.cpu : n \in s["nodes"]}) \in Nat
    <3> DEFINE f == [n \in s["nodes"] |-> n.cpu]
               T == {n.cpu : n \in s["nodes"]}
    <3>1. f \in Surjection(s["nodes"], T)
      BY DEF Surjection
    <3>2. IsFiniteSet(T)
      BY <1>1, <1>4, <3>1, FS_Surjection
    <3>3. T \subseteq Nat
      BY <1>6
    <3> QED BY <3>2, <3>3, LargestBounds
  <2>3. Count(s["nodes"], LAMBDA n : n.mem >= 85) \in Nat
    BY <1>2, <1>4 DEF Count
  <2> QED BY <2>1, <2>2, <2>3, PenaltiesInRange DEF NodeResourceScore
<1>9. PodScore(s) \in Scores
  <2>1. Cardinality(s["pods"]) \in Nat /\ Cardinality(AbnormalPods(s)) \in Nat
    BY <1>2, <1>4 DEF AbnormalPods
  <2> QED BY <2>1, HealthyInRange DEF PodScore
<1>10. \A l \in {"deployments", "statefulSets"} : WorkloadScore(s, l) \in Scores
  <2> DEFINE all == s["deployments"] \cup (s["statefulSets"] \cup s["daemonSets"])
  <2>1. IsFiniteSet(all)
    BY <1>1, <1>4, FS_Union
  <2>2. AllUnready(s) \subseteq all
    BY DEF AllUnready, WorkloadLists
  <2>3. Unhealthy(s) \subseteq AllUnready(s)
    BY DEF Unhealthy, Cut
  <2> HIDE DEF all
  <2>4. \A l : Count(Unhealthy(s), LAMBDA w : w.kind = l) \in Nat
    BY <2>1, <2>2, <2>3, PartsCount DEF Count
  <2>5. \A l \in {"deployments", "statefulSets"} : Cardinality(s[l]) \in Nat
    BY <1>2, <1>4
  <2> QED BY <2>4, <2>5, HealthyInRange DEF WorkloadScore
<1>11. StorageScore(s) \in Scores
  <2>1. \A p : InPhase(s["pvcs"], p) \in Nat /\ InPhase(s["pvs"], p) \in Nat
    BY <1>2, <1>4 DEF InPhase, Count
  <2>2. Cardinality(s["pvcs"]) \in Nat
    BY <1>2, <1>4
  <2> QED BY <2>1, <2>2, StorageInRange DEF StorageScore, LostClaims, PendingClaims, FailedVolumes
<1>12. ScoreWarningEvents(Cardinality(WarningEvents(s, Now))) \in Scores
  <2>1. Cardinality(WarningEvents(s, Now)) \in Nat
    BY <1>2, <1>4 DEF WarningEvents
  <2> QED BY <2>1, PenaltiesInRange
<1>13. ScoreNetwork(Cardinality(PendingServices(s, Now)), Cardinality(PendingIngresses(s, Now)))
         \in Scores
  <2>1. Cardinality(PendingServices(s, Now)) \in Nat /\ Cardinality(PendingIngresses(s, Now)) \in Nat
    BY <1>2, <1>4 DEF PendingServices, PendingIngresses
  <2> QED BY <2>1, PenaltiesInRange
<1>14. SecurityScore(s) \in Scores
  <2>1. \A i : Cardinality(WithIssue(s, i)) \in Nat
    <3>1. \A i : WithIssue(s, i) \subseteq s["securityPods"]
      BY DEF WithIssue, LivePods
    <3> QED BY <1>2, <1>5, <3>1
  <2>2. Cardinality(WithIssue(s, "hostNetwork")) + Cardinality(WithIssue(s, "hostPID"))
          + Cardinality(WithIssue(s, "hostIPC")) \in Nat
    BY <2>1
  <2> HIDE DEF WithIssue
  <2> QED BY <2>1, <2>2, PenaltiesInRange DEF SecurityScore
<1>15. CertScore(s, Now) \in Scores
  <2>1. /\ TLSSecrets(s) \subseteq s["secrets"]
        /\ Expired(s, Now) \subseteq s["secrets"]
        /\ Expiring7(s, Now) \subseteq s["secrets"]
        /\ Expiring30(s, Now) \subseteq s["secrets"]
    BY DEF TLSSecrets, Readable, Expired, Expiring7, Expiring30, ExpiringWithin
  <2>2. MissingSecrets(s) \subseteq s["tlsIngresses"]
    BY DEF MissingSecrets, Cut
  <2>3. /\ Cardinality(TLSSecrets(s)) \in Nat /\ Cardinality(Expired(s, Now)) \in Nat
        /\ Cardinality(Expiring7(s, Now)) \in Nat /\ Cardinality(Expiring30(s, Now)) \in Nat
        /\ Cardinality(MissingSecrets(s)) \in Nat
    BY <1>2, <1>4, <1>5, <2>1, <2>2
  <2> QED BY <2>3, PenaltiesInRange DEF CertScore
<1> QED
  BY <1>7, <1>8, <1>9, <1>10, <1>11, <1>12, <1>13, <1>14, <1>15 DEF ReportScores, ScoreNames

\* ScoreOverall of ten numbers.
Weighted(a, b, c, d, e, f, g, h, i, j) ==
  Clamp100((16 * a + 16 * b + 16 * c + 16 * d + 8 * e + 8 * f + 8 * g
            + 4 * h + 4 * i + 4 * j) \div 100)

\* The weighted mean of ten scores is a score.
LEMMA WeightedInRange ==
  ASSUME NEW a \in Int, NEW b \in Int, NEW c \in Int, NEW d \in Int, NEW e \in Int,
         NEW f \in Int, NEW g \in Int, NEW h \in Int, NEW i \in Int, NEW j \in Int
  PROVE  Weighted(a, b, c, d, e, f, g, h, i, j) \in Scores
<1> DEFINE sum == 16 * a + 16 * b + 16 * c + 16 * d + 8 * e + 8 * f + 8 * g + 4 * h + 4 * i + 4 * j
<1>1. sum \in Int
  OBVIOUS
<1>2. Weighted(a, b, c, d, e, f, g, h, i, j) = Clamp100(sum \div 100)
  BY DEF Weighted
<1> HIDE DEF sum
<1>3. sum \div 100 \in Int
  BY <1>1
<1> QED BY <1>2, <1>3, ClampInRange

\* So is the overall score.
LEMMA OverallInRange ==
  ASSUME NEW r \in [ScoreNames -> Scores]
  PROVE  ScoreOverall(r) \in Scores
<1>1. \A n \in ScoreNames : r[n] \in Int
  BY ScoresAreInts
<1>2. /\ "nodeStatus" \in ScoreNames /\ "nodeResource" \in ScoreNames /\ "pods" \in ScoreNames
      /\ "deployments" \in ScoreNames /\ "statefulSets" \in ScoreNames /\ "storage" \in ScoreNames
      /\ "security" \in ScoreNames /\ "events" \in ScoreNames /\ "network" \in ScoreNames
      /\ "certs" \in ScoreNames
  BY DEF ScoreNames
<1>3. /\ r.nodeStatus \in Int /\ r.nodeResource \in Int /\ r.pods \in Int
      /\ r.deployments \in Int /\ r.statefulSets \in Int /\ r.storage \in Int
      /\ r.security \in Int /\ r.events \in Int /\ r.network \in Int /\ r.certs \in Int
  BY <1>1, <1>2, Zenon
<1>4. ScoreOverall(r) = Weighted(r.nodeStatus, r.nodeResource, r.pods, r.deployments, r.statefulSets,
                                 r.storage, r.security, r.events, r.network, r.certs)
  BY Zenon DEF ScoreOverall, Weighted
<1>5. PICK a \in Int, b \in Int, c \in Int, d \in Int, e \in Int :
        a = r.nodeStatus /\ b = r.nodeResource /\ c = r.pods /\ d = r.deployments
          /\ e = r.statefulSets
  BY <1>3
<1>6. PICK f \in Int, g \in Int, h \in Int, i \in Int, j \in Int :
        f = r.storage /\ g = r.security /\ h = r.events /\ i = r.network /\ j = r.certs
  BY <1>3
<1>7. Weighted(a, b, c, d, e, f, g, h, i, j) \in Scores
  BY WeightedInRange
<1> QED BY <1>4, <1>5, <1>6, <1>7, Zenon

\* The types hold at the start.
LEMMA TypeInit == Init => TypeOK
<1> SUFFICES ASSUME Init PROVE TypeOK
  OBVIOUS
<1>1. DOMAIN cluster = Kinds
  BY ClustersAssumption DEF Init
<1>2. 0 \in 0..MaxChanges
  BY ReportAssumption
<1> QED BY <1>1, <1>2 DEF Init, TypeOK, Stages, NoMessage

\* Every step keeps the types: one step per action.
LEMMA TypeNext ==
  ASSUME RunInv, ObjectsInv, TypeOK, [Next]_vars, RunInv', ObjectsInv'
  PROVE  TypeOK'
<1> DEFINE Reported(r) == r # NoReport => /\ r.emoji \in {"red", "yellow", "green"}
                                          /\ r.scores \in [ScoreNames -> Scores]
                                          /\ r.overall \in Scores
<1>1. pc' \in Stages /\ DOMAIN cluster' = Kinds /\ DOMAIN seen' = Lists
  BY DEF RunInv, ObjectsInv
<1>2. ASSUME unreadable' = unreadable, ctx' \in {"live", "done"}, Reported(report'),
             body' \in {"none", "draft", "rendered"}, message'.level \in Levels \cup {"none"},
             changes' \in 0..MaxChanges
      PROVE  TypeOK'
  BY <1>1, <1>2 DEF TypeOK
<1>3. Reported(report)
  BY DEF TypeOK
<1>4. CASE Start
  BY <1>2, <1>3, <1>4 DEF Start, TypeOK
<1>5. CASE CollectStep
  <2>1. PICK step \in Steps, next \in Stages : Read(step, next)
    BY <1>5, CollectReads
  <2> QED BY <1>2, <1>3, <2>1 DEF Read, TypeOK
<1>6. CASE AnalyzePods
  BY <1>2, <1>3, <1>6 DEF AnalyzePods, TypeOK
<1>7. CASE BuildReport
  <2>1. Reported(ReportOf(seen, shown))
    BY ScoresTyped, OverallInRange DEF ObjectsInv, ReportOf, Emoji
  <2> QED BY <1>2, <1>7, <2>1 DEF BuildReport, TypeOK
<1>8. CASE RenderReport
  <2>1. body' \in {"none", "draft", "rendered"}
    BY <1>8 DEF RenderReport
  <2> QED BY <1>2, <1>3, <1>8, <2>1 DEF RenderReport, TypeOK
<1>9. CASE SendReport
  <2>1. message'.level \in Levels
    BY <1>9 DEF SendReport, Level, Levels
  <2> QED BY <1>2, <1>3, <1>9, <2>1 DEF SendReport, TypeOK
<1>10. CASE ContextEnds
  BY <1>2, <1>3, <1>10 DEF ContextEnds, TypeOK
<1>11. ASSUME NEW k, NEW objects, Change(k, objects) PROVE TypeOK'
  <2>1. changes' \in 0..MaxChanges
    BY <1>11, ReportAssumption DEF Change, TypeOK
  <2> QED BY <1>2, <1>3, <1>11, <2>1 DEF Change, TypeOK
<1>12. CASE UNCHANGED vars
  BY <1>2, <1>3, <1>12 DEF vars, TypeOK
<1> QED
  BY <1>4, <1>5, <1>6, <1>7, <1>8, <1>9, <1>10, <1>11, <1>12
  DEF Next, RunStep, Appear, Vanish

\* The variables keep their types: all scores of a report, and the one they
\* are weighted into, lie between zero and one hundred for every cluster.
THEOREM TypeCorrect == Spec => []TypeOK
<1>1. RunInv /\ ObjectsInv /\ TypeOK /\ [Next]_vars => TypeOK'
  BY TypeNext, RunNext, ObjectsNext
<1> QED BY <1>1, TypeInit, RunInit, RunNext, ObjectsInit, ObjectsNext, PTL DEF Spec

-----------------------------------------------------------------------------
(* The search of cron_simple.go against the meaning of a schedule.         *)

\* A remainder is a natural number below the modulus.
LEMMA ModRange ==
  ASSUME NEW a \in Int, NEW b \in Nat \ {0}
  PROVE  a % b \in Nat /\ a % b < b
OBVIOUS

\* A quotient of natural numbers is one.
LEMMA DivNat ==
  ASSUME NEW a \in Nat, NEW b \in Nat \ {0}
  PROVE  a \div b \in Nat
OBVIOUS

\* The product of natural numbers is one.
LEMMA ProductNat ==
  ASSUME NEW a \in Nat, NEW b \in Nat
  PROVE  a * b \in Nat
OBVIOUS

\* A product of positive numbers is positive.
LEMMA ProductPositive ==
  ASSUME NEW a \in Nat \ {0}, NEW b \in Nat \ {0}
  PROVE  a * b \in Nat \ {0}
OBVIOUS

\* The units of time are positive, and each is a multiple of the smaller ones.
LEMMA Units ==
  /\ Minute \in Nat \ {0} /\ Hour \in Nat \ {0} /\ Day \in Nat \ {0}
  /\ Day = HoursPerDay * Hour
  /\ Day = (HoursPerDay * MinutesPerHour) * Minute
<1>1. Minute \in Nat \ {0} /\ MinutesPerHour \in Nat \ {0} /\ HoursPerDay \in Nat \ {0}
  BY CalendarAssumption DEF Minute
<1>2. Hour \in Nat \ {0}
  BY <1>1, ProductPositive DEF Hour
<1>3. Day \in Nat \ {0}
  BY <1>1, <1>2, ProductPositive DEF Day
<1>4. \A a, b, c \in Nat : a * (b * c) = (a * b) * c
  OBVIOUS
<1>5. Day = (HoursPerDay * MinutesPerHour) * Minute
  BY <1>1, <1>4 DEF Day, Hour
<1> QED BY <1>1, <1>2, <1>3, <1>5 DEF Day

\* A number is its quotient times the divisor plus its remainder.
LEMMA Quotient ==
  ASSUME NEW a \in Nat, NEW u \in Nat \ {0}
  PROVE  a = (a \div u) * u + (a % u)
<1>1. a = u * (a \div u) + (a % u)
  OBVIOUS
<1>2. \A x \in Nat : x * u = u * x
  OBVIOUS
<1> QED BY <1>1, <1>2, DivNat

\* Multiples grow with their factor.
LEMMA MultipleMonotone ==
  ASSUME NEW i \in Nat, NEW j \in Nat, NEW u \in Nat, i <= j
  PROVE  i * u <= j * u
<1>1. PICK d \in Nat : j = i + d
  <2>1. j - i \in Nat /\ j = i + (j - i)
    OBVIOUS
  <2> QED BY <2>1
<1>2. j * u = i * u + d * u
  BY <1>1
<1>3. d * u \in Nat /\ i * u \in Nat
  BY ProductNat
<1> QED BY <1>2, <1>3

\* Of two multiples with remainders below the divisor, the one with the larger
\* factor is larger.
LEMMA FactorOrders ==
  ASSUME NEW q \in Nat, NEW p \in Nat, NEW u \in Nat \ {0},
         NEW v \in Nat, NEW w \in Nat, v < u, q < p
  PROVE  q * u + v < p * u + w
<1>1. (q + 1) * u <= p * u
  BY MultipleMonotone
<1>2. (q + 1) * u = q * u + u
  OBVIOUS
<1>3. q * u \in Nat /\ p * u \in Nat
  BY ProductNat
<1> QED BY <1>1, <1>2, <1>3

\* Quotient and remainder are unique.
LEMMA RemainderUnique ==
  ASSUME NEW a \in Nat, NEW u \in Nat \ {0}, NEW q \in Nat, NEW v \in Nat, v < u,
         a = q * u + v
  PROVE  a % u = v
<1> DEFINE p == a \div u
           w == a % u
<1>1. p \in Nat /\ w \in Nat /\ w < u /\ a = p * u + w
  BY DivNat, ModRange, Quotient
<1> HIDE DEF p, w
<1>2. p = q
  <2>1. ~(p < q)
    BY <1>1, FactorOrders
  <2>2. ~(q < p)
    BY <1>1, FactorOrders
  <2> QED BY <1>1, <2>1, <2>2
<1>3. q * u \in Nat
  BY ProductNat
<1>4. w = v
  BY <1>1, <1>2, <1>3
<1> QED BY <1>4 DEF w

\* Taking multiples of the divisor away leaves the remainder as it is.
LEMMA RemainderShifts ==
  ASSUME NEW b \in Nat, NEW k \in Nat, NEW u \in Nat \ {0}
  PROVE  (b + k * u) % u = b % u
<1> DEFINE q == b \div u
           v == b % u
           a == b + k * u
<1>1. q \in Nat /\ v \in Nat /\ v < u /\ b = q * u + v
  BY DivNat, ModRange, Quotient
<1> HIDE DEF q, v
<1>2. a \in Nat /\ a = (q + k) * u + v
  <2>1. (q + k) * u = q * u + k * u
    BY <1>1
  <2>2. q * u \in Nat /\ k * u \in Nat
    BY <1>1, ProductNat
  <2> QED BY <1>1, <2>1, <2>2
<1> HIDE DEF a
<1>3. a % u = v
  BY <1>1, <1>2, RemainderUnique
<1> QED BY <1>3 DEF v, a

\* A schedule matches at the same time every day.
LEMMA SameEveryDay ==
  ASSUME NEW e, NEW t \in Nat, t >= Day
  PROVE  /\ t - Day \in Nat
         /\ (t - Day) % Minute = t % Minute
         /\ CronMatch(e, t - Day) <=> CronMatch(e, t)
<1> DEFINE b == t - Day
<1>1. b \in Nat /\ t = b + Day
  BY Units
<1>2. HoursPerDay \in Nat /\ HoursPerDay * MinutesPerHour \in Nat
  BY CalendarAssumption, ProductNat
<1> HIDE DEF b
<1>3. ASSUME NEW unit \in Nat \ {0}, NEW k \in Nat, Day = k * unit
      PROVE  b % unit = t % unit
  <2>1. t = b + k * unit
    BY <1>1, <1>3
  <2>2. (b + k * unit) % unit = b % unit
    BY <1>1, RemainderShifts, Zenon
  <2> QED BY <2>1, <2>2, Zenon
<1>4. Day = 1 * Day
  BY Units
<1>5. b % Minute = t % Minute /\ b % Hour = t % Hour /\ b % Day = t % Day
  BY <1>2, <1>3, <1>4, Units
<1>6. MinuteOf(b) = MinuteOf(t) /\ HourOf(b) = HourOf(t)
  BY <1>5 DEF MinuteOf, HourOf
<1>7. CronMatch(e, b) <=> CronMatch(e, t)
  BY <1>6 DEF CronMatch
<1> QED BY <1>1, <1>5, <1>7 DEF b

\* The whole minutes after a time, up to the horizon, are the ones searched.
LEMMA SearchedMinutes ==
  ASSUME NEW b \in Nat
  PROVE  /\ \A t \in Searched(b) : t \in Nat /\ t > b /\ t % Minute = 0
         /\ \A t \in Nat : t > b /\ t % Minute = 0 /\ t <= b + Day => t \in Searched(b)
<1> USE Units
<1> DEFINE q == b \div Minute
           v == b % Minute
<1>1. q \in Nat /\ v \in Nat /\ v < Minute /\ b = q * Minute + v
  BY DivNat, ModRange, Quotient
<1>2. q * Minute \in Nat
  BY <1>1, ProductNat
<1>3. StartOf(Minute, b) = q * Minute
  <2> DEFINE x == q * Minute
  <2>1. x \in Nat /\ b = x + v /\ v \in Nat
    BY <1>1, <1>2
  <2> HIDE DEF x, v
  <2>2. b - v = x
    BY <2>1
  <2> QED BY <2>2 DEF StartOf, x, v
<1> HIDE DEF q, v
<1>4. ASSUME NEW t \in Searched(b) PROVE t \in Nat /\ t > b /\ t % Minute = 0
  <2>1. PICK i \in 0..(SearchMinutes - 1) : t = q * Minute + (i + 1) * Minute
    BY <1>3 DEF Searched
  <2>2. i \in Nat
    BY <2>1, CronAssumption
  <2>3. (q + (i + 1)) * Minute = q * Minute + (i + 1) * Minute
    BY <1>1, <2>2
  <2>4. q + (i + 1) \in Nat /\ q < q + (i + 1)
    BY <1>1, <2>2
  <2>5. t \in Nat /\ t = (q + (i + 1)) * Minute + 0
    BY <2>1, <2>3, <2>4, ProductNat
  <2>6. q * Minute + v < (q + (i + 1)) * Minute + 0
    BY <1>1, <2>4, FactorOrders
  <2>7. t % Minute = 0
    BY <2>4, <2>5, RemainderUnique
  <2> QED BY <1>1, <2>5, <2>6, <2>7
<1>5. ASSUME NEW t \in Nat, t > b, t % Minute = 0, t <= b + Day PROVE t \in Searched(b)
  <2> DEFINE p == t \div Minute
             n == HoursPerDay * MinutesPerHour
  <2>1. p \in Nat /\ t = p * Minute + 0
    BY <1>5, DivNat, Quotient
  <2>2. n \in Nat /\ n <= SearchMinutes /\ Day = n * Minute
    BY CalendarAssumption, CronAssumption, ProductNat
  <2> HIDE DEF p, n
  <2>3. q < p
    <3>1. ~(p < q)
      <4>1. p < q => p * Minute + 0 < q * Minute + v
        BY <1>1, <2>1, FactorOrders
      <4> QED BY <1>1, <1>2, <1>5, <2>1, <4>1
    <3>2. p # q
      <4>1. p = q => t <= b
        BY <1>1, <1>2, <2>1
      <4> QED BY <1>5, <4>1
    <3> QED BY <1>1, <2>1, <3>1, <3>2
  <2>4. p <= q + n
    <3>1. SUFFICES ASSUME q + n < p PROVE FALSE
      BY <1>1, <2>1, <2>2
    <3>2. q + n \in Nat /\ (q + n) * Minute = q * Minute + n * Minute
      BY <1>1, <2>2
    <3>3. (q + n) * Minute + v < p * Minute + 0
      BY <1>1, <2>1, <3>1, <3>2, FactorOrders
    <3>4. b + Day = (q + n) * Minute + v
      <4> DEFINE x == q * Minute
                 y == n * Minute
      <4>1. x \in Nat /\ y \in Nat /\ b = x + v /\ Day = y /\ v \in Nat
        BY <1>1, <1>2, <2>2, ProductNat
      <4>2. (q + n) * Minute = x + y
        BY <3>2
      <4> HIDE DEF x, y
      <4> QED BY <4>1, <4>2
    <3> QED BY <1>5, <2>1, <3>3, <3>4
  <2> DEFINE i == p - q - 1
  <2>5. i \in 0..(SearchMinutes - 1) /\ p = q + (i + 1) /\ i \in Nat
    BY <1>1, <2>1, <2>2, <2>3, <2>4, CronAssumption
  <2> HIDE DEF i
  <2>6. p * Minute = q * Minute + (i + 1) * Minute
    BY <1>1, <2>5
  <2>7. t = StartOf(Minute, b) + (i + 1) * Minute
    BY <1>3, <2>1, <2>6, ProductNat
  <2> QED BY <2>5, <2>7 DEF Searched
<1> QED BY <1>4, <1>5

\* The first match after a time is at most a day away: the search finds it.
LEMMA NextFound ==
  ASSUME NEW e, NEW b \in Nat, NEW t \in Nat, t > b, t % Minute = 0, CronMatch(e, t)
  PROVE  CronNext(e, b) \in Nat /\ CronNext(e, b) <= t
<1> USE Units
<1> DEFINE Q == {m \in Nat : m > b /\ m % Minute = 0 /\ CronMatch(e, m)}
           m == Min(Q)
           hits == {u \in Searched(b) : CronMatch(e, u)}
<1>1. t \in Q
  OBVIOUS
<1>2. m \in Q /\ \A y \in Q : m <= y
  <2>1. Q \subseteq Nat /\ Q # {}
    BY <1>1
  <2> HIDE DEF Q
  <2> QED BY <2>1, SmallestExists
<1>3. /\ m \in Nat /\ m > b /\ m % Minute = 0 /\ CronMatch(e, m)
      /\ m <= t
      /\ \A y \in Nat : y > b /\ y % Minute = 0 /\ CronMatch(e, y) => m <= y
  BY <1>1, <1>2
<1> HIDE DEF m, Q
<1>4. m <= b + Day
  <2>1. SUFFICES ASSUME m > b + Day PROVE FALSE
    BY <1>3
  <2>2. m >= Day /\ m - Day \in Nat /\ m - Day > b /\ m - Day < m
    BY <1>3, <2>1
  <2>3. (m - Day) % Minute = 0 /\ CronMatch(e, m - Day)
    BY <1>3, <2>2, SameEveryDay
  <2> QED BY <1>3, <2>2, <2>3
<1>5. m \in hits
  BY <1>3, <1>4, SearchedMinutes
<1>6. hits \subseteq Nat
  BY SearchedMinutes
<1>7. CronNext(e, b) = Min(hits)
  <2>1. hits # {}
    BY <1>5
  <2> QED BY <2>1 DEF CronNext, Min
<1> HIDE DEF hits
<1>8. Min(hits) \in Nat /\ Min(hits) <= m
  BY <1>5, <1>6, SmallestExists
<1>9. PICK n \in Nat : n = Min(hits)
  BY <1>8
<1>10. n <= t
  BY <1>3, <1>8, <1>9
<1> QED BY <1>7, <1>9, <1>10

\* What the search returns is a match after the time it starts from.
LEMMA NextMatches ==
  ASSUME NEW e, NEW b \in Nat, CronNext(e, b) # NoTime
  PROVE  LET n == CronNext(e, b) IN
         n \in Nat /\ n > b /\ n % Minute = 0 /\ CronMatch(e, n)
<1> DEFINE hits == {u \in Searched(b) : CronMatch(e, u)}
<1>1. hits # {}
  BY DEF CronNext
<1>2. CronNext(e, b) = Min(hits)
  BY <1>1 DEF CronNext, Min
<1>3. hits \subseteq Nat
  BY SearchedMinutes
<1>4. Min(hits) \in hits
  <2> HIDE DEF hits
  <2> QED BY <1>1, <1>3, SmallestExists
<1> QED BY <1>2, <1>4, SearchedMinutes

\* For every calendar and every schedule the search is given: a CronJob's next
\* run has passed exactly if it missed one.
LEMMA PassedMeansMissed ==
  ASSUME NEW cj, Base(cj) \in Nat
  PROVE  NextPassed(cj, Now) <=> MissedARun(cj, Now)
<1> DEFINE b == Base(cj)
           n == CronNext(cj.expr, b)
<1>1. Now \in Nat /\ Grace \in Nat
  BY ReportAssumption, CronAssumption
<1>2. ASSUME NextPassed(cj, Now) PROVE MissedARun(cj, Now)
  <2>1. n # NoTime /\ n < Now - Grace
    BY <1>2 DEF NextPassed
  <2>2. n \in Nat /\ n > b /\ n % Minute = 0 /\ CronMatch(cj.expr, n)
    BY <2>1, NextMatches
  <2> HIDE DEF n
  <2>3. n \in (Base(cj) + 1)..(Now - Grace - 1)
    BY <1>1, <2>1, <2>2
  <2> QED BY <2>2, <2>3 DEF MissedARun
<1>3. ASSUME MissedARun(cj, Now) PROVE NextPassed(cj, Now)
  <2>1. PICK t \in (Base(cj) + 1)..(Now - Grace - 1) : t % Minute = 0 /\ CronMatch(cj.expr, t)
    BY <1>3 DEF MissedARun
  <2>2. t \in Nat /\ t > b /\ t < Now - Grace
    BY <1>1, <2>1
  <2>3. n \in Nat /\ n <= t
    BY <2>1, <2>2, NextFound
  <2> HIDE DEF n
  <2>4. n # NoTime /\ n < Now - Grace
    BY <1>1, <2>2, <2>3 DEF NoTime
  <2> QED BY <2>4 DEF NextPassed, n
<1> QED BY <1>2, <1>3

\* Whatever is written in its schedule and however long the calendar's units:
\* a CronJob is reported as overdue exactly if it missed a run.
THEOREM OverdueAlwaysMissed == Spec => []OverdueMeansMissed
<1>1. ObjectsInv => OverdueMeansMissed
  <2> SUFFICES ASSUME ObjectsInv, NEW cj \in seen["cronJobs"]
               PROVE  Overdue(cj, Now) <=>
                        /\ ~cj.suspended /\ ParseCronSimple5(cj.expr)
                        /\ cj.last # NoTime \/ Now - cj.created > NeverRunAge
                        /\ MissedARun(cj, Now)
    BY DEF OverdueMeansMissed
  <2>1. cj.created \in Nat /\ cj.last \in Nat \cup {NoTime}
    <3>1. "cronJobs" \in Lists /\ KindOf("cronJobs") = "cronJobs"
      BY DEF Lists, Kinds, KindOf, Again
    <3> QED BY <3>1 DEF ObjectsInv, WellFormed
  <2>2. Base(cj) \in Nat
    BY <2>1 DEF Base
  <2>3. NextPassed(cj, Now) <=> MissedARun(cj, Now)
    BY <2>2, PassedMeansMissed
  <2> QED BY <2>3, Zenon DEF Overdue, NeverRun
<1> QED BY <1>1, ReportsAlways, PTL

=============================================================================
