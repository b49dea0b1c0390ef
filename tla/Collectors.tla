------------------------------- MODULE Collectors -------------------------------
(***************************************************************************)
(* What the inspection's collectors conclude from the lists they read      *)
(* (pkg/inspection/runner.go and runner_extras.go).  seen[l] is what list  *)
(* l returned: the empty set if it failed, as the code keeps the list it   *)
(* has not filled.  Names are numbers, so that ties can be broken by name; *)
(* what is only printed is left out, and so are the lengths of lists that  *)
(* nothing but their printing reads.                                       *)
(***************************************************************************)
EXTENDS CronSimple, Scores, FiniteSets, FiniteSetsExt

CONSTANTS
  PendingAge,     \* 15 minutes: a load balancer, a Service, a stuck deletion
  OrphanAge,      \* 24 hours: a claim nobody uses
  OldJobAge,      \* 7 days: a completed Job
  EventWindow,    \* 24 hours of Events
  ClockSlack,     \* 1 minute an Event may be ahead
  SoonDays,       \* 7: a certificate that expires soon
  LaterDays,      \* 30
  WorkloadLimit,  \* 10 unhealthy workloads are kept
  PodLimit,       \* 15 abnormal Pods
  SecretLimit     \* 8 missing Secrets

ASSUME CollectorsAssumption ==
  /\ {PendingAge, OrphanAge, OldJobAge, EventWindow, ClockSlack} \subseteq Nat
  /\ SoonDays \in Nat /\ LaterDays \in Nat /\ SoonDays <= LaterDays
  /\ {WorkloadLimit, PodLimit, SecretLimit} \subseteq Nat \ {0}

Count(S, Test(_)) == Cardinality({x \in S : Test(x)})
Largest(S) == Max(S \cup {0})

\* sort.Slice and a cut: the members of S with less than n before them.
Cut(n, S, Before(_, _)) == {x \in S : Cardinality({y \in S : Before(y, x)}) < n}

-----------------------------------------------------------------------------
(* Nodes: collectNodes.  Their usage is a percentage, measured or requested. *)

NotReady(seen)      == Count(seen["nodes"], LAMBDA n : ~n.ready)
UnderPressure(seen) == Count(seen["nodes"], LAMBDA n : n.pressure)
HighMemory(seen)    == {n \in seen["nodes"] : n.mem >= 80}

NodeStatusScore(seen) == ScoreNodeStatus(NotReady(seen), UnderPressure(seen))
NodeResourceScore(seen) ==
  ScoreNodeResource(Largest({n.mem : n \in seen["nodes"]}),
                    Largest({n.cpu : n \in seen["nodes"]}),
                    Count(seen["nodes"], LAMBDA n : n.mem >= 85))

-----------------------------------------------------------------------------
(* Workloads: collectWorkloads.                                            *)

WorkloadLists == {"deployments", "statefulSets", "daemonSets"}
KindOrder(l) == CASE l = "daemonSets" -> 1 [] l = "deployments" -> 2 [] l = "statefulSets" -> 3

Unready(w) == w.desired > 0 /\ w.ready < w.desired

\* The largest gap first, then by kind and name.
WorseWorkload(v, w) ==
  LET gap(x) == x.desired - x.ready IN
  \/ gap(v) > gap(w)
  \/ gap(v) = gap(w) /\ KindOrder(v.kind) < KindOrder(w.kind)
  \/ gap(v) = gap(w) /\ v.kind = w.kind /\ v.name < w.name

AllUnready(seen) == {w \in UNION {seen[l] : l \in WorkloadLists} : Unready(w)}

\* One list for all kinds, cut before anybody counts it.
Unhealthy(seen) == Cut(WorkloadLimit, AllUnready(seen), WorseWorkload)

WorkloadScore(seen, l) ==
  ScoreHealthy(Cardinality(seen[l]), Count(Unhealthy(seen), LAMBDA w : w.kind = l))

FailedJobs(seen)  == {j \in seen["jobs"] : j.failed > 0}
Suspended(seen)   == {cj \in seen["cronJobs"] : cj.suspended}
NeverRuns(seen, now)    == {cj \in seen["cronJobs"] : NeverRun(cj, now)}
OverdueRuns(seen, now)  == {cj \in seen["cronJobs"] : Overdue(cj, now)}

-----------------------------------------------------------------------------
(* Pods: collectComponents, collectPods, abnormalReason.                   *)

WaitingFaults == {"CrashLoopBackOff", "ImagePullBackOff", "ErrImagePull",
                  "CreateContainerConfigError", "RunContainerError"}

\* A Pod with one container, which waits for a reason, has restarted or
\* has ended.  A Pod being deleted is never abnormal.
AbnormalReason(p) ==
  IF p.deleted # NoTime THEN ""
  ELSE IF p.phase = "Failed" THEN "Failed"
  ELSE IF p.phase = "Pending"
    THEN IF p.waiting # "" THEN p.waiting ELSE "Pending"
  ELSE IF p.waiting \in WaitingFaults THEN p.waiting
  ELSE IF p.restarts >= 5 THEN "HighRestart"
  ELSE IF p.exitedBadly THEN "TerminatedNonZero"
  ELSE IF p.phase = "Unknown" THEN "Unknown" ELSE ""

AbnormalPods(seen) == {p \in seen["pods"] : AbnormalReason(p) # ""}

\* The Pods collectPods may keep: those with the most restarts, in an order
\* that ties leave open.
Kept(pods) ==
  {S \in SUBSET pods :
     /\ Cardinality(S) = Min({PodLimit, Cardinality(pods)})
     /\ \A p \in S, q \in pods \ S : p.restarts >= q.restarts}

PullFailures(shown) ==
  {p \in shown : AbnormalReason(p) \in {"ImagePullBackOff", "ErrImagePull"}}

PodScore(seen) == ScoreHealthy(Cardinality(seen["pods"]), Cardinality(AbnormalPods(seen)))

\* The control plane's instances that are not ready, once for each component
\* whose name the Pod's contains.
UnhealthyComponents(seen) ==
  UNION {{<<p.name, c>> : c \in p.components} : p \in {q \in seen["systemPods"] : ~q.ready}}

-----------------------------------------------------------------------------
(* Quotas, claims, volumes: collectQuotaRisks, collectPVCs, collectStorage. *)

QuotaRatios(seen) ==
  {r \in UNION {{q.cpu, q.memory} : q \in seen["quotas"]} : r >= 90}

InPhase(S, phase) == Count(S, LAMBDA x : x.phase = phase)

LostClaims(seen)    == InPhase(seen["pvcs"], "Lost")
PendingClaims(seen) == InPhase(seen["pvcs"], "Pending")
FailedVolumes(seen) == InPhase(seen["pvs"], "Failed")

StorageScore(seen) ==
  ScoreStorage(Cardinality(seen["pvcs"]), InPhase(seen["pvcs"], "Bound"),
               LostClaims(seen), PendingClaims(seen), FailedVolumes(seen))

-----------------------------------------------------------------------------
(* Events and network: collectWarningEvents, collectServices, collectIngresses. *)

\* The first of EventTime, LastTimestamp, FirstTimestamp and
\* CreationTimestamp that is set.
EventTimestamp(e) ==
  LET set == {n \in DOMAIN e.stamps : e.stamps[n] # NoTime} IN
  IF set = {} THEN NoTime ELSE e.stamps[Min(set)]

WarningEvents(seen, now) ==
  {e \in seen["events"] : /\ e.warning
                          /\ EventTimestamp(e) # NoTime
                          /\ EventTimestamp(e) \in (now - EventWindow)..(now + ClockSlack)}

WaitsForAddress(x, now) == ~x.address /\ now - x.created > PendingAge

PendingServices(seen, now) ==
  {s \in seen["services"] : s.type = "LoadBalancer" /\ WaitsForAddress(s, now)}
PendingIngresses(seen, now) == {i \in seen["ingresses"] : WaitsForAddress(i, now)}

-----------------------------------------------------------------------------
(* Security and certificates: collectSecurityAndHygiene, collectCertRisks. *)

LivePods(seen) == {p \in seen["securityPods"] : p.phase \notin {"Succeeded", "Failed"}}
WithIssue(seen, issue) == {p \in LivePods(seen) : issue \in p.issues}

SecurityScore(seen) ==
  LET count(i) == Cardinality(WithIssue(seen, i)) IN
  ScoreSecurity(count("privileged"),
                count("hostNetwork") + count("hostPID") + count("hostIPC"),
                count("root"), count("hostPath"), count("latest"), count("noMemLimit"))

\* The earliest end of the certificates in a TLS Secret that can be read.
EarliestNotAfter(s) == IF s.chain = {} THEN NoTime ELSE Min(s.chain)

TLSSecrets(seen) == {s \in seen["secrets"] : s.tls}
Readable(seen)   == {s \in TLSSecrets(seen) : EarliestNotAfter(s) # NoTime}
DaysLeft(s, now) == (EarliestNotAfter(s) - now) \div Day

Expired(seen, now) == {s \in Readable(seen) : EarliestNotAfter(s) < now}
ExpiringWithin(seen, now, days) ==
  {s \in Readable(seen) \ Expired(seen, now) : DaysLeft(s, now) <= days}
Expiring7(seen, now)  == ExpiringWithin(seen, now, SoonDays)
Expiring30(seen, now) == ExpiringWithin(seen, now, LaterDays) \ Expiring7(seen, now)

\* The Secrets Ingresses name and the earlier list does not hold.
MissingSecrets(seen) ==
  LET names == {s.name : s \in seen["secrets"]}
      missing == {i \in seen["tlsIngresses"] : i.secret # 0 /\ i.secret \notin names} IN
  Cut(SecretLimit, missing, LAMBDA i, j : i.name < j.name)

CertScore(seen, now) ==
  ScoreCerts(Cardinality(TLSSecrets(seen)), Cardinality(Expired(seen, now)),
             Cardinality(Expiring7(seen, now)), Cardinality(Expiring30(seen, now)),
             Cardinality(MissingSecrets(seen)))

-----------------------------------------------------------------------------
(* Endpoints, scaling, leftovers: collectEndpointRisks and the ones after.  *)

ServedServices(seen) == {e.service : e \in {x \in seen["slices"] : x.ready}}

EmptyServices(seen, now) ==
  {s \in seen["endpointServices"] :
     /\ s.type # "ExternalName" /\ s.selector
     /\ now - s.created > PendingAge
     /\ s.name \notin ServedServices(seen)}

HPARisks(seen) ==
  {h \in seen["hpas"] : ~h.active \/ h.current >= h.max \/ h.current < h.min}

StuckPods(seen, now) ==
  {p \in seen["stalePods"] : p.deleted # NoTime /\ now - p.deleted > PendingAge}

\* Mutant: young claims too.
OrphansOfAnyAge(seen, now) ==
  LET used == UNION {p.claims : p \in seen["stalePods"]} IN
  {c \in seen["stalePVCs"] : c.phase = "Bound" /\ c.name \notin used}

OrphanClaims(seen, now) ==
  LET used == UNION {p.claims : p \in seen["stalePods"]} IN
  {c \in seen["stalePVCs"] :
     c.phase = "Bound" /\ now - c.created >= OrphanAge /\ c.name \notin used}

OldJobs(seen, now) ==
  {j \in seen["staleJobs"] :
     ~j.ttl /\ j.completed # NoTime /\ now - j.completed > OldJobAge}
StuckNamespaces(seen) == {n \in seen["namespaces"] : n.terminating}

-----------------------------------------------------------------------------

\* All the scores of a report, and the overall one: buildReportMarkdown.
ReportScores(seen, now) ==
  [nodeStatus   |-> NodeStatusScore(seen),
   nodeResource |-> NodeResourceScore(seen),
   pods         |-> PodScore(seen),
   deployments  |-> WorkloadScore(seen, "deployments"),
   statefulSets |-> WorkloadScore(seen, "statefulSets"),
   storage      |-> StorageScore(seen),
   events       |-> ScoreWarningEvents(Cardinality(WarningEvents(seen, now))),
   network      |-> ScoreNetwork(Cardinality(PendingServices(seen, now)),
                                 Cardinality(PendingIngresses(seen, now))),
   security     |-> SecurityScore(seen),
   certs        |-> CertScore(seen, now)]

=============================================================================
