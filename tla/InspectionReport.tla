---------------------------- MODULE InspectionReport ----------------------------
(***************************************************************************)
(* One inspection: runOnce (pkg/inspection/runner.go) from its first list  *)
(* to the message it hands to the notifier.  The collectors read the       *)
(* informers' caches one after the other, while the cluster goes on        *)
(* changing; one action stands for the lists of a collector of which no    *)
(* two read the same kind.  A list of a kind the controller may not read   *)
(* waits for a cache that never fills, until the run's context ends, and   *)
(* then fails; the collectors drop its error.                              *)
(***************************************************************************)
EXTENDS Collectors, Sequences

CONSTANTS
  Now,             \* the time at which the run started
  Clusters,        \* the clusters it may start with
  Changing,        \* bound: the kinds of which objects come and go during the run
  Newcomers,       \* by kind, the objects that may appear then
  Troubles,        \* by kind, objects in trouble, to compare reports with
  Forbidden,       \* the sets of kinds the controller may not read
  HasTimeout,      \* config.Inspection.Timeout > 0
  NotifyOnSuccess, \* config.Inspection.NotifyOnSuccess
  FocusLimit,      \* 5 general focus items
  GeneralActions,  \* 3 general actions
  ActionLimit,     \* 5 actions in all
  MaxChanges       \* bound: changes of the cluster during the run

Kinds == {"nodes", "deployments", "statefulSets", "daemonSets", "jobs", "cronJobs",
          "pods", "quotas", "pvcs", "pvs", "events", "services", "ingresses",
          "secrets", "slices", "hpas", "pdbs", "namespaces"}

\* Lists of a kind that another list has already read have a name of their own.
Again == [systemPods |-> "pods", securityPods |-> "pods", stalePods |-> "pods",
          tlsIngresses |-> "ingresses", endpointServices |-> "services",
          stalePVCs |-> "pvcs", staleJobs |-> "jobs"]
Lists == Kinds \cup DOMAIN Again
KindOf(l) == IF l \in DOMAIN Again THEN Again[l] ELSE l

\* The steps of a run, and the lists each of them reads.
ListsOf ==
  [nodes |-> {"nodes"}, workloads |-> WorkloadLists \cup {"jobs", "cronJobs"},
   components |-> {"systemPods"}, pods |-> {"pods"}, quotas |-> {"quotas"},
   pvcs |-> {"pvcs"}, storage |-> {"pvs"}, events |-> {"events"},
   network |-> {"services", "ingresses"}, security |-> {"securityPods"},
   certs |-> {"secrets"}, certRefs |-> {"tlsIngresses"},
   slices |-> {"slices"}, endpoints |-> {"endpointServices"},
   scaling |-> {"hpas", "pdbs"}, stalePods |-> {"stalePods"},
   staleClaims |-> {"stalePVCs"}, leftovers |-> {"staleJobs", "namespaces"}]
Steps == DOMAIN ListsOf
Stages == Steps \cup {"start", "analyze", "build", "render", "send", "done"}

VARIABLES
  cluster,    \* what the informers' caches hold, by kind
  unreadable, \* kinds the controller may not read
  ctx,        \* the run's context: live, or done
  pc,         \* the next stage of the run
  seen,       \* what the lists returned
  shown,      \* the abnormal Pods collectPods kept
  report,     \* the report built from them
  body,       \* what is sent: the draft, or the LLM's rendering
  message,    \* the message's level and the context it was sent with
  changes,    \* how often the cluster changed
  past        \* history: the objects there were when a step listed others

vars == <<cluster, unreadable, ctx, pc, seen, shown, report, body, message, changes, past>>

NoReport  == [emoji |-> "none"]
NoMessage == [level |-> "none", ctx |-> "none"]

ASSUME ReportAssumption ==
  /\ Now \in Nat /\ MaxChanges \in Nat
  /\ HasTimeout \in BOOLEAN /\ NotifyOnSuccess \in BOOLEAN
  /\ {FocusLimit, GeneralActions, ActionLimit} \subseteq Nat \ {0}
  /\ GeneralActions < ActionLimit
  /\ Changing \subseteq Kinds /\ Forbidden \subseteq SUBSET Kinds

\* What the API server lets into an object: percentages and times are numbers.
WellFormed(k, o) ==
  /\ k = "nodes"   => o.mem \in Nat /\ o.cpu \in Nat
  /\ k \in WorkloadLists => o.kind = k /\ o.desired \in Nat /\ o.ready \in Nat
  /\ k \in WorkloadLists \cup {"ingresses"} => o.name \in Nat
  /\ k = "quotas"  => o.cpu \in Nat /\ o.memory \in Nat
  /\ k = "secrets" => o.chain \subseteq Nat /\ IsFiniteSet(o.chain)
  /\ k \in {"pvcs", "services", "cronJobs"} => o.created \in Nat
  /\ k = "cronJobs" => o.last \in Nat \cup {NoTime}

ASSUME ClustersAssumption ==
  \A c \in Clusters :
    /\ DOMAIN c = Kinds
    /\ \A k \in Kinds : IsFiniteSet(c[k]) /\ \A o \in c[k] : WellFormed(k, o)
    /\ \A i, j \in c["ingresses"] : i.name = j.name => i = j

\* An object that appears is younger than any age the collectors look at.
ASSUME NewcomersAssumption ==
  /\ \A k \in Kinds : \A o \in Newcomers[k] : WellFormed(k, o)
  /\ \A c \in Newcomers["pvcs"] \cup Newcomers["services"] :
       Now - c.created < OrphanAge /\ Now - c.created <= PendingAge

Init ==
  /\ cluster    \in Clusters
  /\ unreadable \in Forbidden
  /\ ctx     = "live"
  /\ pc      = "start"
  /\ seen    = [l \in Lists |-> {}]
  /\ shown   = {}
  /\ report  = NoReport
  /\ body    = "none"
  /\ message = NoMessage
  /\ changes = 0
  /\ past    = [pvcs |-> {}, services |-> {}]

Running == pc \notin {"start", "done"}

-----------------------------------------------------------------------------
(* The cluster and the context.                                            *)

Change(k, objects) ==
  /\ Running
  /\ changes < MaxChanges
  /\ cluster' = [cluster EXCEPT ![k] = objects]
  /\ changes' = changes + 1
  /\ UNCHANGED <<unreadable, ctx, pc, seen, shown, report, body, message, past>>

Appear(k, o) == (\A x \in cluster[k] : x.name # o.name) /\ Change(k, cluster[k] \cup {o})
Vanish(k, o) == o \in cluster[k] /\ Change(k, cluster[k] \ {o})

\* The lists of the current stage that wait for a cache.
Waiting == pc \in Steps /\ \E l \in ListsOf[pc] : KindOf(l) \in unreadable

\* Mutant: a list that waits for a cache does not look at the context.
EndsBetweenCalls ==
  /\ ctx = "live"
  /\ pc \in {"analyze", "build", "render", "send"}
  /\ ctx' = "done"
  /\ UNCHANGED <<cluster, unreadable, pc, seen, shown, report, body, message, changes, past>>

\* The timeout, or a shutdown.  A list from a filled cache does not look at the
\* context, so that its end before the calls that follow the lists is the same.
ContextEnds ==
  /\ ctx = "live"
  /\ Waiting \/ pc \in {"analyze", "build", "render", "send"}
  /\ ctx' = "done"
  /\ UNCHANGED <<cluster, unreadable, pc, seen, shown, report, body, message, changes, past>>

-----------------------------------------------------------------------------
(* The collectors.                                                         *)

\* Stage step reads its lists and goes on at next.
Read(step, next) ==
  /\ pc  = step
  /\ Waiting => ctx = "done"
  /\ pc' = next
  /\ seen' = [l \in Lists |->
                IF l \in ListsOf[step] /\ KindOf(l) \notin unreadable
                  THEN cluster[KindOf(l)] ELSE seen[l]]
  /\ UNCHANGED <<cluster, unreadable, ctx, report, body, message, changes>>

\* A step whose result only the report reads.
Collect(step, next) == Read(step, next) /\ UNCHANGED <<shown, past>>

\* kubernetes.NewForConfig may fail; then nothing is reported.
Start ==
  /\ pc  = "start"
  /\ pc' \in {"nodes", "done"}
  /\ UNCHANGED <<cluster, unreadable, ctx, seen, shown, report, body, message, changes, past>>

CollectNodes      == Collect("nodes", "workloads")
CollectWorkloads  == Collect("workloads", "components")
CollectComponents == Collect("components", "pods")

CollectPods ==
  /\ Read("pods", "quotas")
  /\ shown' \in Kept(AbnormalPods(seen'))
  /\ UNCHANGED past

CollectQuotaRisks    == Collect("quotas", "pvcs")
CollectPVCs          == Collect("pvcs", "storage")
CollectStorage       == Collect("storage", "events")
CollectWarningEvents == Collect("events", "network")
CollectNetwork       == Collect("network", "security")
CollectSecurity      == Collect("security", "certs")

\* Without the Secrets the Ingresses are not looked at.
CollectSecrets ==
  Collect("certs", IF "secrets" \in unreadable THEN "slices" ELSE "certRefs")
CollectCertRefs == Collect("certRefs", "slices")

\* Nor the Services without the EndpointSlices.
CollectSlices ==
  /\ Read("slices", IF "slices" \in unreadable THEN "scaling" ELSE "endpoints")
  /\ past' = [past EXCEPT !.services = cluster["services"]]
  /\ UNCHANGED shown
CollectEndpoints == Collect("endpoints", "scaling")

CollectScaling == Collect("scaling", "stalePods")

\* Nor the claims without the Pods.
CollectStalePods ==
  /\ Read("stalePods", IF "pods" \in unreadable THEN "leftovers" ELSE "staleClaims")
  /\ past' = [past EXCEPT !.pvcs = cluster["pvcs"]]
  /\ UNCHANGED shown
CollectStaleClaims == Collect("staleClaims", "leftovers")
CollectLeftovers   == Collect("leftovers", "analyze")

CollectStep ==
  \/ CollectNodes \/ CollectWorkloads \/ CollectComponents \/ CollectPods
  \/ CollectQuotaRisks \/ CollectPVCs \/ CollectStorage \/ CollectWarningEvents
  \/ CollectNetwork \/ CollectSecurity \/ CollectSecrets \/ CollectCertRefs
  \/ CollectSlices \/ CollectEndpoints \/ CollectScaling \/ CollectStalePods
  \/ CollectStaleClaims \/ CollectLeftovers

-----------------------------------------------------------------------------
(* The report: buildReportMarkdown, buildFocusItems, buildSuggestedActions  *)
(* and their counterparts for the extras.                                  *)

\* An item the report lists: its place among all of its kind, and its name.
Item(at, name) == [at |-> at, name |-> name, urgent |-> FALSE]

\* The first n of them.
First(n, items) == Cut(n, items, LAMBDA i, j : i.at < j.at)

\* The items of a set of <<item, condition>> whose condition holds.
Holding(pairs) == {p[1] : p \in {q \in pairs : q[2]}}

BatchRisk(s) ==
  OverdueRuns(s, Now) # {} \/ NeverRuns(s, Now) # {} \/ Suspended(s) # {}
StorageRisk(s) == LostClaims(s) > 0 \/ PendingClaims(s) > 0 \/ FailedVolumes(s) > 0
NetworkRisk(s) == PendingServices(s, Now) # {} \/ PendingIngresses(s, Now) # {}

QuotaItem(s)  == [Item(1, "quota") EXCEPT !.urgent = Largest(QuotaRatios(s)) >= 95]

GeneralFocus(s, pods) == First(FocusLimit, Holding(
  {<<QuotaItem(s), QuotaRatios(s) # {}>>,
   <<Item(2, "memory"), HighMemory(s) # {}>>,
   <<Item(3, "images"), PullFailures(pods) # {}>>,
   <<Item(4, "batch"), BatchRisk(s) \/ FailedJobs(s) # {}>>,
   <<Item(5, "storage"), StorageRisk(s)>>,
   <<Item(6, "events"), WarningEvents(s, Now) # {}>>,
   <<Item(7, "network"), NetworkRisk(s)>>}))

CertItem(s) == [Item(11, "certs") EXCEPT !.urgent = Expired(s, Now) # {}]

ExtrasFocus(s) == Holding(
  {<<CertItem(s), Expired(s, Now) \cup Expiring30(s, Now) \cup Expiring7(s, Now) # {}>>,
   <<Item(12, "endpoints"), EmptyServices(s, Now) # {}>>,
   <<Item(13, "privileged"), WithIssue(s, "privileged") # {}>>,
   <<Item(14, "stuckNamespaces"), StuckNamespaces(s) # {}>>,
   <<Item(15, "stuckPods"), StuckPods(s, Now) # {}>>,
   <<Item(16, "hpas"), HPARisks(s) # {}>>,
   <<Item(17, "orphans"), OrphanClaims(s, Now) # {}>>})

Focus(s, pods) == GeneralFocus(s, pods) \cup ExtrasFocus(s)

SuggestedActions(s, pods) == First(GeneralActions, Holding(
  {<<Item(1, "quota"), QuotaRatios(s) # {}>>,
   <<Item(2, "memory"), HighMemory(s) # {}>>,
   <<Item(3, "images"), PullFailures(pods) # {}>>,
   <<Item(4, "cronJobs"), BatchRisk(s)>>,
   <<Item(5, "jobs"), FailedJobs(s) # {}>>,
   <<Item(6, "storage"), StorageRisk(s)>>,
   <<Item(7, "events"), WarningEvents(s, Now) # {}>>,
   <<Item(8, "network"), NetworkRisk(s)>>}))

ExtrasActions(s) == Holding(
  {<<Item(11, "certs"), Expired(s, Now) \cup Expiring7(s, Now) # {}>>,
   <<Item(12, "endpoints"), EmptyServices(s, Now) # {}>>,
   <<Item(13, "security"), WithIssue(s, "privileged") \cup WithIssue(s, "root") # {}>>,
   <<Item(14, "stuck"), StuckNamespaces(s) \cup StuckPods(s, Now) # {}>>,
   <<Item(15, "oldJobs"), OldJobs(s, Now) # {}>>})

\* Mutant: the extras come first.
ActionsOfExtrasFirst(s, pods) ==
  First(ActionLimit, {[a EXCEPT !.at = 20 + @] : a \in SuggestedActions(s, pods)}
                     \cup ExtrasActions(s))

Actions(s, pods) == First(ActionLimit, SuggestedActions(s, pods) \cup ExtrasActions(s))

\* The colour in the report's title.
Emoji(s) ==
  IF NotReady(s) > 0 THEN "red"
  ELSE IF UnhealthyComponents(s) # {} \/ AbnormalPods(s) # {} \/ UnderPressure(s) > 0
    THEN "yellow" ELSE "green"

\* The summary that says that nobody needs to act.
AllClear(s) == UnhealthyComponents(s) = {} /\ NotReady(s) = 0 /\ AbnormalPods(s) = {}

ReportOf(s, pods) ==
  [emoji |-> Emoji(s), scores |-> ReportScores(s, Now), overall |-> ScoreOverall(ReportScores(s, Now)),
   focus |-> Focus(s, pods), actions |-> IF Focus(s, pods) = {} THEN {} ELSE Actions(s, pods),
   allClear |-> AllClear(s)]

\* Mutant: only what a first look at the nodes finds.
LevelOfNodes(s) == IF NotReady(s) > 0 \/ UnderPressure(s) > 0 THEN "Warning" ELSE "Success"

\* The level collectNodes returns, and what runOnce raises it to.
Level(s) ==
  IF NotReady(s) > 0 THEN "Critical"
  ELSE IF \/ UnderPressure(s) > 0 \/ AbnormalPods(s) # {} \/ UnhealthyComponents(s) # {}
          \/ Expired(s, Now) # {} \/ EmptyServices(s, Now) # {}
    THEN "Warning" ELSE "Success"

-----------------------------------------------------------------------------
(* The end of the run.                                                     *)

\* The LLM is asked about five of the Pods; a failure leaves its analysis out.
AnalyzePods ==
  /\ pc  = "analyze"
  /\ pc' = "build"
  /\ UNCHANGED <<cluster, unreadable, ctx, seen, shown, report, body, message, changes, past>>

BuildReport ==
  /\ pc  = "build"
  /\ pc' = "render"
  /\ report' = ReportOf(seen, shown)
  /\ UNCHANGED <<cluster, unreadable, ctx, seen, shown, body, message, changes, past>>

\* The provider may not render, fail or answer nothing: the draft is sent.
RenderReport ==
  /\ pc  = "render"
  /\ pc' = "send"
  /\ body' \in IF ctx = "live" THEN {"draft", "rendered"} ELSE {"draft"}
  /\ UNCHANGED <<cluster, unreadable, ctx, seen, shown, report, message, changes, past>>

\* A report without trouble is only sent if the configuration asks for it.
SendReport ==
  /\ pc  = "send"
  /\ pc' = "done"
  /\ message' = [level |-> Level(seen),
                 ctx |-> IF Level(seen) = "Success" /\ ~NotifyOnSuccess THEN "unsent" ELSE ctx]
  /\ UNCHANGED <<cluster, unreadable, ctx, seen, shown, report, body, changes, past>>

RunStep == Start \/ CollectStep \/ AnalyzePods \/ BuildReport \/ RenderReport \/ SendReport

Next ==
  \/ RunStep
  \/ ContextEnds
  \/ \E k \in Changing : \/ \E o \in Newcomers[k] : Appear(k, o)
                         \/ \E o \in cluster[k] : Vanish(k, o)

\* The runner's goroutine is scheduled and its calls return; the context ends
\* for certain only if it has a timeout.
Fairness == WF_vars(RunStep) /\ (HasTimeout => WF_vars(ContextEnds))

Spec     == Init /\ [][Next]_vars
FairSpec == Spec /\ Fairness

-----------------------------------------------------------------------------
(* Properties.                                                             *)

ScoreNames == {"nodeStatus", "nodeResource", "pods", "deployments", "statefulSets",
               "storage", "events", "network", "security", "certs"}
Levels == {"Success", "Warning", "Critical"}

Rank(l) == CASE l = "Success" -> 0 [] l = "Warning" -> 1 [] l = "Critical" -> 2

\* The report has just been built; what it says does not change afterwards.
Finished == pc = "render" /\ ctx = "live"

\* The variables keep their types; all scores lie between 0 and 100.
TypeOK ==
  /\ unreadable \in Forbidden
  /\ ctx     \in {"live", "done"}
  /\ pc      \in Stages
  /\ DOMAIN cluster = Kinds /\ DOMAIN seen = Lists
  /\ report # NoReport => /\ report.emoji \in {"red", "yellow", "green"}
                          /\ report.scores \in [ScoreNames -> Scores]
                          /\ report.overall \in Scores
  /\ body    \in {"none", "draft", "rendered"}
  /\ message.level \in Levels \cup {"none"}
  /\ changes \in 0..MaxChanges

\* The message's level and the report it carries, computed in different places
\* from the summaries of the lists, agree: a red title is a critical message,
\* a yellow one a warning, and no message of level Success has a coloured title.
LevelsAgree ==
  message.level # "none" =>
    /\ report.emoji = "red" <=> message.level = "Critical"
    /\ report.emoji = "yellow" => message.level = "Warning"
    /\ message.level = "Success" => report.allClear

\* What is urgent is in the focus list and among the few suggested actions,
\* however much else was found: no cut hides a full quota or an expired
\* certificate.
UrgentShown ==
  Finished =>
    /\ (\E q \in seen["quotas"] : q.cpu >= 95 \/ q.memory >= 95) =>
         /\ \E i \in report.focus : i.name = "quota" /\ i.urgent
         /\ \E a \in report.actions : a.name = "quota"
    /\ (\E s \in seen["secrets"] : s.tls /\ \E t \in s.chain : t < Now) =>
         /\ \E i \in report.focus : i.name = "certs" /\ i.urgent
         /\ \E a \in report.actions : a.name = "certs"

\* A CronJob counts as overdue exactly if a time of its schedule lies between
\* its last run and the grace before now, however the search for it goes.
OverdueMeansMissed ==
  Finished =>
    \A cj \in seen["cronJobs"] :
      Overdue(cj, Now) <=>
        /\ ~cj.suspended /\ ParseCronSimple5(cj.expr)
        /\ cj.last # NoTime \/ Now - cj.created > NeverRunAge
        /\ MissedARun(cj, Now)

\* Findings joined from two lists are no artefact of the time between them: a
\* claim reported as unused existed when the Pods were listed, and a Service
\* reported as empty when the EndpointSlices were, although either may have
\* been created since under a name in use before.
JoinsTruthful ==
  Finished =>
    /\ \A c \in OrphanClaims(seen, Now) :
         \E d \in past.pvcs : d.name = c.name /\ d.created = c.created
    /\ \A s \in EmptyServices(seen, Now) :
         \E t \in past.services : t.name = s.name /\ t.created = s.created

\* The lists with one more object of a kind.
Plus(s, k, o) == [l \in Lists |-> IF KindOf(l) = k THEN s[l] \cup {o} ELSE s[l]]

\* What an object must be in trouble with where a sound one may raise a score.
InTrouble(k, o) ==
  /\ k = "pods"   => AbnormalReason(o) # ""
  /\ k \in WorkloadLists => Unready(o)
  /\ k = "pvcs"   => o.phase # "Bound"
  /\ k = "slices" => ~o.ready

ASSUME TroublesAssumption ==
  \A k \in Kinds : \A o \in Troubles[k] : WellFormed(k, o) /\ InTrouble(k, o)

\* A report never looks better for one more object in trouble: the overall score
\* does not rise and the level does not fall.  It holds as long as no more
\* workloads are unready than the list keeps; a Secret an Ingress has been
\* waiting for may end more trouble than it brings.
TroubleNeverHelps ==
  Finished =>
    \A k \in Kinds : \A o \in Troubles[k] :
      LET worse == Plus(seen, k, o) IN
      /\ \A l \in Lists : KindOf(l) = k => \A x \in seen[l] : x.name # o.name
      /\ k = "secrets" => \A i \in seen["tlsIngresses"] : i.secret # o.name
      /\ Cardinality(AllUnready(worse)) <= WorkloadLimit
      => /\ ScoreOverall(ReportScores(worse, Now)) <= report.overall
         /\ Rank(Level(worse)) >= Rank(Level(seen))

\* A run with a timeout returns, also if the controller may not read a kind.
RunReturns == HasTimeout => <>(pc = "done")

\* The instructions the report is rendered with, pkg/llm/deepseek.go:98: that
\* nobody needs to act is what a report says when there is nothing abnormal.
AllClearIsClear ==
  report # NoReport /\ report.allClear => \A i \in report.focus : ~i.urgent

=============================================================================
