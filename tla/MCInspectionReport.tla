--------------------------- MODULE MCInspectionReport ---------------------------
(* Instances of InspectionReport for TLC: clusters of at most two objects, or of many
   CronJobs. *)
EXTENDS InspectionReport

Node(n, ready, pressure, mem) ==
  [name |-> n, ready |-> ready, pressure |-> pressure, mem |-> mem, cpu |-> mem]
Workload(k, n, desired, ready) == [kind |-> k, name |-> n, desired |-> desired, ready |-> ready]
Pod(n, phase, waiting, restarts) ==
  [name |-> n, phase |-> phase, waiting |-> waiting, restarts |-> restarts,
   exitedBadly |-> FALSE, deleted |-> NoTime, ready |-> waiting = "",
   components |-> {}, claims |-> {}, issues |-> {}]
Claim(n, phase, created)  == [name |-> n, phase |-> phase, created |-> created]
Service(n, type, created) ==
  [name |-> n, type |-> type, selector |-> TRUE, address |-> FALSE, created |-> created]
Ingress(n, secret) == [name |-> n, address |-> FALSE, created |-> Now - 5, secret |-> secret]
Secret(n, chain)   == [name |-> n, tls |-> TRUE, chain |-> chain]
Job(n, failed)     == [name |-> n, failed |-> failed, ttl |-> FALSE, completed |-> Now - 13]
Event(n, stamps)   == [name |-> n, warning |-> TRUE, stamps |-> stamps]

\* Every way a kind of object can be well, in trouble, or just across a limit.
Pool ==
  {<<"nodes", Node(1, TRUE, FALSE, 86)>>, <<"nodes", Node(2, FALSE, FALSE, 50)>>,
   <<"nodes", Node(3, TRUE, TRUE, 75)>>,
   <<"deployments", Workload("deployments", 1, 2, 1)>>,
   <<"deployments", Workload("deployments", 2, 1, 1)>>,
   <<"statefulSets", Workload("statefulSets", 1, 3, 0)>>,
   <<"daemonSets", Workload("daemonSets", 1, 1, 0)>>,
   <<"jobs", Job(1, 1)>>,
   <<"pods", Pod(1, "Running", "", 0)>>,
   <<"pods", Pod(2, "Running", "CrashLoopBackOff", 7)>>,
   <<"pods", Pod(3, "Pending", "ImagePullBackOff", 0)>>,
   <<"pods", [Pod(4, "Running", "", 0) EXCEPT !.claims = {1}, !.issues = {"privileged", "root"}]>>,
   <<"pods", [Pod(5, "Running", "", 0) EXCEPT !.components = {"etcd"}, !.ready = FALSE]>>,
   <<"pods", [Pod(6, "Running", "", 9) EXCEPT !.deleted = Now - 5]>>,
   <<"quotas", [name |-> 1, cpu |-> 91, memory |-> 96]>>,
   <<"quotas", [name |-> 2, cpu |-> 90, memory |-> 50]>>,
   <<"pvcs", Claim(1, "Bound", Now - 11)>>, <<"pvcs", Claim(2, "Lost", Now - 11)>>,
   <<"pvs", [name |-> 1, phase |-> "Failed"]>>,
   <<"events", Event(1, <<NoTime, Now - 1>>)>>, <<"events", Event(2, <<Now - 20, Now>>)>>,
   <<"services", Service(1, "LoadBalancer", Now - 5)>>,
   <<"services", Service(2, "ClusterIP", Now - 4)>>,
   <<"ingresses", Ingress(1, 2)>>,
   <<"secrets", Secret(1, {Now - 1, Now + 40})>>, <<"secrets", Secret(2, {Now + 19})>>,
   <<"secrets", Secret(3, {Now + 37})>>,
   <<"slices", [name |-> 1, service |-> 1, ready |-> TRUE]>>,
   <<"hpas", [name |-> 1, active |-> TRUE, current |-> 2, min |-> 1, max |-> 2]>>,
   <<"pdbs", [name |-> 1, allowed |-> 0, expected |-> 1]>>,
   <<"namespaces", [name |-> 1, terminating |-> TRUE]>>}

\* Those that findings of other kinds are joined with or compete with.
Companions ==
  {p \in Pool : p[1] \in {"nodes", "quotas", "pvcs", "services", "secrets", "daemonSets"}}

ClusterOf(S) == [k \in Kinds |-> {p[2] : p \in {q \in S : q[1] = k}}]

Minutes == {[form |-> "star", n |-> 0], [form |-> "step", n |-> 2], [form |-> "step", n |-> 5],
            [form |-> "value", n |-> 1], [form |-> "value", n |-> MinutesPerHour],
            [form |-> "other", n |-> 0]}
Hours == {[form |-> "star", n |-> 0], [form |-> "step", n |-> 2], [form |-> "step", n |-> 0],
          [form |-> "value", n |-> 2]}
Runs == ({5, Now - 8} \X {NoTime} \X {FALSE}) \cup ({5} \X {Now - 19, Now - 12, Now - 7, Now - 6, Now - 5} \X BOOLEAN)

\* Every way to write a schedule, last run at any time of the day before.
CronJobs ==
  {[name |-> 0, expr |-> [minute |-> m, hour |-> h, rest |-> "stars"],
    created |-> r[1], last |-> r[2], suspended |-> r[3]] :
      m \in Minutes, h \in Hours, r \in Runs}

SmallClusters ==
  {ClusterOf({})} \cup {ClusterOf({p, q}) : p \in Pool, q \in Companions}
  \cup {[ClusterOf({}) EXCEPT !["cronJobs"] = {cj \in CronJobs : cj.expr.hour = h}] : h \in Hours}

\* During the run names are used again, and a Service loses its endpoints.
SomeNewcomers ==
  [[k \in Kinds |-> {}] EXCEPT
     !["pvcs"]      = {Claim(1, "Bound", Now - 1)},
     !["services"]  = {Service(1, "ClusterIP", Now)},
     !["pods"]      = {[Pod(7, "Running", "", 0) EXCEPT !.claims = {1}, !.issues = {"privileged"}]},
     !["secrets"]   = {Secret(2, {Now + 90})}]

SomeTroubles ==
  [k \in Kinds |-> {[p[2] EXCEPT !.name = 10 + @] : p \in {q \in Pool : q[1] = k
       /\ k # "slices"
       /\ (k = "pods" => AbnormalReason(q[2]) # "")
       /\ (k \in WorkloadLists => Unready(q[2]))
       /\ (k = "pvcs" => q[2].phase # "Bound")}}]

Unreadable == {{}, {"secrets"}}

=============================================================================
