------------------------ MODULE InspectionTroubleProofs ------------------------
(***************************************************************************)
(* A report of InspectionReport never looks better for one more object in  *)
(* trouble: each score is compared with the one of the lists that hold the *)
(* object too, then the overall score and the level.                       *)
(***************************************************************************)
EXTENDS InspectionReportProofs

-----------------------------------------------------------------------------
(* The scores' formulas: more trouble never scores more.                   *)

\* A part of a finite set has no more members.
LEMMA PartIsFewer ==
  ASSUME NEW S, NEW T, IsFiniteSet(T), S \subseteq T
  PROVE  /\ IsFiniteSet(S) /\ Cardinality(S) \in Nat /\ Cardinality(T) \in Nat
         /\ Cardinality(S) <= Cardinality(T)
BY FS_Subset, FS_CardinalityType

\* No score is above the full one.
LEMMA NoMoreThanFull == \A v \in Scores : v <= Full
BY DEF Scores, Full

\* Clamping keeps the order.
LEMMA ClampGrows == \A u, v \in Int : u <= v => Clamp100(u) <= Clamp100(v)
BY DEF Clamp100, Full

\* So does a difference cut at zero.
LEMMA MonusGrows == \A a, b, c \in Int : a <= b => Monus(a, c) <= Monus(b, c)
BY DEF Monus

\* A larger dividend has no smaller quotient, nor has a smaller divisor.
LEMMA QuotientGrows ==
  ASSUME NEW a \in Nat, NEW b \in Nat, NEW u \in Nat \ {0}, NEW v \in Nat \ {0},
         a <= b, v <= u
  PROVE  a \div u <= b \div v
<1> DEFINE p == a \div u
           r == a % u
           q == b \div v
           w == b % v
<1>1. p \in Nat /\ r \in Nat /\ a = p * u + r
  BY DivNat, ModRange, Quotient
<1>2. q \in Nat /\ w \in Nat /\ w < v /\ b = q * v + w
  BY DivNat, ModRange, Quotient
<1> HIDE DEF p, q, r, w
<1>3. p * v <= p * u
  <2>1. PICK d \in Nat : u = v + d
    <3>1. u - v \in Nat /\ u = v + (u - v)
      OBVIOUS
    <3> QED BY <3>1
  <2>2. p * u = p * v + p * d
    BY <1>1, <2>1
  <2>3. p * d \in Nat /\ p * v \in Nat
    BY <1>1, ProductNat
  <2> QED BY <2>2, <2>3
<1>4. ~(q < p)
  <2>1. SUFFICES ASSUME q < p PROVE FALSE
    OBVIOUS
  <2>2. q * v + w < p * v + 0
    BY <1>1, <1>2, <2>1, FactorOrders
  <2>3. p * v \in Nat /\ p * u \in Nat /\ q * v \in Nat
    BY <1>1, <1>2, ProductNat
  <2> QED BY <1>1, <1>2, <1>3, <2>2, <2>3
<1>5. p <= q
  BY <1>1, <1>2, <1>4
<1> QED BY <1>5 DEF p, q

\* A share grows with the part and falls with the whole.
LEMMA ShareGrows ==
  ASSUME NEW a \in Nat, NEW b \in Nat, NEW u \in Nat \ {0}, NEW v \in Nat \ {0},
         a <= b, v <= u
  PROVE  Share(a, u) <= Share(b, v)
<1> DEFINE x == Full * a
           y == Full * b
<1>1. x \in Nat /\ y \in Nat /\ x <= y
  BY DEF Full
<1> HIDE DEF x, y
<1>2. x \div u <= y \div v /\ x \div u \in Nat /\ y \div v \in Nat
  BY <1>1, QuotientGrows, DivNat
<1>3. Clamp100(x \div u) <= Clamp100(y \div v)
  BY <1>2, ClampGrows
<1> QED BY <1>3 DEF Share, x, y

\* The score for healthy objects falls with one more that is not, and with one
\* that is no longer.
LEMMA HealthyFalls ==
  ASSUME NEW total \in Nat, NEW bad \in Nat, bad <= total, NEW more \in Nat, NEW worse \in Nat,
         \/ more = total + 1 /\ worse = bad + 1
         \/ more = total /\ worse = bad
  PROVE  ScoreHealthy(more, worse) <= ScoreHealthy(total, bad)
<1>1. CASE total = 0
  <2>1. ScoreHealthy(more, worse) \in Scores
    BY HealthyInRange
  <2>2. ScoreHealthy(total, bad) = Full
    BY <1>1 DEF ScoreHealthy
  <2> QED BY <2>1, <2>2, NoMoreThanFull
<1>2. CASE total # 0
  <2>1. Monus(more, worse) = Monus(total, bad) /\ Monus(total, bad) \in Nat
    BY <1>2 DEF Monus
  <2>2. Share(Monus(more, worse), more) <= Share(Monus(total, bad), total)
    <3>1. more \in Nat \ {0} /\ total \in Nat \ {0} /\ total <= more
      BY <1>2
    <3> QED BY <2>1, <3>1, ShareGrows
  <2> QED BY <1>2, <2>2 DEF ScoreHealthy
<1> QED BY <1>1, <1>2

\* The score for storage falls with a claim that is not bound, a lost or pending
\* one, and a failed volume.
LEMMA StorageFalls ==
  ASSUME NEW t \in Nat, NEW b \in Nat, NEW l \in Nat, NEW p \in Nat, NEW f \in Nat,
         NEW t2 \in Nat, NEW l2 \in Nat, NEW p2 \in Nat, NEW f2 \in Nat,
         t <= t2, l <= l2, p <= p2, f <= f2
  PROVE  ScoreStorage(t2, b, l2, p2, f2) <= ScoreStorage(t, b, l, p, f)
<1>1. CASE t = 0
  <2>1. ScoreStorage(t2, b, l2, p2, f2) \in Scores
    BY StorageInRange
  <2>2. ScoreStorage(t, b, l, p, f) = Full
    BY <1>1 DEF ScoreStorage
  <2> QED BY <2>1, <2>2, NoMoreThanFull
<1>2. CASE t # 0
  <2>1. t \in Nat \ {0} /\ t2 \in Nat \ {0}
    BY <1>2
  <2>2. Share(b, t2) <= Share(b, t)
    BY <2>1, ShareGrows
  <2>3. Share(b, t2) \in Int /\ Share(b, t) \in Int
    <3>1. b \in Int
      OBVIOUS
    <3>2. Share(b, t2) \in Scores /\ Share(b, t) \in Scores
      BY <2>1, <3>1, ShareInRange
    <3> QED BY <3>2, ScoresAreInts
  <2> DEFINE u == Share(b, t2) - 1500 * l2 - 500 * p2 - 2000 * f2
             v == Share(b, t) - 1500 * l - 500 * p - 2000 * f
  <2>4. u \in Int /\ v \in Int /\ u <= v
    BY <2>2, <2>3
  <2>5. Clamp100(u) <= Clamp100(v)
    <3> HIDE DEF u, v
    <3> QED BY <2>4, ClampGrows
  <2> QED BY <2>1, <2>5 DEF ScoreStorage
<1> QED BY <1>1, <1>2

\* Every other score falls with whatever is counted for it.
LEMMA PenaltiesFall ==
  /\ \A a, b, a2, b2 \in Nat : a <= a2 /\ b <= b2 => ScoreNodeStatus(a2, b2) <= ScoreNodeStatus(a, b)
  /\ \A a, b, c, a2, b2, c2 \in Nat :
       a <= a2 /\ b <= b2 /\ c <= c2 => ScoreNodeResource(a2, b2, c2) <= ScoreNodeResource(a, b, c)
  /\ \A a, a2 \in Nat : a <= a2 => ScoreWarningEvents(a2) <= ScoreWarningEvents(a)
  /\ \A a, b, a2, b2 \in Nat : a <= a2 /\ b <= b2 => ScoreNetwork(a2, b2) <= ScoreNetwork(a, b)
<1>1. ASSUME NEW a \in Nat, NEW b \in Nat, NEW a2 \in Nat, NEW b2 \in Nat, a <= a2, b <= b2
      PROVE  ScoreNodeStatus(a2, b2) <= ScoreNodeStatus(a, b)
  <2> DEFINE u == Full - 3000 * a2 - 1000 * b2
             v == Full - 3000 * a - 1000 * b
  <2>1. u \in Int /\ v \in Int /\ u <= v
    BY <1>1 DEF Full
  <2>2. Clamp100(u) <= Clamp100(v)
    <3> HIDE DEF u, v
    <3> QED BY <2>1, ClampGrows
  <2> QED BY <2>2 DEF ScoreNodeStatus
<1>2. ASSUME NEW a \in Nat, NEW b \in Nat, NEW c \in Nat, NEW a2 \in Nat, NEW b2 \in Nat,
             NEW c2 \in Nat, a <= a2, b <= b2, c <= c2
      PROVE  ScoreNodeResource(a2, b2, c2) <= ScoreNodeResource(a, b, c)
  <2> DEFINE u == Full - 80 * Monus(a2, 70) - 30 * Monus(b2, 80) - 300 * c2
             v == Full - 80 * Monus(a, 70) - 30 * Monus(b, 80) - 300 * c
  <2>1. u \in Int /\ v \in Int /\ u <= v
    BY <1>2 DEF Full, Monus
  <2>2. Clamp100(u) <= Clamp100(v)
    <3> HIDE DEF u, v
    <3> QED BY <2>1, ClampGrows
  <2> QED BY <2>2 DEF ScoreNodeResource
<1>3. ASSUME NEW a \in Nat, NEW a2 \in Nat, a <= a2
      PROVE  ScoreWarningEvents(a2) <= ScoreWarningEvents(a)
  BY <1>3 DEF ScoreWarningEvents, Clamp100, Full
<1>4. ASSUME NEW a \in Nat, NEW b \in Nat, NEW a2 \in Nat, NEW b2 \in Nat, a <= a2, b <= b2
      PROVE  ScoreNetwork(a2, b2) <= ScoreNetwork(a, b)
  <2> DEFINE u == Full - 2000 * a2 - 2000 * b2
             v == Full - 2000 * a - 2000 * b
  <2>1. u \in Int /\ v \in Int /\ u <= v
    BY <1>4 DEF Full
  <2>2. Clamp100(u) <= Clamp100(v)
    <3> HIDE DEF u, v
    <3> QED BY <2>1, ClampGrows
  <2> QED BY <2>2 DEF ScoreNetwork
<1> QED BY <1>1, <1>2, <1>3, <1>4

\* The score for security falls with every one of the issues it counts.
LEMMA SecurityFalls ==
  ASSUME NEW a \in Nat, NEW b \in Nat, NEW c \in Nat, NEW d \in Nat, NEW e \in Nat, NEW f \in Nat,
         NEW a2 \in Nat, NEW b2 \in Nat, NEW c2 \in Nat, NEW d2 \in Nat, NEW e2 \in Nat, NEW f2 \in Nat,
         a <= a2, b <= b2, c <= c2, d <= d2, e <= e2, f <= f2
  PROVE  ScoreSecurity(a2, b2, c2, d2, e2, f2) <= ScoreSecurity(a, b, c, d, e, f)
<1> DEFINE u == Full - 800 * a2 - 400 * b2 - 200 * c2 - 200 * d2 - 50 * e2 - 20 * f2
           v == Full - 800 * a - 400 * b - 200 * c - 200 * d - 50 * e - 20 * f
<1>1. u \in Int /\ v \in Int /\ u <= v
  BY DEF Full
<1>2. Clamp100(u) <= Clamp100(v)
  <2> HIDE DEF u, v
  <2> QED BY <1>1, ClampGrows
<1> QED BY <1>2 DEF ScoreSecurity

\* The score for certificates falls with every finding, and with the first Secret.
LEMMA CertsFall ==
  ASSUME NEW a \in Nat, NEW b \in Nat, NEW c \in Nat, NEW d \in Nat, NEW e \in Nat,
         NEW a2 \in Nat, NEW b2 \in Nat, NEW c2 \in Nat, NEW d2 \in Nat, NEW e2 \in Nat,
         a <= a2, b <= b2, c <= c2, d <= d2, e <= e2
  PROVE  ScoreCerts(a2, b2, c2, d2, e2) <= ScoreCerts(a, b, c, d, e)
<1>1. CASE a = 0
  <2>1. ScoreCerts(a2, b2, c2, d2, e2) \in Scores
    BY PenaltiesInRange
  <2>2. ScoreCerts(a, b, c, d, e) = Full
    BY <1>1 DEF ScoreCerts
  <2> QED BY <2>1, <2>2, NoMoreThanFull
<1>2. CASE a # 0
  <2> DEFINE u == Full - 4000 * b2 - 2500 * c2 - 800 * d2 - 500 * e2
             v == Full - 4000 * b - 2500 * c - 800 * d - 500 * e
  <2>1. u \in Int /\ v \in Int /\ u <= v
    BY DEF Full
  <2>2. Clamp100(u) <= Clamp100(v)
    <3> HIDE DEF u, v
    <3> QED BY <2>1, ClampGrows
  <2>3. a2 # 0
    BY <1>2
  <2> QED BY <1>2, <2>2, <2>3 DEF ScoreCerts
<1> QED BY <1>1, <1>2

-----------------------------------------------------------------------------
(* The lists with one more object.                                         *)

\* Lists w are the lists s with object o of kind k, which is in trouble and bears
\* a name of its own.
Worse(s, w, k, o) ==
  /\ k \in Kinds /\ WellFormed(k, o) /\ InTrouble(k, o)
  /\ \A l \in Lists :
       /\ IsFiniteSet(s[l])
       /\ \A x \in s[l] : WellFormed(KindOf(l), x)
       /\ w[l] = IF KindOf(l) = k THEN s[l] \cup {o} ELSE s[l]
       /\ KindOf(l) = k => \A x \in s[l] : x.name # o.name

\* Nothing is missing from the longer lists, and all in them is well-formed.
LEMMA ListsGrow ==
  ASSUME NEW s, NEW w, NEW k, NEW o, Worse(s, w, k, o)
  PROVE  \A l \in Lists :
           /\ IsFiniteSet(s[l]) /\ IsFiniteSet(w[l])
           /\ s[l] \subseteq w[l]
           /\ w[l] \subseteq s[l] \cup {o}
           /\ \A x \in w[l] : WellFormed(KindOf(l), x)
           /\ KindOf(l) # k => w[l] = s[l]
           /\ KindOf(l) = k => w[l] = s[l] \cup {o} /\ o \notin s[l]
<1> SUFFICES ASSUME NEW l \in Lists
             PROVE  /\ IsFiniteSet(s[l]) /\ IsFiniteSet(w[l])
                    /\ s[l] \subseteq w[l]
                    /\ w[l] \subseteq s[l] \cup {o}
                    /\ \A x \in w[l] : WellFormed(KindOf(l), x)
                    /\ KindOf(l) # k => w[l] = s[l]
                    /\ KindOf(l) = k => w[l] = s[l] \cup {o} /\ o \notin s[l]
  OBVIOUS
<1>1. IsFiniteSet(s[l]) /\ IsFiniteSet(s[l] \cup {o})
  BY FS_AddElement DEF Worse
<1>2. WellFormed(k, o) /\ \A x \in s[l] : WellFormed(KindOf(l), x)
  BY Zenon DEF Worse
<1>3. w[l] = IF KindOf(l) = k THEN s[l] \cup {o} ELSE s[l]
  BY DEF Worse
<1>4. KindOf(l) = k => \A x \in s[l] : x.name # o.name
  BY DEF Worse
<1>5. CASE KindOf(l) = k
  <2>1. w[l] = s[l] \cup {o} /\ o \notin s[l]
    BY <1>3, <1>4, <1>5
  <2>2. \A x \in w[l] : WellFormed(KindOf(l), x)
    BY <1>2, <1>5, <2>1
  <2> QED BY <1>1, <1>2, <1>5, <2>1, <2>2
<1>6. CASE KindOf(l) # k
  BY <1>1, <1>2, <1>3, <1>6
<1> QED BY <1>5, <1>6

\* The names of the lists, and the kinds of those that share one.
LEMMA ListNames ==
  /\ {"nodes", "pods", "pvcs", "pvs", "events", "services", "ingresses", "secrets", "slices",
      "deployments", "statefulSets", "daemonSets", "securityPods", "tlsIngresses",
      "systemPods", "endpointServices"} \subseteq Lists
  /\ \A l \in Kinds : KindOf(l) = l
  /\ KindOf("securityPods") = "pods" /\ KindOf("systemPods") = "pods"
  /\ KindOf("tlsIngresses") = "ingresses" /\ KindOf("endpointServices") = "services"
  /\ {"nodes", "pods", "pvcs", "pvs", "events", "services", "ingresses", "secrets", "slices",
      "deployments", "statefulSets", "daemonSets"} \subseteq Kinds
BY DEF Lists, Kinds, KindOf, Again

\* What is chosen from a list member by member only grows.
LEMMA ChosenGrow ==
  ASSUME NEW s, NEW w, NEW k, NEW o, Worse(s, w, k, o), NEW l \in Lists,
         NEW S, NEW T, S \subseteq T, T \subseteq w[l]
  PROVE  /\ Cardinality(S) \in Nat /\ Cardinality(T) \in Nat
         /\ Cardinality(S) <= Cardinality(T)
<1>1. IsFiniteSet(T)
  BY ListsGrow, FS_Subset
<1> QED BY <1>1, PartIsFewer

\* The largest of a part is no larger.
LEMMA LargestGrows ==
  ASSUME NEW S, NEW T, IsFiniteSet(T), T \subseteq Nat, S \subseteq T
  PROVE  Largest(S) \in Nat /\ Largest(T) \in Nat /\ Largest(S) <= Largest(T)
<1>1. IsFiniteSet(S) /\ S \subseteq Nat
  BY FS_Subset
<1>2. Largest(S) \in Nat /\ Largest(S) \in S \cup {0} /\ Largest(T) \in Nat
  BY <1>1, LargestBounds
<1>3. \A y \in T : Largest(T) >= y
  BY LargestBounds
<1> QED BY <1>2, <1>3

\* One more object is one more to count.
LEMMA OneMore ==
  ASSUME NEW S, IsFiniteSet(S), NEW o, o \notin S
  PROVE  /\ Cardinality(S) \in Nat /\ IsFiniteSet(S \cup {o})
         /\ Cardinality(S \cup {o}) = Cardinality(S) + 1
BY FS_AddElement, FS_CardinalityType

-----------------------------------------------------------------------------
(* The scores.                                                             *)

\* The nodes.
LEMMA NodesFall ==
  ASSUME NEW s, NEW w, NEW k, NEW o, Worse(s, w, k, o)
  PROVE  /\ NodeStatusScore(w) <= NodeStatusScore(s)
         /\ NodeResourceScore(w) <= NodeResourceScore(s)
         /\ NotReady(s) \in Nat /\ NotReady(w) \in Nat /\ NotReady(s) <= NotReady(w)
         /\ UnderPressure(s) \in Nat /\ UnderPressure(w) \in Nat
         /\ UnderPressure(s) <= UnderPressure(w)
<1>1. "nodes" \in Lists /\ s["nodes"] \subseteq w["nodes"] /\ IsFiniteSet(w["nodes"])
  BY ListNames, ListsGrow
<1>2. NotReady(s) \in Nat /\ NotReady(w) \in Nat /\ NotReady(s) <= NotReady(w)
  <2> DEFINE S == {n \in s["nodes"] : ~n.ready}
             T == {n \in w["nodes"] : ~n.ready}
  <2>1. S \subseteq T /\ T \subseteq w["nodes"]
    BY <1>1
  <2>2. NotReady(s) = Cardinality(S) /\ NotReady(w) = Cardinality(T)
    BY DEF NotReady, Count
  <2> HIDE DEF S, T
  <2> QED BY <1>1, <2>1, <2>2, ChosenGrow
<1>3. /\ UnderPressure(s) \in Nat /\ UnderPressure(w) \in Nat
      /\ UnderPressure(s) <= UnderPressure(w)
  <2> DEFINE S == {n \in s["nodes"] : n.pressure}
             T == {n \in w["nodes"] : n.pressure}
  <2>1. S \subseteq T /\ T \subseteq w["nodes"]
    BY <1>1
  <2>2. UnderPressure(s) = Cardinality(S) /\ UnderPressure(w) = Cardinality(T)
    BY DEF UnderPressure, Count
  <2> HIDE DEF S, T
  <2> QED BY <1>1, <2>1, <2>2, ChosenGrow
<1>4. NodeStatusScore(w) <= NodeStatusScore(s)
  BY <1>2, <1>3, PenaltiesFall DEF NodeStatusScore
<1>5. \A n \in w["nodes"] : n.mem \in Nat /\ n.cpu \in Nat
  BY <1>1, ListNames, ListsGrow DEF WellFormed
<1> DEFINE mem(x) == {n.mem : n \in x["nodes"]}
           cpu(x) == {n.cpu : n \in x["nodes"]}
           full(x) == Count(x["nodes"], LAMBDA n : n.mem >= 85)
<1>6. Largest(mem(s)) \in Nat /\ Largest(mem(w)) \in Nat /\ Largest(mem(s)) <= Largest(mem(w))
  <2> DEFINE f == [n \in w["nodes"] |-> n.mem]
  <2>1. f \in Surjection(w["nodes"], mem(w))
    BY DEF Surjection
  <2>2. IsFiniteSet(mem(w)) /\ mem(w) \subseteq Nat /\ mem(s) \subseteq mem(w)
    BY <1>1, <1>5, <2>1, FS_Surjection
  <2> HIDE DEF mem
  <2> QED BY <2>2, LargestGrows
<1>7. Largest(cpu(s)) \in Nat /\ Largest(cpu(w)) \in Nat /\ Largest(cpu(s)) <= Largest(cpu(w))
  <2> DEFINE f == [n \in w["nodes"] |-> n.cpu]
  <2>1. f \in Surjection(w["nodes"], cpu(w))
    BY DEF Surjection
  <2>2. IsFiniteSet(cpu(w)) /\ cpu(w) \subseteq Nat /\ cpu(s) \subseteq cpu(w)
    BY <1>1, <1>5, <2>1, FS_Surjection
  <2> HIDE DEF cpu
  <2> QED BY <2>2, LargestGrows
<1>8. full(s) \in Nat /\ full(w) \in Nat /\ full(s) <= full(w)
  <2> DEFINE S == {n \in s["nodes"] : n.mem >= 85}
             T == {n \in w["nodes"] : n.mem >= 85}
  <2>1. S \subseteq T /\ T \subseteq w["nodes"]
    BY <1>1
  <2>2. full(s) = Cardinality(S) /\ full(w) = Cardinality(T)
    BY DEF Count
  <2> HIDE DEF S, T, full
  <2> QED BY <1>1, <2>1, <2>2, ChosenGrow
<1>9. /\ NodeResourceScore(s) = ScoreNodeResource(Largest(mem(s)), Largest(cpu(s)), full(s))
      /\ NodeResourceScore(w) = ScoreNodeResource(Largest(mem(w)), Largest(cpu(w)), full(w))
  BY DEF NodeResourceScore
<1> HIDE DEF mem, cpu, full
<1>10. NodeResourceScore(w) <= NodeResourceScore(s)
  BY <1>6, <1>7, <1>8, <1>9, PenaltiesFall
<1> QED BY <1>2, <1>3, <1>4, <1>10

\* The Pods: one more, and one more abnormal.
LEMMA PodsFall ==
  ASSUME NEW s, NEW w, NEW k, NEW o, Worse(s, w, k, o)
  PROVE  /\ PodScore(w) <= PodScore(s)
         /\ AbnormalPods(s) \subseteq AbnormalPods(w)
<1>1. "pods" \in Lists /\ KindOf("pods") = "pods"
  BY ListNames
<1>2. IsFiniteSet(s["pods"]) /\ s["pods"] \subseteq w["pods"]
  BY <1>1, ListsGrow
<1>3. AbnormalPods(s) \subseteq s["pods"] /\ AbnormalPods(s) \subseteq AbnormalPods(w)
  BY <1>2 DEF AbnormalPods
<1>4. /\ IsFiniteSet(AbnormalPods(s)) /\ Cardinality(AbnormalPods(s)) \in Nat
      /\ Cardinality(s["pods"]) \in Nat
      /\ Cardinality(AbnormalPods(s)) <= Cardinality(s["pods"])
  BY <1>2, <1>3, PartIsFewer
<1>5. CASE k = "pods"
  <2>1. w["pods"] = s["pods"] \cup {o} /\ o \notin s["pods"]
    BY <1>1, <1>5, ListsGrow
  <2>2. AbnormalReason(o) # ""
    BY <1>5 DEF Worse, InTrouble
  <2>3. AbnormalPods(w) = AbnormalPods(s) \cup {o} /\ o \notin AbnormalPods(s)
    BY <2>1, <2>2 DEF AbnormalPods
  <2>4. /\ Cardinality(w["pods"]) = Cardinality(s["pods"]) + 1
        /\ Cardinality(AbnormalPods(w)) = Cardinality(AbnormalPods(s)) + 1
    BY <1>2, <1>4, <2>1, <2>3, OneMore
  <2>5. Cardinality(w["pods"]) \in Nat /\ Cardinality(AbnormalPods(w)) \in Nat
    BY <1>4, <2>4
  <2> QED BY <1>3, <1>4, <2>4, <2>5, HealthyFalls DEF PodScore
<1>6. CASE k # "pods"
  <2>1. w["pods"] = s["pods"]
    BY <1>1, <1>6, ListsGrow
  <2>2. AbnormalPods(w) = AbnormalPods(s)
    BY <2>1 DEF AbnormalPods
  <2> QED BY <1>3, <1>4, <2>1, <2>2, HealthyFalls DEF PodScore
<1> QED BY <1>5, <1>6

\* A list of workloads that is within its limit is not cut.
LEMMA NoneCut ==
  ASSUME NEW s, NEW S, IsFiniteSet(S), AllUnready(s) = S, Cardinality(S) <= WorkloadLimit,
         \A x \in S : /\ x.kind \in WorkloadLists /\ x.name \in Nat
                      /\ x.desired \in Nat /\ x.ready \in Nat
  PROVE  Unhealthy(s) = S
<1> SUFFICES ASSUME NEW x \in S
             PROVE  Cardinality({y \in S : WorseWorkload(y, x)}) < WorkloadLimit
  BY DEF Unhealthy, Cut
<1>1. ~WorseWorkload(x, x)
  <2>1. PICK d \in Nat, r \in Nat, n \in Nat : d = x.desired /\ r = x.ready /\ n = x.name
    OBVIOUS
  <2>2. ~(d - r > d - r) /\ ~(n < n)
    BY <2>1
  <2>3. KindOrder(x.kind) \in Nat
    BY DEF KindOrder, WorkloadLists
  <2>4. ~(KindOrder(x.kind) < KindOrder(x.kind))
    BY <2>3
  <2>5. x.desired - x.ready = d - r
    BY <2>1
  <2> QED BY <2>1, <2>2, <2>4, <2>5, Zenon DEF WorseWorkload
<1> DEFINE before == {y \in S : WorseWorkload(y, x)}
<1>2. before \subseteq S \ {x}
  BY <1>1
<1> HIDE DEF before
<1>3. /\ IsFiniteSet(S \ {x}) /\ Cardinality(S \ {x}) = Cardinality(S) - 1
      /\ Cardinality(S) \in Nat
  BY FS_RemoveElement, FS_CardinalityType
<1>4. Cardinality(before) \in Nat /\ Cardinality(before) <= Cardinality(S) - 1
  BY <1>2, <1>3, PartIsFewer
<1>5. WorkloadLimit \in Nat
  BY CollectorsAssumption
<1> QED BY <1>3, <1>4, <1>5 DEF before

\* The workloads of a list that are not ready.
OfKind(s, l) == {x \in AllUnready(s) : x.kind = l}

\* They are the unready ones of that list.
LEMMA UnreadyOfKind ==
  ASSUME NEW s, NEW l \in WorkloadLists,
         \A j \in WorkloadLists : \A x \in s[j] : WellFormed(j, x)
  PROVE  OfKind(s, l) = {x \in s[l] : Unready(x)}
<1>1. \A j \in WorkloadLists : \A x \in s[j] : x.kind = j
  BY DEF WellFormed
<1> QED BY <1>1 DEF OfKind, AllUnready

\* The workloads: one more, and one more that is not ready, in its own list.
LEMMA WorkloadsFall ==
  ASSUME NEW s, NEW w, NEW k, NEW o, Worse(s, w, k, o),
         Cardinality(AllUnready(w)) <= WorkloadLimit
  PROVE  /\ WorkloadScore(w, "deployments") <= WorkloadScore(s, "deployments")
         /\ WorkloadScore(w, "statefulSets") <= WorkloadScore(s, "statefulSets")
<1>1. /\ WorkloadLists \subseteq Lists
      /\ \A l \in WorkloadLists : KindOf(l) = l
  BY ListNames DEF WorkloadLists
<1>2. \A l \in WorkloadLists : /\ IsFiniteSet(s[l]) /\ IsFiniteSet(w[l]) /\ s[l] \subseteq w[l]
                               /\ \A x \in w[l] : WellFormed(l, x)
                               /\ l # k => w[l] = s[l]
                               /\ l = k => w[l] = s[l] \cup {o} /\ o \notin s[l]
  BY <1>1, ListsGrow
<1>3. AllUnready(s) \subseteq AllUnready(w)
  BY <1>2 DEF AllUnready
<1>4. IsFiniteSet(AllUnready(w)) /\ IsFiniteSet(AllUnready(s))
  <2> DEFINE all == w["deployments"] \cup (w["statefulSets"] \cup w["daemonSets"])
  <2>1. IsFiniteSet(all)
    BY <1>2, FS_Union DEF WorkloadLists
  <2>2. AllUnready(w) \subseteq all
    BY DEF AllUnready, WorkloadLists
  <2> HIDE DEF all
  <2> QED BY <1>3, <2>1, <2>2, FS_Subset
<1>5. \A x \in AllUnready(w) : /\ x.kind \in WorkloadLists /\ x.name \in Nat
                               /\ x.desired \in Nat /\ x.ready \in Nat
  BY <1>2 DEF AllUnready, WellFormed
<1>6. Unhealthy(w) = AllUnready(w)
  BY <1>4, <1>5, NoneCut
<1>7. Unhealthy(s) = AllUnready(s)
  <2>1. Cardinality(AllUnready(s)) <= WorkloadLimit
    <3>1. WorkloadLimit \in Nat
      BY CollectorsAssumption
    <3> QED BY <1>3, <1>4, <3>1, PartIsFewer
  <2> QED BY <1>3, <1>4, <1>5, <2>1, NoneCut
<1>8. ASSUME NEW l \in WorkloadLists
      PROVE  WorkloadScore(w, l) <= WorkloadScore(s, l)
  <2>1. /\ WorkloadScore(w, l) = ScoreHealthy(Cardinality(w[l]), Cardinality(OfKind(w, l)))
        /\ WorkloadScore(s, l) = ScoreHealthy(Cardinality(s[l]), Cardinality(OfKind(s, l)))
    BY <1>6, <1>7 DEF WorkloadScore, Count, OfKind
  <2>2. /\ OfKind(s, l) = {x \in s[l] : Unready(x)}
        /\ OfKind(w, l) = {x \in w[l] : Unready(x)}
    BY <1>2, UnreadyOfKind
  <2>3. OfKind(s, l) \subseteq s[l]
    BY <2>2
  <2>4. /\ Cardinality(s[l]) \in Nat /\ Cardinality(OfKind(s, l)) \in Nat
        /\ IsFiniteSet(OfKind(s, l)) /\ Cardinality(OfKind(s, l)) <= Cardinality(s[l])
    BY <1>2, <2>3, PartIsFewer
  <2>5. CASE l = k
    <3>1. w[l] = s[l] \cup {o} /\ o \notin s[l]
      BY <1>2, <2>5
    <3>2. Unready(o)
      BY <2>5 DEF Worse, InTrouble
    <3>3. OfKind(w, l) = OfKind(s, l) \cup {o} /\ o \notin OfKind(s, l)
      BY <2>2, <3>1, <3>2
    <3>4. /\ Cardinality(w[l]) = Cardinality(s[l]) + 1
          /\ Cardinality(OfKind(w, l)) = Cardinality(OfKind(s, l)) + 1
      BY <1>2, <2>4, <3>1, <3>3, OneMore
    <3>5. Cardinality(w[l]) \in Nat /\ Cardinality(OfKind(w, l)) \in Nat
      BY <2>4, <3>4
    <3> QED BY <2>1, <2>4, <3>4, <3>5, HealthyFalls
  <2>6. CASE l # k
    <3>1. w[l] = s[l] /\ OfKind(w, l) = OfKind(s, l)
      BY <1>2, <2>2, <2>6
    <3> QED BY <2>1, <2>4, <3>1, HealthyFalls
  <2> QED BY <2>5, <2>6
<1> QED BY <1>8 DEF WorkloadLists

\* Claims and volumes.
LEMMA StorageScoreFalls ==
  ASSUME NEW s, NEW w, NEW k, NEW o, Worse(s, w, k, o)
  PROVE  StorageScore(w) <= StorageScore(s)
<1>1. /\ "pvcs" \in Lists /\ KindOf("pvcs") = "pvcs"
      /\ "pvs" \in Lists /\ KindOf("pvs") = "pvs"
  BY ListNames
<1>2. /\ s["pvcs"] \subseteq w["pvcs"] /\ s["pvs"] \subseteq w["pvs"]
      /\ IsFiniteSet(s["pvcs"]) /\ IsFiniteSet(w["pvcs"])
  BY <1>1, ListsGrow
<1>3. ASSUME NEW l \in {"pvcs", "pvs"}, NEW p
      PROVE  /\ InPhase(s[l], p) \in Nat /\ InPhase(w[l], p) \in Nat
             /\ InPhase(s[l], p) <= InPhase(w[l], p)
  <2> DEFINE S == {x \in s[l] : x.phase = p}
             T == {x \in w[l] : x.phase = p}
  <2>1. S \subseteq T /\ T \subseteq w[l] /\ l \in Lists
    BY <1>1, <1>2
  <2>2. InPhase(s[l], p) = Cardinality(S) /\ InPhase(w[l], p) = Cardinality(T)
    BY DEF InPhase, Count
  <2> HIDE DEF S, T
  <2> QED BY <2>1, <2>2, ChosenGrow
<1>4. InPhase(w["pvcs"], "Bound") = InPhase(s["pvcs"], "Bound")
  <2>1. {x \in w["pvcs"] : x.phase = "Bound"} = {x \in s["pvcs"] : x.phase = "Bound"}
    <3>1. CASE k = "pvcs"
      <4>1. w["pvcs"] = s["pvcs"] \cup {o}
        BY <1>1, <3>1, ListsGrow
      <4>2. o.phase # "Bound"
        BY <3>1 DEF Worse, InTrouble
      <4> QED BY <4>1, <4>2
    <3>2. CASE k # "pvcs"
      BY <1>1, <3>2, ListsGrow
    <3> QED BY <3>1, <3>2
  <2> QED BY <2>1 DEF InPhase, Count
<1>5. /\ Cardinality(s["pvcs"]) \in Nat /\ Cardinality(w["pvcs"]) \in Nat
      /\ Cardinality(s["pvcs"]) <= Cardinality(w["pvcs"])
  BY <1>2, PartIsFewer
<1> QED BY <1>3, <1>4, <1>5, StorageFalls
        DEF StorageScore, LostClaims, PendingClaims, FailedVolumes

\* Events, load balancers and Ingresses without an address.
LEMMA NetworkFalls ==
  ASSUME NEW s, NEW w, NEW k, NEW o, Worse(s, w, k, o)
  PROVE  /\ ScoreWarningEvents(Cardinality(WarningEvents(w, Now)))
              <= ScoreWarningEvents(Cardinality(WarningEvents(s, Now)))
         /\ ScoreNetwork(Cardinality(PendingServices(w, Now)), Cardinality(PendingIngresses(w, Now)))
              <= ScoreNetwork(Cardinality(PendingServices(s, Now)), Cardinality(PendingIngresses(s, Now)))
<1>1. {"events", "services", "ingresses"} \subseteq Lists
  BY ListNames
<1>2. /\ s["events"] \subseteq w["events"] /\ s["services"] \subseteq w["services"]
      /\ s["ingresses"] \subseteq w["ingresses"]
  BY <1>1, ListsGrow
<1>3. /\ Cardinality(WarningEvents(s, Now)) \in Nat /\ Cardinality(WarningEvents(w, Now)) \in Nat
      /\ Cardinality(WarningEvents(s, Now)) <= Cardinality(WarningEvents(w, Now))
  <2>1. WarningEvents(s, Now) \subseteq WarningEvents(w, Now) /\ WarningEvents(w, Now) \subseteq w["events"]
    BY <1>2 DEF WarningEvents
  <2> QED BY <1>1, <2>1, ChosenGrow
<1>4. /\ Cardinality(PendingServices(s, Now)) \in Nat /\ Cardinality(PendingServices(w, Now)) \in Nat
      /\ Cardinality(PendingServices(s, Now)) <= Cardinality(PendingServices(w, Now))
  <2>1. /\ PendingServices(s, Now) \subseteq PendingServices(w, Now)
        /\ PendingServices(w, Now) \subseteq w["services"]
    BY <1>2 DEF PendingServices
  <2> QED BY <1>1, <2>1, ChosenGrow
<1>5. /\ Cardinality(PendingIngresses(s, Now)) \in Nat /\ Cardinality(PendingIngresses(w, Now)) \in Nat
      /\ Cardinality(PendingIngresses(s, Now)) <= Cardinality(PendingIngresses(w, Now))
  <2>1. /\ PendingIngresses(s, Now) \subseteq PendingIngresses(w, Now)
        /\ PendingIngresses(w, Now) \subseteq w["ingresses"]
    BY <1>2 DEF PendingIngresses
  <2> QED BY <1>1, <2>1, ChosenGrow
<1> QED BY <1>3, <1>4, <1>5, PenaltiesFall

\* The Pods' settings.
LEMMA SecurityScoreFalls ==
  ASSUME NEW s, NEW w, NEW k, NEW o, Worse(s, w, k, o)
  PROVE  SecurityScore(w) <= SecurityScore(s)
<1> DEFINE count(x, i) == Cardinality(WithIssue(x, i))
<1>1. \A i : count(s, i) \in Nat /\ count(w, i) \in Nat /\ count(s, i) <= count(w, i)
  <2> SUFFICES ASSUME NEW i
               PROVE  count(s, i) \in Nat /\ count(w, i) \in Nat /\ count(s, i) <= count(w, i)
    OBVIOUS
  <2>1. "securityPods" \in Lists /\ s["securityPods"] \subseteq w["securityPods"]
    BY ListNames, ListsGrow
  <2>2. WithIssue(s, i) \subseteq WithIssue(w, i) /\ WithIssue(w, i) \subseteq w["securityPods"]
    BY <2>1 DEF WithIssue, LivePods
  <2> QED BY <2>1, <2>2, ChosenGrow
<1> DEFINE host(x) == count(x, "hostNetwork") + count(x, "hostPID") + count(x, "hostIPC")
<1>2. \A x : SecurityScore(x) =
        ScoreSecurity(count(x, "privileged"), host(x), count(x, "root"), count(x, "hostPath"),
                      count(x, "latest"), count(x, "noMemLimit"))
  BY DEF SecurityScore
<1> HIDE DEF count
<1>3. host(s) \in Nat /\ host(w) \in Nat /\ host(s) <= host(w)
  BY <1>1
<1> HIDE DEF host
<1> QED BY <1>1, <1>2, <1>3, SecurityFalls

-----------------------------------------------------------------------------
(* Certificates.                                                           *)

\* No two of the Ingresses have one name.
OneName(S) == \A i, j \in S : i.name = j.name => i = j

\* The members of a list before one of its names.
Before(S, x) == {y \in S : y.name < x.name}

\* The first n of them.
FirstNamed(n, S) == {x \in S : Cardinality(Before(S, x)) < n}

\* The first n of a list by name: one more member does not make them fewer, as
\* at most one drops out, for the new one.
LEMMA CutGrows ==
  ASSUME NEW n \in Nat, NEW S, NEW o, IsFiniteSet(S), OneName(S \cup {o}), o \notin S,
         \A x \in S \cup {o} : x.name \in Nat
  PROVE  /\ Cardinality(FirstNamed(n, S)) \in Nat /\ Cardinality(FirstNamed(n, S \cup {o})) \in Nat
         /\ Cardinality(FirstNamed(n, S)) <= Cardinality(FirstNamed(n, S \cup {o}))
<1> DEFINE T == S \cup {o}
           first(U) == FirstNamed(n, U)
           lost == first(S) \ first(T)
<1> USE DEF FirstNamed
<1>1. IsFiniteSet(T) /\ S \subseteq T /\ o \in T
  BY FS_AddElement
<1>2. IsFiniteSet(first(S)) /\ IsFiniteSet(first(T))
  BY <1>1, FS_Subset
<1>3. \A U, x : U \subseteq T => IsFiniteSet(Before(U, x)) /\ Cardinality(Before(U, x)) \in Nat
  <2> SUFFICES ASSUME NEW U, NEW x, U \subseteq T
               PROVE  IsFiniteSet(Before(U, x)) /\ Cardinality(Before(U, x)) \in Nat
    OBVIOUS
  <2>1. Before(U, x) \subseteq T
    BY DEF Before
  <2> HIDE DEF T
  <2> QED BY <1>1, <2>1, PartIsFewer
<1>4. ASSUME NEW x \in lost
      PROVE  o.name < x.name /\ Cardinality(Before(S, x)) = n - 1 /\ x \in S
  <2>1. x \in S /\ Cardinality(Before(S, x)) < n /\ ~(Cardinality(Before(T, x)) < n)
    OBVIOUS
  <2>2. o.name < x.name
    <3>1. SUFFICES ASSUME ~(o.name < x.name) PROVE FALSE
      OBVIOUS
    <3>2. Before(T, x) = Before(S, x)
      BY <3>1 DEF Before
    <3> QED BY <2>1, <3>2
  <2>3. Before(T, x) = Before(S, x) \cup {o} /\ o \notin Before(S, x)
    BY <2>2 DEF Before
  <2>4. Cardinality(Before(T, x)) = Cardinality(Before(S, x)) + 1
    BY <1>1, <1>3, <2>3, OneMore
  <2>5. Cardinality(Before(S, x)) \in Nat
    BY <1>1, <1>3
  <2> HIDE DEF T
  <2> QED BY <2>1, <2>2, <2>4, <2>5
<1>5. ASSUME NEW x \in lost, NEW y \in lost PROVE x = y
  <2>1. x \in S /\ y \in S /\ Cardinality(Before(S, x)) = Cardinality(Before(S, y))
    BY <1>4
  <2>2. ASSUME NEW u \in S, NEW v \in S, u.name < v.name
        PROVE  Cardinality(Before(S, u)) < Cardinality(Before(S, v))
    <3>1. Before(S, u) \cup {u} \subseteq Before(S, v) /\ u \notin Before(S, u)
      BY <2>2 DEF Before
    <3>2. /\ IsFiniteSet(Before(S, u)) /\ IsFiniteSet(Before(S, v))
          /\ Cardinality(Before(S, u)) \in Nat /\ Cardinality(Before(S, v)) \in Nat
      BY <1>1, <1>3
    <3>3. Cardinality(Before(S, u) \cup {u}) = Cardinality(Before(S, u)) + 1
      BY <3>1, <3>2, OneMore
    <3>4. Cardinality(Before(S, u) \cup {u}) <= Cardinality(Before(S, v))
      BY <3>1, <3>2, PartIsFewer
    <3> QED BY <3>2, <3>3, <3>4
  <2>3. ~(x.name < y.name) /\ ~(y.name < x.name)
    <3>1. Cardinality(Before(S, x)) \in Nat
      BY <1>1, <1>3
    <3>2. ~(Cardinality(Before(S, x)) < Cardinality(Before(S, y)))
          /\ ~(Cardinality(Before(S, y)) < Cardinality(Before(S, x)))
      BY <2>1, <3>1
    <3> QED BY <2>1, <2>2, <3>2
  <2>4. x.name = y.name
    BY <2>1, <2>3
  <2> QED BY <2>1, <2>4 DEF OneName
<1> DEFINE Fewer == /\ Cardinality(first(S)) \in Nat /\ Cardinality(first(T)) \in Nat
                    /\ Cardinality(first(S)) <= Cardinality(first(T))
<1>6. ASSUME lost = {} PROVE Fewer
  <2>1. first(S) \subseteq first(T)
    BY <1>6
  <2> HIDE DEF FirstNamed
  <2> QED BY <1>2, <2>1, PartIsFewer
<1>7. ASSUME lost # {} PROVE Fewer
  <2>1. PICK x \in lost : lost = {x}
    BY <1>5, <1>7
  <2>2. o \in first(T)
    <3>1. o.name < x.name /\ Cardinality(Before(S, x)) = n - 1 /\ x \in S
      BY <1>4
    <3>2. Before(T, o) \subseteq Before(S, x)
      <4> SUFFICES ASSUME NEW y \in T, y.name < o.name PROVE y \in S /\ y.name < x.name
        BY DEF Before
      <4>1. y # o
        OBVIOUS
      <4> QED BY <3>1, <4>1
    <3>3. /\ Cardinality(Before(T, o)) \in Nat /\ Cardinality(Before(S, x)) \in Nat
          /\ Cardinality(Before(T, o)) <= Cardinality(Before(S, x))
      BY <1>1, <1>3, <3>2, PartIsFewer
    <3>4. Cardinality(Before(T, o)) < n
      BY <3>1, <3>3
    <3> QED BY <1>1, <3>4
  <2>3. (first(S) \ {x}) \cup {o} \subseteq first(T) /\ o \notin first(S) \ {x}
    BY <2>1, <2>2
  <2>4. x \in first(S)
    BY <2>1
  <2> HIDE DEF FirstNamed
  <2>5. /\ IsFiniteSet(first(S) \ {x}) /\ Cardinality(first(S) \ {x}) = Cardinality(first(S)) - 1
        /\ Cardinality(first(S)) \in Nat /\ Cardinality(first(T)) \in Nat
    BY <1>2, <2>4, FS_RemoveElement, FS_CardinalityType
  <2>6. Cardinality((first(S) \ {x}) \cup {o}) = Cardinality(first(S) \ {x}) + 1
    BY <2>3, <2>5, OneMore
  <2>7. Cardinality((first(S) \ {x}) \cup {o}) <= Cardinality(first(T))
    BY <1>2, <2>3, PartIsFewer
  <2> QED BY <2>5, <2>6, <2>7
<1>8. Fewer
  <2> HIDE DEF lost, Fewer
  <2> QED BY <1>6, <1>7
<1> QED BY <1>8

\* The Secrets that are missing: one more Ingress, or one more Secret that no
\* Ingress names.
LEMMA MissingGrow ==
  ASSUME NEW s, NEW w, NEW k, NEW o, Worse(s, w, k, o), OneName(s["tlsIngresses"]),
         k = "secrets" => \A i \in s["tlsIngresses"] : i.secret # o.name
  PROVE  /\ Cardinality(MissingSecrets(s)) \in Nat /\ Cardinality(MissingSecrets(w)) \in Nat
         /\ Cardinality(MissingSecrets(s)) <= Cardinality(MissingSecrets(w))
<1> DEFINE missing(x) == {i \in x["tlsIngresses"] :
                            i.secret # 0 /\ i.secret \notin {t.name : t \in x["secrets"]}}
           first(T) == FirstNamed(SecretLimit, T)
<1>1. \A x : MissingSecrets(x) = first(missing(x))
  BY DEF MissingSecrets, Cut, Before, FirstNamed
<1>2. /\ "tlsIngresses" \in Lists /\ KindOf("tlsIngresses") = "ingresses"
      /\ "secrets" \in Lists /\ KindOf("secrets") = "secrets"
  BY ListNames
<1>3. missing(s) \subseteq s["tlsIngresses"] /\ IsFiniteSet(s["tlsIngresses"])
  BY <1>2, ListsGrow
<1>4. missing(w) = missing(s) \/ (missing(w) = missing(s) \cup {o} /\ k = "ingresses")
  <2>1. CASE k = "ingresses"
    <3>1. w["tlsIngresses"] = s["tlsIngresses"] \cup {o} /\ w["secrets"] = s["secrets"]
      BY <1>2, <2>1, ListsGrow
    <3> QED BY <2>1, <3>1
  <2>2. CASE k = "secrets"
    <3>1. w["tlsIngresses"] = s["tlsIngresses"] /\ w["secrets"] = s["secrets"] \cup {o}
      BY <1>2, <2>2, ListsGrow
    <3>2. {t.name : t \in w["secrets"]} = {t.name : t \in s["secrets"]} \cup {o.name}
      BY <3>1
    <3>3. missing(w) = missing(s)
      BY <2>2, <3>1, <3>2
    <3> QED BY <3>3
  <2>3. CASE k \notin {"ingresses", "secrets"}
    <3>1. w["tlsIngresses"] = s["tlsIngresses"] /\ w["secrets"] = s["secrets"]
      BY <1>2, <2>3, ListsGrow
    <3> QED BY <3>1
  <2> QED BY <2>1, <2>2, <2>3
<1> HIDE DEF missing
<1>5. IsFiniteSet(missing(s))
  BY <1>3, FS_Subset
<1>6. ASSUME missing(w) = missing(s)
      PROVE  /\ Cardinality(first(missing(s))) \in Nat /\ Cardinality(first(missing(w))) \in Nat
             /\ Cardinality(first(missing(s))) <= Cardinality(first(missing(w)))
  <2>1. first(missing(s)) \subseteq missing(s)
    BY DEF FirstNamed
  <2>2. Cardinality(first(missing(s))) \in Nat
    <3> HIDE DEF FirstNamed
    <3> QED BY <1>5, <2>1, PartIsFewer
  <2> QED BY <1>6, <2>2
<1>7. ASSUME missing(w) = missing(s) \cup {o}, k = "ingresses"
      PROVE  /\ Cardinality(first(missing(s))) \in Nat /\ Cardinality(first(missing(w))) \in Nat
             /\ Cardinality(first(missing(s))) <= Cardinality(first(missing(w)))
  <2>1. \A x \in s["tlsIngresses"] : x.name # o.name /\ x.name \in Nat
    <3>1. \A x \in s["tlsIngresses"] : WellFormed("ingresses", x)
      BY <1>2, ListsGrow
    <3>2. \A x \in s["tlsIngresses"] : x.name # o.name
      BY <1>2, <1>7 DEF Worse
    <3> QED BY <3>1, <3>2 DEF WellFormed
  <2>2. o.name \in Nat
    BY <1>7 DEF Worse, WellFormed
  <2>3. \A x \in missing(s) \cup {o} : x.name \in Nat
    BY <1>3, <2>1, <2>2
  <2>4. OneName(missing(s) \cup {o}) /\ o \notin missing(s)
    BY <1>3, <2>1 DEF OneName
  <2>5. SecretLimit \in Nat
    BY CollectorsAssumption
  <2> QED BY <1>5, <1>7, <2>3, <2>4, <2>5, CutGrows
<1>8. QED
  BY <1>1, <1>4, <1>6, <1>7

\* The certificates: each finding looks at one Secret only.
LEMMA CertScoreFalls ==
  ASSUME NEW s, NEW w, NEW k, NEW o, Worse(s, w, k, o), OneName(s["tlsIngresses"]),
         k = "secrets" => \A i \in s["tlsIngresses"] : i.secret # o.name
  PROVE  /\ CertScore(w, Now) <= CertScore(s, Now)
         /\ Expired(s, Now) \subseteq Expired(w, Now)
<1>1. "secrets" \in Lists /\ s["secrets"] \subseteq w["secrets"]
  BY ListNames, ListsGrow
<1>2. TLSSecrets(s) \subseteq TLSSecrets(w) /\ TLSSecrets(w) \subseteq w["secrets"]
  BY <1>1 DEF TLSSecrets
<1>3. /\ Readable(s) \subseteq Readable(w) /\ Readable(w) \subseteq w["secrets"]
      /\ Readable(s) = Readable(w) \cap s["secrets"]
  BY <1>1, <1>2 DEF Readable, TLSSecrets
<1>4. /\ Expired(s, Now) \subseteq Expired(w, Now) /\ Expired(w, Now) \subseteq w["secrets"]
      /\ Expired(s, Now) = Expired(w, Now) \cap s["secrets"]
  BY <1>1, <1>3 DEF Expired
<1>5. \A d : /\ ExpiringWithin(w, Now, d) \subseteq w["secrets"]
             /\ ExpiringWithin(s, Now, d) = ExpiringWithin(w, Now, d) \cap s["secrets"]
  BY <1>1, <1>3, <1>4 DEF ExpiringWithin
<1>6. /\ Expiring7(s, Now) \subseteq Expiring7(w, Now) /\ Expiring7(w, Now) \subseteq w["secrets"]
      /\ Expiring30(s, Now) \subseteq Expiring30(w, Now) /\ Expiring30(w, Now) \subseteq w["secrets"]
  <2>1. Expiring7(s, Now) = Expiring7(w, Now) \cap s["secrets"] /\ Expiring7(w, Now) \subseteq w["secrets"]
    BY <1>5 DEF Expiring7
  <2>2. Expiring30(s, Now) = Expiring30(w, Now) \cap s["secrets"]
        /\ Expiring30(w, Now) \subseteq w["secrets"]
    BY <1>5, <2>1 DEF Expiring30
  <2> QED BY <2>1, <2>2
<1> DEFINE Fewer(S, T) == /\ Cardinality(S) \in Nat /\ Cardinality(T) \in Nat
                          /\ Cardinality(S) <= Cardinality(T)
<1>7. Fewer(TLSSecrets(s), TLSSecrets(w)) /\ Fewer(Expired(s, Now), Expired(w, Now))
  BY <1>1, <1>2, <1>4, ChosenGrow
<1>8. Fewer(Expiring7(s, Now), Expiring7(w, Now)) /\ Fewer(Expiring30(s, Now), Expiring30(w, Now))
  BY <1>1, <1>6, ChosenGrow
<1>9. Fewer(MissingSecrets(s), MissingSecrets(w))
  BY MissingGrow
<1>10. CertScore(w, Now) <= CertScore(s, Now)
  BY <1>7, <1>8, <1>9, CertsFall DEF CertScore
<1> QED BY <1>4, <1>10

-----------------------------------------------------------------------------
(* The overall score and the level.                                        *)

\* The weighted mean falls with every one of the scores.
LEMMA WeightedFalls ==
  ASSUME NEW a \in Int, NEW b \in Int, NEW c \in Int, NEW d \in Int, NEW e \in Int,
         NEW f \in Int, NEW g \in Int, NEW h \in Int, NEW i \in Int, NEW j \in Int,
         NEW a2 \in Nat, NEW b2 \in Nat, NEW c2 \in Nat, NEW d2 \in Nat, NEW e2 \in Nat,
         NEW f2 \in Nat, NEW g2 \in Nat, NEW h2 \in Nat, NEW i2 \in Nat, NEW j2 \in Nat,
         a2 <= a, b2 <= b, c2 <= c, d2 <= d, e2 <= e, f2 <= f, g2 <= g, h2 <= h, i2 <= i, j2 <= j
  PROVE  Weighted(a2, b2, c2, d2, e2, f2, g2, h2, i2, j2) <= Weighted(a, b, c, d, e, f, g, h, i, j)
<1> DEFINE sum2 == 16 * a2 + 16 * b2 + 16 * c2 + 16 * d2 + 8 * e2 + 8 * f2 + 8 * g2
                   + 4 * h2 + 4 * i2 + 4 * j2
           sum  == 16 * a + 16 * b + 16 * c + 16 * d + 8 * e + 8 * f + 8 * g
                   + 4 * h + 4 * i + 4 * j
<1>1. sum2 \in Nat /\ sum \in Nat /\ sum2 <= sum
  OBVIOUS
<1>2. /\ Weighted(a2, b2, c2, d2, e2, f2, g2, h2, i2, j2) = Clamp100(sum2 \div 100)
      /\ Weighted(a, b, c, d, e, f, g, h, i, j) = Clamp100(sum \div 100)
  BY DEF Weighted
<1> HIDE DEF sum2, sum
<1>3. sum2 \div 100 <= sum \div 100 /\ sum2 \div 100 \in Int /\ sum \div 100 \in Int
  BY <1>1, QuotientGrows
<1> QED BY <1>2, <1>3, ClampGrows

\* So does the overall score.
LEMMA OverallFalls ==
  ASSUME NEW r \in [ScoreNames -> Scores], NEW q \in [ScoreNames -> Scores],
         \A n \in ScoreNames : q[n] <= r[n]
  PROVE  ScoreOverall(q) <= ScoreOverall(r)
<1>1. \A x : ScoreOverall(x) = Weighted(x.nodeStatus, x.nodeResource, x.pods, x.deployments,
                x.statefulSets, x.storage, x.security, x.events, x.network, x.certs)
  BY Zenon DEF ScoreOverall, Weighted
<1>2. /\ "nodeStatus" \in ScoreNames /\ "nodeResource" \in ScoreNames /\ "pods" \in ScoreNames
      /\ "deployments" \in ScoreNames /\ "statefulSets" \in ScoreNames /\ "storage" \in ScoreNames
      /\ "security" \in ScoreNames /\ "events" \in ScoreNames /\ "network" \in ScoreNames
      /\ "certs" \in ScoreNames
  BY DEF ScoreNames
<1>3. \A n \in ScoreNames : \E u \in Nat, v \in Nat : q[n] = u /\ r[n] = v /\ u <= v
  <2>1. \A n \in ScoreNames : q[n] \in Scores /\ r[n] \in Scores
    OBVIOUS
  <2>2. Scores \subseteq Nat
    BY DEF Scores, Full
  <2> QED BY <2>1, <2>2
<1>4. PICK a2 \in Nat, a \in Nat : q.nodeStatus = a2 /\ r.nodeStatus = a /\ a2 <= a
  BY <1>2, <1>3, Zenon
<1>5. PICK b2 \in Nat, b \in Nat : q.nodeResource = b2 /\ r.nodeResource = b /\ b2 <= b
  BY <1>2, <1>3, Zenon
<1>6. PICK c2 \in Nat, c \in Nat : q.pods = c2 /\ r.pods = c /\ c2 <= c
  BY <1>2, <1>3, Zenon
<1>7. PICK d2 \in Nat, d \in Nat : q.deployments = d2 /\ r.deployments = d /\ d2 <= d
  BY <1>2, <1>3, Zenon
<1>8. PICK e2 \in Nat, e \in Nat : q.statefulSets = e2 /\ r.statefulSets = e /\ e2 <= e
  BY <1>2, <1>3, Zenon
<1>9. PICK f2 \in Nat, f \in Nat : q.storage = f2 /\ r.storage = f /\ f2 <= f
  BY <1>2, <1>3, Zenon
<1>10. PICK g2 \in Nat, g \in Nat : q.security = g2 /\ r.security = g /\ g2 <= g
  BY <1>2, <1>3, Zenon
<1>11. PICK h2 \in Nat, h \in Nat : q.events = h2 /\ r.events = h /\ h2 <= h
  BY <1>2, <1>3, Zenon
<1>12. PICK i2 \in Nat, i \in Nat : q.network = i2 /\ r.network = i /\ i2 <= i
  BY <1>2, <1>3, Zenon
<1>13. PICK j2 \in Nat, j \in Nat : q.certs = j2 /\ r.certs = j /\ j2 <= j
  BY <1>2, <1>3, Zenon
<1>14. Weighted(a2, b2, c2, d2, e2, f2, g2, h2, i2, j2) <= Weighted(a, b, c, d, e, f, g, h, i, j)
  <2>1. \A n \in Nat : n \in Int
    OBVIOUS
  <2> QED BY <1>4, <1>5, <1>6, <1>7, <1>8, <1>9, <1>10, <1>11, <1>12, <1>13, <2>1, WeightedFalls
<1> QED
  BY <1>1, <1>4, <1>5, <1>6, <1>7, <1>8, <1>9, <1>10, <1>11, <1>12, <1>13, <1>14, Zenon

\* No score of the report rises.
LEMMA ScoresFall ==
  ASSUME NEW s, NEW w, NEW k, NEW o, Worse(s, w, k, o), OneName(s["tlsIngresses"]),
         k = "secrets" => \A i \in s["tlsIngresses"] : i.secret # o.name,
         Cardinality(AllUnready(w)) <= WorkloadLimit
  PROVE  ScoreOverall(ReportScores(w, Now)) <= ScoreOverall(ReportScores(s, Now))
<1> DEFINE q == ReportScores(w, Now)
           r == ReportScores(s, Now)
<1>1. \A l \in Lists : /\ IsFiniteSet(s[l]) /\ \A x \in s[l] : WellFormed(KindOf(l), x)
                       /\ IsFiniteSet(w[l]) /\ \A x \in w[l] : WellFormed(KindOf(l), x)
  BY ListsGrow
<1>2. r \in [ScoreNames -> Scores] /\ q \in [ScoreNames -> Scores]
  BY <1>1, ScoresTyped
<1>3. /\ q["nodeStatus"] <= r["nodeStatus"] /\ q["nodeResource"] <= r["nodeResource"]
      /\ q["pods"] <= r["pods"]
  BY NodesFall, PodsFall DEF ReportScores
<1>4. q["deployments"] <= r["deployments"] /\ q["statefulSets"] <= r["statefulSets"]
  BY WorkloadsFall DEF ReportScores
<1>5. q["storage"] <= r["storage"] /\ q["events"] <= r["events"] /\ q["network"] <= r["network"]
  BY StorageScoreFalls, NetworkFalls DEF ReportScores
<1>6. q["security"] <= r["security"] /\ q["certs"] <= r["certs"]
  BY SecurityScoreFalls, CertScoreFalls DEF ReportScores
<1> HIDE DEF q, r
<1>7. \A n \in ScoreNames : q[n] <= r[n]
  BY <1>3, <1>4, <1>5, <1>6 DEF ScoreNames
<1>8. ScoreOverall(q) <= ScoreOverall(r)
  BY <1>2, <1>7, OverallFalls
<1> QED BY <1>8 DEF q, r

\* Nor does the level fall: what raises it is only looked for in longer lists.
LEMMA LevelRises ==
  ASSUME NEW s, NEW w, NEW k, NEW o, Worse(s, w, k, o)
  PROVE  Rank(Level(s)) <= Rank(Level(w))
<1>1. /\ NotReady(s) \in Nat /\ NotReady(w) \in Nat /\ NotReady(s) <= NotReady(w)
      /\ UnderPressure(s) \in Nat /\ UnderPressure(w) \in Nat
      /\ UnderPressure(s) <= UnderPressure(w)
  BY NodesFall
<1>2. /\ NotReady(s) > 0 => NotReady(w) > 0
      /\ UnderPressure(s) > 0 => UnderPressure(w) > 0
  BY <1>1
<1>3. AbnormalPods(s) # {} => AbnormalPods(w) # {}
  BY PodsFall
<1>4. UnhealthyComponents(s) # {} => UnhealthyComponents(w) # {}
  <2>1. "systemPods" \in Lists /\ s["systemPods"] \subseteq w["systemPods"]
    BY ListNames, ListsGrow
  <2>2. UnhealthyComponents(s) \subseteq UnhealthyComponents(w)
    BY <2>1 DEF UnhealthyComponents
  <2> QED BY <2>2
<1>5. Expired(s, Now) # {} => Expired(w, Now) # {}
  <2>1. "secrets" \in Lists /\ s["secrets"] \subseteq w["secrets"]
    BY ListNames, ListsGrow
  <2>2. Expired(s, Now) \subseteq Expired(w, Now)
    BY <2>1 DEF Expired, Readable, TLSSecrets
  <2> QED BY <2>2
<1>6. EmptyServices(s, Now) # {} => EmptyServices(w, Now) # {}
  <2>1. /\ "endpointServices" \in Lists /\ s["endpointServices"] \subseteq w["endpointServices"]
        /\ "slices" \in Lists /\ KindOf("slices") = "slices"
    BY ListNames, ListsGrow
  <2>2. {x \in w["slices"] : x.ready} = {x \in s["slices"] : x.ready}
    <3>1. CASE k = "slices"
      <4>1. w["slices"] = s["slices"] \cup {o}
        BY <2>1, <3>1, ListsGrow
      <4>2. ~o.ready
        BY <3>1 DEF Worse, InTrouble
      <4> QED BY <4>1, <4>2
    <3>2. CASE k # "slices"
      BY <2>1, <3>2, ListsGrow
    <3> QED BY <3>1, <3>2
  <2>3. ServedServices(w) = ServedServices(s)
    BY <2>2, Zenon DEF ServedServices
  <2>4. EmptyServices(s, Now) \subseteq EmptyServices(w, Now)
    BY <2>1, <2>3 DEF EmptyServices
  <2> QED BY <2>4
<1>7. /\ Level(s) = "Critical" => Level(w) = "Critical"
      /\ Level(s) = "Warning" => Level(w) \in {"Warning", "Critical"}
      /\ Level(s) \in Levels /\ Level(w) \in Levels
  BY <1>2, <1>3, <1>4, <1>5, <1>6, Zenon DEF Level, Levels
<1>8. Rank("Success") = 0 /\ Rank("Warning") = 1 /\ Rank("Critical") = 2
  BY DEF Rank
<1> QED BY <1>7, <1>8 DEF Levels

-----------------------------------------------------------------------------
(* The theorem.                                                            *)

\* No two Ingresses have one name, in the cluster or in a list.
NamesInv ==
  /\ OneName(cluster["ingresses"])
  /\ OneName(seen["ingresses"]) /\ OneName(seen["tlsIngresses"])

\* They have names of their own at the start.
LEMMA NamesInit == Init => NamesInv
<1> SUFFICES ASSUME Init PROVE NamesInv
  OBVIOUS
<1>1. OneName(cluster["ingresses"])
  BY ClustersAssumption DEF Init, OneName
<1>2. seen["ingresses"] = {} /\ seen["tlsIngresses"] = {}
  BY ListNames DEF Init
<1> QED BY <1>1, <1>2 DEF NamesInv, OneName

\* What appears takes no name in use; lists hold what the cluster does.
LEMMA NamesNext == ObjectsInv /\ NamesInv /\ [Next]_vars => NamesInv'
<1> SUFFICES ASSUME ObjectsInv, NamesInv, [Next]_vars PROVE NamesInv'
  OBVIOUS
<1>1. CASE UNCHANGED <<cluster, seen>>
  BY <1>1 DEF NamesInv
<1>2. CASE CollectStep
  <2>1. PICK step \in Steps, next \in Stages : Read(step, next)
    BY <1>2, CollectReads
  <2>2. cluster' = cluster
    BY <2>1 DEF Read
  <2>3. ASSUME NEW l \in {"ingresses", "tlsIngresses"}
        PROVE  seen'[l] = seen[l] \/ seen'[l] = cluster["ingresses"]
    <3>1. l \in Lists /\ KindOf(l) = "ingresses"
      BY ListNames
    <3> QED BY <2>1, <3>1 DEF Read
  <2> QED BY <2>2, <2>3 DEF NamesInv
<1>3. ASSUME NEW k \in Changing, NEW objects, Change(k, objects),
             k = "ingresses" => OneName(objects)
      PROVE  NamesInv'
  <2>1. cluster' = [cluster EXCEPT ![k] = objects] /\ seen' = seen
    BY <1>3 DEF Change
  <2>2. "ingresses" \in DOMAIN cluster
    BY ListNames DEF ObjectsInv
  <2>3. OneName(cluster'["ingresses"])
    <3>1. CASE k = "ingresses"
      BY <1>3, <2>1, <2>2, <3>1
    <3>2. CASE k # "ingresses"
      BY <2>1, <2>2, <3>2 DEF NamesInv
    <3> QED BY <3>1, <3>2
  <2> QED BY <2>1, <2>3 DEF NamesInv
<1>4. ASSUME NEW k \in Changing, NEW o \in Newcomers[k], Appear(k, o) PROVE NamesInv'
  <2>1. k = "ingresses" => OneName(cluster[k] \cup {o})
    BY <1>4 DEF Appear, NamesInv, OneName
  <2> QED BY <1>3, <1>4, <2>1 DEF Appear
<1>5. ASSUME NEW k \in Changing, NEW o \in cluster[k], Vanish(k, o) PROVE NamesInv'
  <2>1. k = "ingresses" => OneName(cluster[k] \ {o})
    BY DEF NamesInv, OneName
  <2> QED BY <1>3, <1>5, <2>1 DEF Vanish
<1> QED
  BY <1>1, <1>2, <1>4, <1>5
  DEF Next, RunStep, Start, AnalyzePods, BuildReport, RenderReport, SendReport, ContextEnds, vars

\* Whatever a cluster holds and whatever joins it in trouble, for every limit of
\* the lists and every age they look at: the report's overall score does not
\* rise for it, and its level does not fall.
THEOREM TroubleNeverHelped == Spec => []TroubleNeverHelps
<1>1. RunInv /\ ObjectsInv /\ NamesInv => TroubleNeverHelps
  <2> SUFFICES ASSUME RunInv, ObjectsInv, NamesInv, Finished,
                      NEW k \in Kinds, NEW o \in Troubles[k],
                      \A l \in Lists : KindOf(l) = k => \A x \in seen[l] : x.name # o.name,
                      k = "secrets" => \A i \in seen["tlsIngresses"] : i.secret # o.name,
                      Cardinality(AllUnready(Plus(seen, k, o))) <= WorkloadLimit
               PROVE  /\ ScoreOverall(ReportScores(Plus(seen, k, o), Now)) <= report.overall
                      /\ Rank(Level(Plus(seen, k, o))) >= Rank(Level(seen))
    BY DEF TroubleNeverHelps
  <2> DEFINE w == Plus(seen, k, o)
  <2>1. Worse(seen, w, k, o)
    <3>1. WellFormed(k, o) /\ InTrouble(k, o)
      BY TroublesAssumption
    <3>2. \A l \in Lists : w[l] = IF KindOf(l) = k THEN seen[l] \cup {o} ELSE seen[l]
      BY DEF Plus
    <3>3. \A l \in Lists : IsFiniteSet(seen[l]) /\ \A x \in seen[l] : WellFormed(KindOf(l), x)
      BY DEF ObjectsInv
    <3> HIDE DEF w
    <3> QED BY <3>1, <3>2, <3>3 DEF Worse
  <2> HIDE DEF w
  <2>2. OneName(seen["tlsIngresses"])
    BY DEF NamesInv
  <2>3. report.overall = ScoreOverall(ReportScores(seen, Now))
    BY DEF RunInv, Finished, ReportOf
  <2>4. ScoreOverall(ReportScores(w, Now)) <= ScoreOverall(ReportScores(seen, Now))
    BY <2>1, <2>2, ScoresFall DEF w
  <2>5. Rank(Level(seen)) <= Rank(Level(w))
    BY <2>1, LevelRises
  <2>6. Rank(Level(w)) >= Rank(Level(seen))
    <3>1. \A l : Level(l) \in Levels
      BY DEF Level, Levels
    <3>2. \A l \in Levels : Rank(l) \in Nat
      BY DEF Levels, Rank
    <3>3. Rank(Level(w)) \in Nat /\ Rank(Level(seen)) \in Nat
      BY <3>1, <3>2
    <3> QED BY <2>5, <3>3
  <2> QED BY <2>3, <2>4, <2>6 DEF w
<1> QED BY <1>1, ReportsAlways, ObjectsInit, ObjectsNext, NamesInit, NamesNext, PTL DEF Spec

=============================================================================
