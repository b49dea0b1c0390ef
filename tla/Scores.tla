--------------------------------- MODULE Scores ---------------------------------
(***************************************************************************)
(* The health scores of an inspection report (pkg/inspection/runner.go and *)
(* runner_extras.go).  The code computes with floats and prints one        *)
(* decimal; here a score is an integer number of hundredths, rounded down. *)
(***************************************************************************)
EXTENDS Integers

Full   == 10000
Scores == 0..Full

\* Mutant: scores are only kept from above.
ClampAbove(v) == IF v > Full THEN Full ELSE v

Clamp100(v) == IF v < 0 THEN 0 ELSE IF v > Full THEN Full ELSE v

Monus(a, b) == IF a > b THEN a - b ELSE 0

\* The share of part in whole.
Share(part, whole) == Clamp100((Full * part) \div whole)

ScoreNodeStatus(notReady, pressure) ==
  Clamp100(Full - 3000 * notReady - 1000 * pressure)

\* The worst memory and CPU percentages and the nodes at 85 percent memory.
ScoreNodeResource(worstMem, worstCPU, over85) ==
  Clamp100(Full - 80 * Monus(worstMem, 70) - 30 * Monus(worstCPU, 80) - 300 * over85)

\* Mutant: the share of the bad ones.
ShareOfBad(total, bad) == IF total = 0 THEN Full ELSE Share(bad, total)

\* Pods that are not abnormal, and workloads of a kind that are not unhealthy.
ScoreHealthy(total, bad) ==
  IF total = 0 THEN Full ELSE Share(Monus(total, bad), total)

ScoreStorage(total, bound, lost, pending, pvFailed) ==
  IF total = 0 THEN Full
  ELSE Clamp100(Share(bound, total) - 1500 * lost - 500 * pending - 2000 * pvFailed)

\* Half a point for each event, sixty points at most.
ScoreWarningEvents(total) ==
  Clamp100(Full - IF 50 * total > 6000 THEN 6000 ELSE 50 * total)

ScoreNetwork(lbPending, ingressPending) ==
  Clamp100(Full - 2000 * lbPending - 2000 * ingressPending)

ScoreSecurity(privileged, hostNamespaces, root, hostPath, latest, noMemLimit) ==
  Clamp100(Full - 800 * privileged - 400 * hostNamespaces - 200 * root
                - 200 * hostPath - 50 * latest - 20 * noMemLimit)

ScoreCerts(tlsSecrets, expired, expiring7, expiring30, missing) ==
  IF tlsSecrets = 0 THEN Full
  ELSE Clamp100(Full - 4000 * expired - 2500 * expiring7 - 800 * expiring30 - 500 * missing)

\* The weights of the ten scores add up to one hundred.
ScoreOverall(s) ==
  Clamp100(( 16 * s.nodeStatus + 16 * s.nodeResource + 16 * s.pods + 16 * s.deployments
           + 8 * s.statefulSets + 8 * s.storage + 8 * s.security
           + 4 * s.events + 4 * s.network + 4 * s.certs) \div 100)

=============================================================================
