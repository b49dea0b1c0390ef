---------------------------- MODULE MCEventIncident ----------------------------
(* Instances of EventIncident for TLC. *)
EXTENDS EventIncident, TLC

CONSTANTS e1, e2

Describe(type, kind, object, reason, words, dated, long) ==
  [type |-> type, kind |-> kind, object |-> object, reason |-> reason,
   words |-> words, dated |-> dated, long |-> long]

\* Descriptions the controller tells apart.
SomeDescriptions ==
  {Describe("Normal",  "Pod",  "p", "killing", {"oomkilled"}, "last", FALSE),
   Describe("Warning", "Pod",  "p", "unhealthy", {"readiness probe failed"}, "last", FALSE),
   Describe("Warning", "Pod",  "q", "backoff", {"restarting"}, "last", TRUE),
   Describe("Warning", "Pod",  "p", "failed", {"image"}, "first", FALSE),
   Describe("Warning", "Node", "n", "evicted", {"memorypressure", "diskpressure"}, "never", FALSE),
   Describe("Warning", "Job",  "j", "failed", {"image"}, "last", FALSE)}

Triple(object, trigger, reason) == <<object, trigger, reason>>

=============================================================================
