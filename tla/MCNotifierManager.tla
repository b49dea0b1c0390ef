--------------------------- MODULE MCNotifierManager ---------------------------
(* Instances of NotifierManager for TLC. *)
EXTENDS NotifierManager, TLC

CONSTANTS s1, s2, c1, c2, k1, k2, MinCount, MaxItems

Msg(k, ns, kind, level, force) ==
  [key |-> k, namespace |-> ns, kind |-> kind, level |-> level, force |-> force]

\* An alert, a report that is forced past the level filter, and a message the
\* namespace filter refuses although it is forced.
SomeMessages ==
  {Msg(k1, "app", "Pod", "Warning", FALSE),
   Msg(k2, "app", "Cluster", "Success", TRUE),
   Msg(k1, "kube-system", "Pod", "Critical", TRUE)}

SomeFilters ==
  [minLevel |-> "", includeNamespaces |-> {"app"}, excludeNamespaces |-> {"kube-system"},
   includeResources |-> {}, excludeResources |-> {},
   cooldown |-> 2, maxPerMinute |-> 2, digestInterval |-> 0,
   digestMinCount |-> MinCount, digestMaxItems |-> MaxItems]

Symmetry == Permutations({s1, s2})

=============================================================================
