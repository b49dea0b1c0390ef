----------------------------- MODULE MCAIIncident -----------------------------
(* Instances of AIIncident for TLC. *)
EXTENDS AIIncident, TLC

CONSTANTS i1, i2

OneIncident  == {i1}
TwoIncidents == {i1, i2}

=============================================================================
