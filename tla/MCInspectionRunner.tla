--------------------------- MODULE MCInspectionRunner ---------------------------
(* Instances of InspectionRunner for TLC. *)
EXTENDS InspectionRunner

Minutes == 0..MinutesPerHour \cup {Any}
Hours   == 0..HoursPerDay \cup {Any}

AllExpressions == [minute: Minutes, hour: Hours, rest: {"stars", "other"}]

\* A minute of every hour, every minute, or a minute of an hour; not every
\* minute of an hour.
Everyday == {e \in AllExpressions : e.minute = Any => e.hour = Any \/ e.rest = "other"}

=============================================================================
