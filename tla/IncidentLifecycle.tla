---------------------------- MODULE IncidentLifecycle ----------------------------
(***************************************************************************)
(* What the AIIncident controller promises to whoever watches an incident: *)
(* its phases follow one another as the API describes them, for a reader   *)
(* that may be one version behind.  There is no worker here, no queue and  *)
(* no cache, only the stored status and the versions of it that somebody   *)
(* may still act on.  AIIncident implements it.                            *)
(***************************************************************************)
EXTENDS Integers

CONSTANTS Incidents, RetryLimit

VARIABLES
  status,  \* by incident, the phase and the retry count that are stored
  views    \* by incident, the versions somebody may still act on

vars == <<status, views>>

Gone == [phase |-> "absent", retry |-> 0]
New  == [phase |-> "",       retry |-> 0]

\* The documented life of an incident.
Lifecycle ==
  {<<"", "Analyzing">>, <<"Pending", "Analyzing">>, <<"Analyzing", "Analyzed">>,
   <<"Analyzing", "Failed">>, <<"Analyzed", "Notifying">>, <<"Notifying", "Resolved">>,
   <<"Failed", "Pending">>}

Init ==
  /\ status = [i \in Incidents |-> Gone]
  /\ views  = [i \in Incidents |-> {Gone}]

\* A user creates or deletes the object.
Stored(i, s) ==
  /\ status' = [status EXCEPT ![i] = s]
  /\ views'  = [views EXCEPT ![i] = @ \cup {s}]

Create(i) == status[i] = Gone /\ Stored(i, New)
Delete(i) == status[i] # Gone /\ Stored(i, Gone)

\* Old versions are forgotten.
CatchUp(i) ==
  /\ \E known \in SUBSET views[i] : /\ status[i] \in known
                                    /\ views' = [views EXCEPT ![i] = known]
  /\ UNCHANGED status

\* The controller takes the step that follows a version it saw.  Whoever took
\* it then knows the version it replaced.
Advance(i) ==
  /\ status[i] # Gone
  /\ \E seen \in views[i], phase \in {step[2] : step \in Lifecycle} :
       /\ <<seen.phase, phase>> \in Lifecycle
       /\ seen.phase = "Failed" => seen.retry < RetryLimit
       /\ status' = [status EXCEPT ![i] =
                       [phase |-> phase,
                        retry |-> IF phase = "Pending" THEN @.retry + 1 ELSE @.retry]]
  /\ views' = [views EXCEPT ![i] = {status[i], status'[i]}]

Next == \E i \in Incidents : Create(i) \/ Delete(i) \/ CatchUp(i) \/ Advance(i)

Spec == Init /\ [][Next]_vars

=============================================================================
