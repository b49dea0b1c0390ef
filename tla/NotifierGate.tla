------------------------------ MODULE NotifierGate ------------------------------
(***************************************************************************)
(* What the notifier manager promises to its callers and to the readers of *)
(* the chats: whether a message is let through depends on the messages let *)
(* through before it and on nothing else, and each one that is let through *)
(* tells of all suppressions of its key so far.  There are no last stamps, *)
(* no window and no counters here, only the history they stand for.        *)
(* NotifierManager implements it.                                          *)
(***************************************************************************)
EXTENDS Integers, FiniteSets

CONSTANTS
  Senders, Messages, NoMessage, Keys,
  Welcome,      \* the messages that are not filtered
  Cooldown,     \* between two messages of a key; 0: none
  MaxPerMinute, \* messages in a minute; 0: any number
  Minute

VARIABLES
  now,        \* the clock
  caller,     \* by sender, its message, at the door or being given its title
  passed,     \* the messages let through
  suppressed, \* by key, how many messages were suppressed
  told        \* by key, how many of them a title has told of

vars == <<now, caller, passed, suppressed, told>>

Outside == [at |-> "out", msg |-> NoMessage, stamp |-> 0]

Init ==
  /\ now = 0
  /\ caller     = [s \in Senders |-> Outside]
  /\ passed     = {}
  /\ suppressed = [k \in Keys |-> 0]
  /\ told       = [k \in Keys |-> 0]

Leave(s) == caller' = [caller EXCEPT ![s] = Outside]

\* A message is stamped, and comes to the door now or later.
Ask(s, m) ==
  /\ caller[s].at = "out" /\ caller'[s].at = "door"
  /\ caller' = [caller EXCEPT ![s] = [at |-> "door", msg |-> m, stamp |-> now]]
  /\ UNCHANGED <<now, passed, suppressed, told>>

AtDoor(s) == caller[s].at = "door" /\ caller[s].msg \in Welcome

Refuse(s) ==
  /\ caller[s].at = "door" /\ caller[s].msg \notin Welcome
  /\ Leave(s)
  /\ UNCHANGED <<now, passed, suppressed, told>>

\* A message of its key was let through less than a cooldown before it.
Cooling(s) ==
  /\ Cooldown > 0
  /\ \E p \in passed : p.key = caller[s].msg.key /\ caller[s].stamp - p.stamp < Cooldown

\* As many messages as a minute may have were stamped in the minute before t, or since.
Crowded(t) ==
  /\ MaxPerMinute > 0
  /\ Cardinality({p \in passed : p.stamp > t - Minute}) >= MaxPerMinute

\* A message is only suppressed for a cause.
Suppress(s) ==
  /\ AtDoor(s)
  /\ Cooling(s) \/ Crowded(caller[s].stamp)
  /\ suppressed' = [suppressed EXCEPT ![caller[s].msg.key] = @ + 1]
  /\ Leave(s)
  /\ UNCHANGED <<now, passed, told>>

\* It is only let through if there is room, also if others overtook it.
Pass(s) ==
  /\ AtDoor(s)
  /\ ~Cooling(s) /\ ~Crowded(now)
  /\ passed' = passed \cup {[n |-> Cardinality(passed), key |-> caller[s].msg.key,
                             stamp |-> caller[s].stamp, at |-> now]}
  /\ caller' = [caller EXCEPT ![s].at = "title"]
  /\ UNCHANGED <<now, suppressed, told>>

\* Its title says how many of its key were not.
Tell(s) ==
  /\ caller[s].at = "title"
  /\ told' = [told EXCEPT ![caller[s].msg.key] = suppressed[caller[s].msg.key]]
  /\ Leave(s)
  /\ UNCHANGED <<now, passed, suppressed>>

Tick == now' = now + 1 /\ UNCHANGED <<caller, passed, suppressed, told>>

Next ==
  \/ Tick
  \/ \E s \in Senders :
       Refuse(s) \/ Suppress(s) \/ Pass(s) \/ Tell(s) \/ \E m \in Messages : Ask(s, m)

Spec == Init /\ [][Next]_vars

=============================================================================
