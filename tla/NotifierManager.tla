---------------------------- MODULE NotifierManager ----------------------------
(***************************************************************************)
(* notifier.Manager (pkg/notifier/notifier.go): the one gate all messages  *)
(* pass.  Send decides under the lock whether a message is filtered,       *)
(* within the cooldown of its key, over the rate limit, or to be sent; it  *)
(* takes the lock a second time to collect the suppressions it will tell   *)
(* of, and calls the channels with no lock held.  A ticker flushes what    *)
(* was suppressed in digests.  Send is called by the AIIncident worker and *)
(* by the inspection runner, whose messages carry the time its run began.  *)
(*                                                                         *)
(* Times are ticks.  A suppression record is its count: the title, level   *)
(* and times it also keeps are only printed.                               *)
(***************************************************************************)
EXTENDS Integers, FiniteSets

CONSTANTS
  Senders,   \* goroutines that call Send
  Channels,  \* notifiers that may be registered
  Keys,      \* dedup keys: cluster/namespace/kind/name/title
  Messages,  \* the messages sent: [key, namespace, kind, level, force]
  NoMessage, \* the message of an idle sender
  Given,     \* the Filters NewManager is called with; 0 is an unset number
  Minute,    \* ticks in a minute
  MaxTime,   \* bound on time
  MaxCalls   \* bound on calls of Send

NoTime == -1

\* NewManager fills in what is unset.
Filters ==
  [Given EXCEPT
     !.digestInterval = IF @ > 0 THEN @
                        ELSE IF Given.cooldown > 0 THEN Given.cooldown ELSE Minute,
     !.digestMinCount = IF @ > 0 THEN @ ELSE 3,
     !.digestMaxItems = IF @ > 0 THEN @ ELSE 10]

ASSUME KeysAssumption     == IsFiniteSet(Keys)
ASSUME MessagesAssumption == /\ NoMessage \notin Messages
                             /\ \A m \in Messages : m.key \in Keys
ASSUME FiltersAssumption  ==
  /\ Given.cooldown \in Nat /\ Given.maxPerMinute \in Nat /\ Given.digestInterval \in Nat
  /\ Given.digestMinCount \in Nat /\ Given.digestMaxItems \in Nat
  /\ DOMAIN Given = {"minLevel", "includeNamespaces", "excludeNamespaces",
                     "includeResources", "excludeResources", "cooldown", "maxPerMinute",
                     "digestInterval", "digestMinCount", "digestMaxItems"}
ASSUME TimeAssumption     == Minute \in Nat \ {0} /\ MaxTime \in Nat /\ MaxCalls \in Nat

VARIABLES
  now,        \* the clock
  ticked,     \* the digest ticker has a tick to be received
  notifiers,  \* the registered channels
  lastSent,   \* per key, the timestamp of the message last let through
  window,     \* the messages let through that still count for the rate limit
  suppCount,  \* per key, suppressions not told of yet in a title
  suppStats,  \* per key, suppressions not digested yet
  lastFlush,  \* when the last digest began
  sender,     \* per goroutine, where it is in Send
  digest,     \* the digest goroutine: the channels still to be called
  passed,     \* history: the messages let through
  suppressed, \* history: per key, messages suppressed by cooldown or rate
  told,       \* history: per key, suppressions a title told of
  digested,   \* history: per key, suppressions a digest listed
  calls       \* how often Send was called

managerVars == <<lastSent, window, suppCount, suppStats, lastFlush>>
histVars    == <<passed, suppressed, told, digested>>
vars == <<now, ticked, notifiers, lastSent, window, suppCount, suppStats,
          lastFlush, sender, digest, passed, suppressed, told, digested, calls>>

\* A message let through: its number, key, timestamp, and when that was.
Passed == [n: Nat, key: Keys, stamp: Nat, at: Nat]

Sender == [pc: {"idle", "made", "recorded", "sending"},
           msg: Messages \cup {NoMessage}, stamp: Nat, left: SUBSET Channels]
IdleSender == [pc |-> "idle", msg |-> NoMessage, stamp |-> 0, left |-> {}]

Init ==
  /\ now = 0
  /\ ticked = FALSE
  /\ notifiers \in SUBSET Channels
  /\ lastSent  = [k \in Keys |-> NoTime]
  /\ window    = {}
  /\ suppCount = [k \in Keys |-> 0]
  /\ suppStats = [k \in Keys |-> 0]
  /\ lastFlush = NoTime
  /\ sender    = [s \in Senders |-> IdleSender]
  /\ digest    = {}
  /\ passed    = {}
  /\ suppressed = [k \in Keys |-> 0]
  /\ told      = [k \in Keys |-> 0]
  /\ digested  = [k \in Keys |-> 0]
  /\ calls     = 0

-----------------------------------------------------------------------------
(* The filters.                                                            *)

Rank(level) ==
  CASE level = "Critical" -> 5
    [] level = "High"     -> 4
    [] level = "Warning"  -> 3
    [] level = "Info"     -> 2
    [] level = "Success"  -> 1
    [] OTHER              -> 0

LevelAllowed(level) ==
  Rank(level) >= IF Rank(Filters.minLevel) = 0 THEN 3 ELSE Rank(Filters.minLevel)

NamespaceAllowed(ns) ==
  /\ ns \notin Filters.excludeNamespaces
  /\ Filters.includeNamespaces = {} \/ ns \in Filters.includeNamespaces

ResourceAllowed(kind) ==
  /\ kind \notin Filters.excludeResources
  /\ Filters.includeResources = {} \/ kind \in Filters.includeResources

Allowed(m) ==
  /\ m.force \/ LevelAllowed(m.level)
  /\ NamespaceAllowed(m.namespace)
  /\ ResourceAllowed(m.kind)

-----------------------------------------------------------------------------
(* Send: the decision, under the lock.                                     *)

\* The caller makes a message and its timestamp; it may call Send later.
Make(s, m) ==
  /\ sender[s].pc = "idle"
  /\ calls < MaxCalls
  /\ calls'  = calls + 1
  /\ sender' = [sender EXCEPT ![s] = [pc |-> "made", msg |-> m, stamp |-> now, left |-> {}]]
  /\ UNCHANGED <<now, ticked, notifiers, managerVars, digest, histVars>>

\* Send returns.
Return(s) == sender' = [sender EXCEPT ![s] = IdleSender]

InCooldown(s) ==
  LET last == lastSent[sender[s].msg.key] IN
  /\ Filters.cooldown > 0
  /\ last # NoTime
  /\ sender[s].stamp - last < Filters.cooldown

\* Mutant: one message more than the limit.
OverLimit(s) ==
  /\ Filters.maxPerMinute > 0
  /\ Cardinality({p \in window : p.stamp > sender[s].stamp - Minute}) > Filters.maxPerMinute

\* Mutant: the window is not pruned.
Unpruned(t) == window

\* What the window keeps when a message stamped t is decided.
Recent(t) == {p \in window : p.stamp > t - Minute}

AtLimit(s) ==
  /\ Filters.maxPerMinute > 0
  /\ Cardinality(Recent(sender[s].stamp)) >= Filters.maxPerMinute

Filtered(s) ==
  /\ ~Allowed(sender[s].msg)
  /\ Return(s)
  /\ UNCHANGED <<managerVars, histVars>>

Suppress(k) ==
  /\ suppCount'  = [suppCount  EXCEPT ![k] = @ + 1]
  /\ suppStats'  = [suppStats  EXCEPT ![k] = @ + 1]
  /\ suppressed' = [suppressed EXCEPT ![k] = @ + 1]
  /\ UNCHANGED <<lastSent, lastFlush, passed, told, digested>>

CooldownSuppressed(s) ==
  /\ Allowed(sender[s].msg) /\ InCooldown(s)
  /\ Suppress(sender[s].msg.key)
  /\ Return(s)
  /\ UNCHANGED window

RateSuppressed(s) ==
  /\ Allowed(sender[s].msg) /\ ~InCooldown(s) /\ AtLimit(s)
  /\ window' = Recent(sender[s].stamp)
  /\ Suppress(sender[s].msg.key)
  /\ Return(s)

\* Mutant: a message let through does not start the cooldown of its key.
RecordedUnstamped(s) ==
  LET p == [n |-> Cardinality(passed), key |-> sender[s].msg.key,
            stamp |-> sender[s].stamp, at |-> now] IN
  /\ Allowed(sender[s].msg) /\ ~InCooldown(s) /\ ~AtLimit(s)
  /\ window'   = IF Filters.maxPerMinute > 0 THEN Recent(p.stamp) \cup {p} ELSE window
  /\ passed'   = passed \cup {p}
  /\ sender'   = [sender EXCEPT ![s].pc = "recorded"]
  /\ UNCHANGED <<lastSent, suppCount, suppStats, lastFlush, suppressed, told, digested>>

Recorded(s) ==
  LET p == [n |-> Cardinality(passed), key |-> sender[s].msg.key,
            stamp |-> sender[s].stamp, at |-> now] IN
  /\ Allowed(sender[s].msg) /\ ~InCooldown(s) /\ ~AtLimit(s)
  /\ window'   = IF Filters.maxPerMinute > 0 THEN Recent(p.stamp) \cup {p} ELSE window
  /\ lastSent' = [lastSent EXCEPT ![p.key] = p.stamp]
  /\ passed'   = passed \cup {p}
  /\ sender'   = [sender EXCEPT ![s].pc = "recorded"]
  /\ UNCHANGED <<suppCount, suppStats, lastFlush, suppressed, told, digested>>

DecideAndRecord(s) ==
  /\ sender[s].pc = "made"
  /\ \/ Filtered(s)
     \/ CooldownSuppressed(s)
     \/ RateSuppressed(s)
     \/ Recorded(s)
  /\ UNCHANGED <<now, ticked, notifiers, digest, calls>>

-----------------------------------------------------------------------------
(* Send: the suppressions to tell of, and the channels.                    *)

\* Mutant: the suppressions told of are not taken; without a channel Send goes on.
PrepareUntaken(s) ==
  LET k == sender[s].msg.key IN
  /\ sender[s].pc = "recorded"
  /\ told'   = [told EXCEPT ![k] = @ + suppCount[k]]
  /\ sender' = [sender EXCEPT ![s].pc = "sending", ![s].left = notifiers]
  /\ UNCHANGED <<now, ticked, notifiers, lastSent, window, suppCount, suppStats, lastFlush,
                 digest, passed, suppressed, digested, calls>>

\* The second critical section.  Without a notifier Send fails, after it has
\* taken the suppressions.
Prepare(s) ==
  LET k == sender[s].msg.key IN
  /\ sender[s].pc = "recorded"
  /\ told'      = [told EXCEPT ![k] = @ + suppCount[k]]
  /\ suppCount' = [suppCount EXCEPT ![k] = 0]
  /\ \/ notifiers = {} /\ Return(s)
     \/ notifiers # {} /\ sender' = [sender EXCEPT ![s].pc = "sending", ![s].left = notifiers]
  /\ UNCHANGED <<now, ticked, notifiers, lastSent, window, suppStats, lastFlush,
                 digest, passed, suppressed, digested, calls>>

\* A channel is called, in any order; its failure does not stop the others.
Deliver(s, c) ==
  /\ sender[s].pc = "sending"
  /\ c \in sender[s].left
  /\ \/ sender[s].left = {c} /\ Return(s)
     \/ sender[s].left # {c} /\ sender' = [sender EXCEPT ![s].left = @ \ {c}]
  /\ UNCHANGED <<now, ticked, notifiers, managerVars, digest, histVars, calls>>

-----------------------------------------------------------------------------
(* The digest goroutine.                                                   *)

\* The keys worth a digest.
Due == {k \in Keys : suppStats[k] >= Filters.digestMinCount}

\* Mutant: the cut keeps one item less than the limit.
FitsButOne(items) ==
  /\ items \subseteq Due
  /\ Cardinality(items) = IF Cardinality(Due) > Filters.digestMaxItems
                            THEN Filters.digestMaxItems - 1 ELSE Cardinality(Due)
  /\ \A k \in items, l \in Due \ items : suppStats[k] >= suppStats[l]

\* What a digest lists: the most suppressed of the keys that are due.
Fits(items) ==
  /\ items \subseteq Due
  /\ Cardinality(items) = IF Cardinality(Due) > Filters.digestMaxItems
                            THEN Filters.digestMaxItems ELSE Cardinality(Due)
  /\ \A k \in items, l \in Due \ items : suppStats[k] >= suppStats[l]

TooSoon ==
  /\ lastFlush # NoTime
  /\ now - lastFlush < Filters.digestInterval \div 2

\* Every record that is due is deleted, also the ones that do not fit.
FlushDue ==
  /\ lastFlush' = now
  /\ \E items \in SUBSET Due :
       /\ Fits(items)
       /\ digested' = [k \in Keys |-> IF k \in items THEN digested[k] + suppStats[k]
                                                     ELSE digested[k]]
       /\ digest'   = IF items = {} THEN {} ELSE notifiers
  /\ suppStats' = [k \in Keys |-> IF k \in Due THEN 0 ELSE suppStats[k]]

FlushDigest ==
  /\ digest = {}
  /\ ticked
  /\ ticked' = FALSE
  /\ \/ TooSoon  /\ UNCHANGED <<lastFlush, suppStats, digested, digest>>
     \/ ~TooSoon /\ FlushDue
  /\ UNCHANGED <<now, notifiers, lastSent, window, suppCount, sender,
                 passed, suppressed, told, calls>>

DeliverDigest(c) ==
  /\ c \in digest
  /\ digest' = digest \ {c}
  /\ UNCHANGED <<now, ticked, notifiers, managerVars, sender, histVars, calls>>

-----------------------------------------------------------------------------

\* The ticker's channel holds one tick: a receiver that is late misses ticks.
Tick ==
  /\ now < MaxTime
  /\ now'    = now + 1
  /\ ticked' = (ticked \/ now' % Filters.digestInterval = 0)
  /\ UNCHANGED <<notifiers, managerVars, sender, digest, histVars, calls>>

Next ==
  \/ \E s \in Senders : \/ \E m \in Messages : Make(s, m)
                        \/ DecideAndRecord(s)
                        \/ Prepare(s)
                        \/ \E c \in Channels : Deliver(s, c)
  \/ FlushDigest
  \/ \E c \in Channels : DeliverDigest(c)
  \/ Tick

Spec == Init /\ [][Next]_vars

-----------------------------------------------------------------------------
(* Properties.                                                             *)

\* The variables keep their types; times are never in the future, a sender
\* that is sending has a channel left to call, and the window is within the limit.
TypeOK ==
  /\ now        \in Nat
  /\ ticked     \in BOOLEAN
  /\ notifiers  \in SUBSET Channels
  /\ lastSent   \in [Keys -> Nat \cup {NoTime}]
  /\ window     \subseteq passed
  /\ suppCount  \in [Keys -> Nat]
  /\ suppStats  \in [Keys -> Nat]
  /\ lastFlush  \in Nat \cup {NoTime}
  /\ sender     \in [Senders -> Sender]
  /\ \A s \in Senders : sender[s].stamp <= now
  /\ \A s \in Senders : /\ sender[s].pc = "idle" <=> sender[s].msg = NoMessage
                        /\ sender[s].pc = "sending" <=> sender[s].left # {}
  /\ digest     \in SUBSET Channels
  /\ passed     \subseteq Passed
  /\ IsFiniteSet(passed)
  /\ suppressed \in [Keys -> Nat]
  /\ told       \in [Keys -> Nat]
  /\ digested   \in [Keys -> Nat]
  /\ calls      \in Nat

\* The cooldown: two messages of one key that were let through are a cooldown
\* apart, in whatever order the timestamps of concurrent senders arrive.
CooldownSpacing ==
  \A p, q \in passed :
     p # q /\ p.key = q.key =>
        p.stamp - q.stamp >= Filters.cooldown \/ q.stamp - p.stamp >= Filters.cooldown

\* The rate limit: among the messages decided when they were stamped, at most
\* maxPerMinute are let through in any minute, although older timestamps of
\* other senders come in between and leave the window out of order.
Prompt(p) == p.at = p.stamp

RateLimited ==
  Filters.maxPerMinute > 0 =>
     \A p \in passed :
        Prompt(p) =>
           Cardinality({q \in passed : /\ Prompt(q)
                                       /\ q.stamp <= p.stamp
                                       /\ q.stamp > p.stamp - Minute})
             <= Filters.maxPerMinute

\* The inductive invariant behind the safety properties: no timestamp is ahead
\* of the clock, lastSent is the latest of its key, and the window, pruned by
\* timestamps that are not, still holds all of the current minute.
StampInv == \A p \in passed : p.stamp <= p.at /\ p.at <= now

LastSentInv ==
  Filters.cooldown > 0 => \A p \in passed : p.stamp <= lastSent[p.key]

WindowInv ==
  Filters.maxPerMinute > 0 =>
     /\ Cardinality(window) <= Filters.maxPerMinute
     /\ \A p \in passed : p.stamp > now - Minute => p \in window

\* A title tells of every suppression once: none is lost or told twice between
\* the two critical sections of concurrent calls.
ToldOnce == \A k \in Keys : suppressed[k] = suppCount[k] + told[k]

\* A digest lists every suppression it removes, and none twice.
DigestedOnce == \A k \in Keys : suppressed[k] = suppStats[k] + digested[k]

\* The suppressions of a key that were deleted and in no digest.
Unlisted(k) == suppressed[k] - suppStats[k] - digested[k]

\* No suppression is listed twice, and a key's are deleted unlisted only for the
\* sake of as many other keys as a digest has room for, each of which was listed
\* for as many suppressions as a digest asks for.
LostOnlyIfFull ==
  \A k \in Keys :
    /\ Unlisted(k) >= 0
    /\ Unlisted(k) > 0 =>
         Cardinality({l \in Keys \ {k} : digested[l] >= Filters.digestMinCount})
           >= Filters.digestMaxItems

\* The messages that no filter stops.
Welcome == {m \in Messages : Allowed(m)}

\* A sender's message as NotifierGate sees it, until it has its title.
Asking(r) ==
  CASE r.pc = "made"     -> [at |-> "door",  msg |-> r.msg,     stamp |-> r.stamp]
    [] r.pc = "recorded" -> [at |-> "title", msg |-> r.msg,     stamp |-> r.stamp]
    [] OTHER             -> [at |-> "out",   msg |-> NoMessage, stamp |-> 0]

Caller == [s \in Senders |-> Asking(sender[s])]

Gate == INSTANCE NotifierGate
          WITH Cooldown <- Filters.cooldown, MaxPerMinute <- Filters.maxPerMinute,
               caller <- Caller

\* The last stamps, the window that is pruned out of order and the counters
\* decide as the whole history would: no message is suppressed without a cause or
\* let through without room, and each title tells of all there is to tell.
KeepsGate == Gate!Spec

\* The last stamp of a key is that of a message let through.
LastSentSeen ==
  \A k \in Keys : lastSent[k] # NoTime =>
     \E p \in passed : p.key = k /\ p.stamp = lastSent[k]

IndInv == /\ TypeOK /\ StampInv /\ LastSentInv /\ WindowInv
          /\ CooldownSpacing /\ RateLimited /\ ToldOnce

=============================================================================
