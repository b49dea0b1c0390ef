------------------------- MODULE NotifierManagerProofs -------------------------
(***************************************************************************)
(* Proofs about NotifierManager, for every set of senders, keys, messages  *)
(* and channels and every setting of the filters: the cooldown, the rate   *)
(* limit and the bookkeeping of suppressions.                              *)
(***************************************************************************)
EXTENDS NotifierManager, FiniteSetTheorems, TLAPS

USE KeysAssumption, MessagesAssumption, TimeAssumption DEF NoTime

-----------------------------------------------------------------------------
(* The filters and the window.                                             *)

\* The filters keep their type.
LEMMA FiltersType ==
  /\ Filters.cooldown \in Nat
  /\ Filters.maxPerMinute \in Nat
  /\ Filters.digestInterval \in Nat \ {0}
  /\ Filters.digestMinCount \in Nat \ {0}
  /\ Filters.digestMaxItems \in Nat \ {0}
  BY FiltersAssumption DEF Filters

\* Pruning and adding keep the window a finite set of messages let through,
\* and one that was below the limit within it.
LEMMA RecentFinite ==
  ASSUME TypeOK, NEW t \in Nat
  PROVE  /\ Recent(t) \subseteq window
         /\ IsFiniteSet(window)
         /\ IsFiniteSet(Recent(t))
         /\ Cardinality(window) \in Nat
         /\ Cardinality(Recent(t)) \in Nat
         /\ Cardinality(Recent(t)) <= Cardinality(window)
  <1>1. Recent(t) \subseteq window
    BY DEF Recent
  <1>2. IsFiniteSet(window)
    BY FS_Subset DEF TypeOK
  <1>3. IsFiniteSet(Recent(t)) /\ Cardinality(Recent(t)) <= Cardinality(window)
    BY <1>1, <1>2, FS_Subset
  <1>. QED  BY <1>1, <1>2, <1>3, FS_CardinalityType

\* A set with room for one more still fits with one added.
LEMMA AddOne ==
  ASSUME NEW S, IsFiniteSet(S), NEW x, NEW n \in Nat, Cardinality(S) < n
  PROVE  IsFiniteSet(S \cup {x}) /\ Cardinality(S \cup {x}) <= n
  <1>1. Cardinality(S) \in Nat
    BY FS_CardinalityType
  <1>2. /\ IsFiniteSet(S \cup {x})
        /\ Cardinality(S \cup {x}) = Cardinality(S) \/ Cardinality(S \cup {x}) = Cardinality(S) + 1
    BY FS_AddElement
  <1>. QED  BY <1>1, <1>2

-----------------------------------------------------------------------------
(* Type correctness.                                                       *)

\* A sender with nothing to do is a sender.
LEMMA IdleSenderType == IdleSender \in Sender
  BY DEF IdleSender, Sender

\* The initial state is well typed.
LEMMA InitType == Init => TypeOK
  <1>. SUFFICES ASSUME Init PROVE TypeOK
    OBVIOUS
  <1>1. IdleSender.pc = "idle" /\ IdleSender.msg = NoMessage
        /\ IdleSender.stamp = 0 /\ IdleSender.left = {}
    BY DEF IdleSender
  <1>2. /\ sender \in [Senders -> Sender]
        /\ \A s \in Senders : sender[s].stamp <= now
        /\ \A s \in Senders : /\ sender[s].pc = "idle" <=> sender[s].msg = NoMessage
                              /\ sender[s].pc = "sending" <=> sender[s].left # {}
    BY <1>1, IdleSenderType DEF Init
  <1>3. lastSent \in [Keys -> Nat \cup {NoTime}] /\ lastFlush \in Nat \cup {NoTime}
    BY DEF Init
  <1>4. /\ suppCount \in [Keys -> Nat] /\ suppStats \in [Keys -> Nat]
        /\ suppressed \in [Keys -> Nat] /\ told \in [Keys -> Nat]
        /\ digested \in [Keys -> Nat]
    BY DEF Init
  <1>5. IsFiniteSet(passed) /\ passed \subseteq Passed /\ window \subseteq passed
    BY FS_EmptySet DEF Init
  <1>. QED  BY <1>2, <1>3, <1>4, <1>5 DEF Init, TypeOK

\* A sender's step keeps what TypeOK says of the senders.
LEMMA SenderStep ==
  ASSUME TypeOK, NEW s \in Senders, NEW r \in Sender,
         r.stamp <= now, r.pc = "idle" <=> r.msg = NoMessage,
         r.pc = "sending" <=> r.left # {},
         sender' = [sender EXCEPT ![s] = r], now' = now
  PROVE  /\ sender' \in [Senders -> Sender]
         /\ \A x \in Senders : sender'[x].stamp <= now'
         /\ \A x \in Senders : /\ sender'[x].pc = "idle" <=> sender'[x].msg = NoMessage
                               /\ sender'[x].pc = "sending" <=> sender'[x].left # {}
  BY DEF TypeOK

\* A send that returns leaves its sender idle.
LEMMA ReturnStep ==
  ASSUME TypeOK, NEW s \in Senders, Return(s), now' = now
  PROVE  /\ sender' \in [Senders -> Sender]
         /\ \A x \in Senders : sender'[x].stamp <= now'
         /\ \A x \in Senders : /\ sender'[x].pc = "idle" <=> sender'[x].msg = NoMessage
                               /\ sender'[x].pc = "sending" <=> sender'[x].left # {}
  <1>1. /\ IdleSender.stamp <= now
        /\ IdleSender.pc = "idle" /\ IdleSender.msg = NoMessage /\ IdleSender.left = {}
    BY DEF IdleSender, TypeOK
  <1>. QED  BY <1>1, IdleSenderType, SenderStep DEF Return

\* What is known of a sender that is at pc, past making its message.
LEMMA AtWork ==
  ASSUME TypeOK, NEW s \in Senders, sender[s].pc # "idle"
  PROVE  /\ sender[s] \in Sender
         /\ sender[s].msg \in Messages
         /\ sender[s].msg.key \in Keys
         /\ sender[s].stamp \in Nat
         /\ sender[s].stamp <= now
  BY DEF TypeOK, Sender

\* Making a message keeps the types.
LEMMA MakeType ==
  ASSUME TypeOK, NEW s \in Senders, NEW m \in Messages, Make(s, m)
  PROVE  TypeOK'
  <1>. DEFINE r == [pc |-> "made", msg |-> m, stamp |-> now, left |-> {}]
  <1>1. /\ r \in Sender /\ r.stamp <= now /\ r.msg # NoMessage
        /\ r.pc = "made" /\ r.left = {}
    BY DEF Sender, TypeOK
  <1>2. sender' = [sender EXCEPT ![s] = r] /\ now' = now
    BY DEF Make
  <1>. HIDE DEF r
  <1>3. /\ sender' \in [Senders -> Sender]
        /\ \A x \in Senders : sender'[x].stamp <= now'
        /\ \A x \in Senders : /\ sender'[x].pc = "idle" <=> sender'[x].msg = NoMessage
                              /\ sender'[x].pc = "sending" <=> sender'[x].left # {}
    BY <1>1, <1>2, SenderStep
  <1>. QED  BY <1>3 DEF TypeOK, Make, managerVars, histVars

\* A suppression counts in suppCount and suppStats and changes nothing else.
LEMMA SuppressType ==
  ASSUME TypeOK, NEW k \in Keys, Suppress(k)
  PROVE  /\ suppCount' \in [Keys -> Nat] /\ suppStats' \in [Keys -> Nat]
         /\ suppressed' \in [Keys -> Nat]
         /\ UNCHANGED <<lastSent, lastFlush, passed, told, digested>>
  BY DEF TypeOK, Suppress

\* The message a Recorded step lets through.
NewPassed(s) == [n |-> Cardinality(passed), key |-> sender[s].msg.key,
                 stamp |-> sender[s].stamp, at |-> now]

\* The record of a message that passes is well typed and carries what the sender
\* read.
LEMMA NewPassedType ==
  ASSUME TypeOK, NEW s \in Senders, sender[s].pc # "idle"
  PROVE  /\ NewPassed(s) \in Passed
         /\ NewPassed(s).key = sender[s].msg.key
         /\ NewPassed(s).stamp = sender[s].stamp
         /\ NewPassed(s).at = now
  <1>1. Cardinality(passed) \in Nat
    BY FS_CardinalityType DEF TypeOK
  <1>. QED  BY <1>1, AtWork DEF NewPassed, Passed, TypeOK

\* The critical section of the send keeps the types, whichever way it decides.
LEMMA DecideType ==
  ASSUME TypeOK, NEW s \in Senders, DecideAndRecord(s)
  PROVE  TypeOK'
  <1>. DEFINE k == sender[s].msg.key
  <1>1. sender[s].pc # "idle"
    BY DEF DecideAndRecord
  <1>2. UNCHANGED <<now, ticked, notifiers, digest, calls>>
    BY DEF DecideAndRecord
  <1>3. CASE Filtered(s)
    BY <1>2, <1>3, ReturnStep DEF Filtered, TypeOK, managerVars, histVars
  <1>4. CASE CooldownSuppressed(s)
    <2>1. Suppress(k) /\ Return(s) /\ UNCHANGED window
      BY <1>4 DEF CooldownSuppressed
    <2>. QED  BY <1>1, <1>2, <2>1, AtWork, ReturnStep, SuppressType DEF TypeOK
  <1>5. CASE RateSuppressed(s)
    <2>1. Suppress(k) /\ Return(s) /\ window' = Recent(sender[s].stamp)
      BY <1>5 DEF RateSuppressed
    <2>2. window' \subseteq passed
      BY <2>1 DEF Recent, TypeOK
    <2>. QED  BY <1>1, <1>2, <2>1, <2>2, AtWork, ReturnStep, SuppressType DEF TypeOK
  <1>6. CASE Recorded(s)
    <2>. DEFINE r == [sender[s] EXCEPT !.pc = "recorded"]
    <2>1. /\ r \in Sender /\ r.stamp <= now /\ r.msg # NoMessage
          /\ r.pc = "recorded" /\ r.left = {}
      BY <1>1, AtWork DEF Sender, TypeOK, DecideAndRecord
    <2>2. sender' = [sender EXCEPT ![s] = r] /\ now' = now
      BY <1>2, <1>6 DEF Recorded
    <2>. HIDE DEF r
    <2>3. /\ sender' \in [Senders -> Sender]
          /\ \A x \in Senders : sender'[x].stamp <= now'
          /\ \A x \in Senders : /\ sender'[x].pc = "idle" <=> sender'[x].msg = NoMessage
                                /\ sender'[x].pc = "sending" <=> sender'[x].left # {}
      BY <2>1, <2>2, SenderStep
    <2>4. /\ passed' = passed \cup {NewPassed(s)}
          /\ window' \subseteq window \cup {NewPassed(s)}
          /\ lastSent' = [lastSent EXCEPT ![k] = sender[s].stamp]
          /\ UNCHANGED <<suppCount, suppStats, lastFlush, suppressed, told, digested>>
      BY <1>6 DEF Recorded, Recent, NewPassed
    <2>5. passed' \subseteq Passed /\ IsFiniteSet(passed') /\ window' \subseteq passed'
      BY <1>1, <2>4, NewPassedType, FS_AddElement DEF TypeOK
    <2>6. lastSent' \in [Keys -> Nat \cup {NoTime}]
      BY <1>1, <2>4, AtWork DEF TypeOK
    <2>. QED  BY <1>2, <2>3, <2>4, <2>5, <2>6 DEF TypeOK
  <1>. QED  BY <1>3, <1>4, <1>5, <1>6 DEF DecideAndRecord

\* Taking the suppressed count for the message's suffix keeps the types.
LEMMA PrepareType ==
  ASSUME TypeOK, NEW s \in Senders, Prepare(s)
  PROVE  TypeOK'
  <1>1. sender[s].pc # "idle"
    BY DEF Prepare
  <1>2. UNCHANGED <<now, ticked, notifiers, lastSent, window, suppStats, lastFlush,
                    digest, passed, suppressed, digested, calls>>
    BY DEF Prepare
  <1>3. told' \in [Keys -> Nat] /\ suppCount' \in [Keys -> Nat]
    BY <1>1, AtWork DEF Prepare, TypeOK
  <1>4. CASE notifiers = {} /\ Return(s)
    BY <1>2, <1>3, <1>4, ReturnStep DEF TypeOK
  <1>5. CASE /\ notifiers # {}
             /\ sender' = [sender EXCEPT ![s].pc = "sending", ![s].left = notifiers]
    <2>. DEFINE r == [sender[s] EXCEPT !.pc = "sending", !.left = notifiers]
    <2>1. /\ r \in Sender /\ r.stamp <= now /\ r.msg # NoMessage
          /\ r.pc = "sending" /\ r.left # {}
      BY <1>1, <1>5, AtWork DEF Sender, TypeOK
    <2>2. sender' = [sender EXCEPT ![s] = r] /\ now' = now
      BY <1>2, <1>5 DEF TypeOK
    <2>. HIDE DEF r
    <2>3. /\ sender' \in [Senders -> Sender]
          /\ \A x \in Senders : sender'[x].stamp <= now'
          /\ \A x \in Senders : /\ sender'[x].pc = "idle" <=> sender'[x].msg = NoMessage
                                /\ sender'[x].pc = "sending" <=> sender'[x].left # {}
      BY <2>1, <2>2, SenderStep
    <2>. QED  BY <1>2, <1>3, <2>3 DEF TypeOK
  <1>. QED  BY <1>4, <1>5 DEF Prepare

\* A channel's send, successful or not, keeps the types.
LEMMA DeliverType ==
  ASSUME TypeOK, NEW s \in Senders, NEW c \in Channels, Deliver(s, c)
  PROVE  TypeOK'
  <1>1. sender[s].pc # "idle"
    BY DEF Deliver
  <1>2. UNCHANGED <<now, ticked, notifiers, managerVars, digest, histVars, calls>>
    BY DEF Deliver
  <1>3. CASE Return(s)
    BY <1>2, <1>3, ReturnStep DEF TypeOK, managerVars, histVars
  <1>4. CASE sender[s].left # {c} /\ sender' = [sender EXCEPT ![s].left = @ \ {c}]
    <2>. DEFINE r == [sender[s] EXCEPT !.left = @ \ {c}]
    <2>1. /\ r \in Sender /\ r.stamp <= now /\ r.msg # NoMessage
          /\ r.pc = "sending" /\ r.left # {}
      BY <1>1, <1>4, AtWork DEF Sender, TypeOK, Deliver
    <2>2. sender' = [sender EXCEPT ![s] = r] /\ now' = now
      BY <1>2, <1>4 DEF TypeOK
    <2>. HIDE DEF r
    <2>3. /\ sender' \in [Senders -> Sender]
          /\ \A x \in Senders : sender'[x].stamp <= now'
          /\ \A x \in Senders : /\ sender'[x].pc = "idle" <=> sender'[x].msg = NoMessage
                                /\ sender'[x].pc = "sending" <=> sender'[x].left # {}
      BY <2>1, <2>2, SenderStep
    <2>. QED  BY <1>2, <2>3 DEF TypeOK, managerVars, histVars
  <1>. QED  BY <1>3, <1>4 DEF Deliver

\* flushDigest keeps the types.
LEMMA FlushType ==
  ASSUME TypeOK, FlushDigest
  PROVE  TypeOK'
  <1>1. UNCHANGED <<now, notifiers, lastSent, window, suppCount, sender,
                    passed, suppressed, told, calls>> /\ ticked' = FALSE
    BY DEF FlushDigest
  <1>2. CASE UNCHANGED <<lastFlush, suppStats, digested, digest>>
    BY <1>1, <1>2 DEF TypeOK
  <1>3. CASE FlushDue
    <2>1. lastFlush' \in Nat /\ suppStats' \in [Keys -> Nat]
      BY <1>3 DEF FlushDue, TypeOK
    <2>2. digest' \in SUBSET Channels /\ digested' \in [Keys -> Nat]
      BY <1>3 DEF FlushDue, TypeOK
    <2>. QED  BY <1>1, <2>1, <2>2 DEF TypeOK
  <1>. QED  BY <1>2, <1>3 DEF FlushDigest

\* Every step keeps the types.
LEMMA NextType == TypeOK /\ [Next]_vars => TypeOK'
  <1>. SUFFICES ASSUME TypeOK, [Next]_vars PROVE TypeOK'
    OBVIOUS
  <1>1. CASE \E s \in Senders, m \in Messages : Make(s, m)
    BY <1>1, MakeType
  <1>2. CASE \E s \in Senders : DecideAndRecord(s)
    BY <1>2, DecideType
  <1>3. CASE \E s \in Senders : Prepare(s)
    BY <1>3, PrepareType
  <1>4. CASE \E s \in Senders, c \in Channels : Deliver(s, c)
    BY <1>4, DeliverType
  <1>5. CASE FlushDigest
    BY <1>5, FlushType
  <1>6. CASE \E c \in Channels : DeliverDigest(c)
    BY <1>6 DEF DeliverDigest, TypeOK, managerVars, histVars
  <1>7. CASE Tick
    <2>1. now' \in Nat /\ now <= now' /\ ticked' \in BOOLEAN
      BY <1>7 DEF Tick, TypeOK
    <2>2. \A s \in Senders : sender[s].stamp <= now'
      BY <2>1 DEF TypeOK, Sender
    <2>. QED  BY <1>7, <2>1, <2>2 DEF Tick, TypeOK, managerVars, histVars
  <1>8. CASE UNCHANGED vars
    BY <1>8 DEF vars, TypeOK
  <1>. QED  BY <1>1, <1>2, <1>3, <1>4, <1>5, <1>6, <1>7, <1>8 DEF Next

\* The variables keep their types, under every interleaving of the senders.
THEOREM TypeCorrect == Spec => []TypeOK
  BY InitType, NextType, PTL DEF Spec

-----------------------------------------------------------------------------
(* The cooldown, the rate limit and the titles.                            *)

\* The invariant holds at the start.
LEMMA InitInv == Init => IndInv
  <1>. SUFFICES ASSUME Init PROVE IndInv
    OBVIOUS
  <1>1. passed = {} /\ window = {} /\ Cardinality(window) = 0
    BY FS_EmptySet DEF Init
  <1>2. StampInv /\ LastSentInv /\ CooldownSpacing /\ RateLimited
    BY <1>1 DEF StampInv, LastSentInv, CooldownSpacing, RateLimited
  <1>3. WindowInv
    BY <1>1, FiltersType DEF WindowInv
  <1>4. ToldOnce
    BY DEF Init, ToldOnce
  <1>. QED  BY <1>2, <1>3, <1>4, InitType DEF IndInv

\* Only three variables and the clock matter to what was let through.
LEMMA PassedUnchanged ==
  ASSUME IndInv, TypeOK', UNCHANGED <<passed, lastSent, window>>, now <= now'
  PROVE  /\ StampInv' /\ LastSentInv' /\ WindowInv' /\ CooldownSpacing' /\ RateLimited'
  <1>1. now \in Nat /\ now' \in Nat
    BY DEF IndInv, TypeOK
  <1>2. \A p \in passed : p.stamp \in Nat /\ p.at \in Nat
    BY DEF IndInv, TypeOK, Passed
  <1>3. StampInv' /\ WindowInv'
    BY <1>1, <1>2 DEF IndInv, StampInv, WindowInv
  <1>4. LastSentInv' /\ CooldownSpacing'
    BY DEF IndInv, LastSentInv, CooldownSpacing
  <1>5. RateLimited'
    BY DEF IndInv, RateLimited, Prompt
  <1>. QED  BY <1>3, <1>4, <1>5

\* Pruning by a timestamp that is not ahead of the clock drops nothing of the
\* current minute.
LEMMA PrunedWindow ==
  ASSUME IndInv, Filters.maxPerMinute > 0, NEW t \in Nat, t <= now
  PROVE  \A p \in passed : p.stamp > now - Minute => p \in Recent(t)
  <1>. SUFFICES ASSUME NEW p \in passed, p.stamp > now - Minute
                PROVE  p \in Recent(t)
    OBVIOUS
  <1>1. p \in window
    BY DEF IndInv, WindowInv
  <1>2. p.stamp \in Nat /\ now \in Nat
    BY DEF IndInv, TypeOK, Passed
  <1>3. p.stamp > t - Minute
    BY <1>2
  <1>. QED  BY <1>1, <1>3 DEF Recent

\* A message the rate refuses only prunes the window, by entries too old to be
\* counted.
LEMMA RateSuppressedStep ==
  ASSUME IndInv, TypeOK', NEW s \in Senders, sender[s].pc # "idle",
         RateSuppressed(s), now' = now
  PROVE  /\ StampInv' /\ LastSentInv' /\ WindowInv' /\ CooldownSpacing' /\ RateLimited'
  <1>. DEFINE t == sender[s].stamp
  <1>1. /\ TypeOK /\ t \in Nat /\ t <= now
        /\ Filters.maxPerMinute > 0
        /\ window' = Recent(t)
        /\ UNCHANGED <<passed, lastSent>>
    BY AtWork DEF IndInv, RateSuppressed, AtLimit, Suppress
  <1>2. StampInv' /\ LastSentInv' /\ CooldownSpacing' /\ RateLimited'
    BY <1>1 DEF IndInv, StampInv, LastSentInv, CooldownSpacing, RateLimited, Prompt
  <1>3. Cardinality(window') <= Filters.maxPerMinute
    <2>1. /\ Cardinality(Recent(t)) <= Cardinality(window)
          /\ Cardinality(Recent(t)) \in Nat /\ Cardinality(window) \in Nat
      BY <1>1, RecentFinite
    <2>2. Cardinality(window) <= Filters.maxPerMinute
      BY <1>1 DEF IndInv, WindowInv
    <2>. QED  BY <1>1, <2>1, <2>2, FiltersType
  <1>4. \A p \in passed' : p.stamp > now' - Minute => p \in window'
    BY <1>1, PrunedWindow
  <1>. QED  BY <1>2, <1>3, <1>4 DEF WindowInv

\* A message let through is a cooldown later than all of its key.
LEMMA RecordedCooldown ==
  ASSUME IndInv, TypeOK', NEW s \in Senders, sender[s].pc # "idle", Recorded(s), now' = now
  PROVE  LastSentInv' /\ CooldownSpacing'
  <1>. DEFINE x == NewPassed(s)
  <1>1. /\ TypeOK /\ x \in Passed /\ x.key \in Keys /\ x.stamp \in Nat /\ x.stamp <= now
    BY NewPassedType, AtWork DEF IndInv
  <1>2. /\ passed' = passed \cup {x}
        /\ lastSent' = [lastSent EXCEPT ![x.key] = x.stamp]
        /\ ~InCooldown(s)
        /\ x.key = sender[s].msg.key /\ x.stamp = sender[s].stamp
    BY DEF Recorded, NewPassed
  <1>. HIDE DEF x
  <1>3. \A p \in passed : /\ p.stamp \in Nat /\ p.key \in Keys
                          /\ lastSent[p.key] \in Int
    BY <1>1 DEF TypeOK, Passed
  <1>4. CASE Filters.cooldown = 0
    <2>1. LastSentInv'
      BY <1>4 DEF LastSentInv
    <2>2. \A p \in passed' : p.stamp \in Nat
      BY <1>1, <1>2, <1>3
    <2>3. CooldownSpacing'
      BY <1>4, <2>2 DEF CooldownSpacing
    <2>. QED  BY <2>1, <2>3
  <1>5. CASE Filters.cooldown > 0
    <2>1. \A p \in passed : p.stamp <= lastSent[p.key]
      BY <1>5 DEF IndInv, LastSentInv
    <2>2. lastSent[x.key] = NoTime \/ x.stamp - lastSent[x.key] >= Filters.cooldown
      <3>1. lastSent[x.key] \in Int
        BY <1>1 DEF TypeOK
      <3>. QED  BY <1>1, <1>2, <1>5, <3>1, FiltersType DEF InCooldown
    <2>3. \A p \in passed : p.key = x.key => x.stamp - p.stamp >= Filters.cooldown
      BY <1>1, <1>3, <2>1, <2>2, FiltersType
    <2>4. CooldownSpacing'
      <3>. SUFFICES ASSUME NEW p \in passed', NEW q \in passed', p # q, p.key = q.key
                    PROVE  p.stamp - q.stamp >= Filters.cooldown
                           \/ q.stamp - p.stamp >= Filters.cooldown
        BY DEF CooldownSpacing
      <3>1. CASE p \in passed /\ q \in passed
        BY <3>1 DEF IndInv, CooldownSpacing
      <3>2. CASE p = x \/ q = x
        BY <1>2, <2>3, <3>2
      <3>. QED  BY <1>2, <3>1, <3>2
    <2>5. LastSentInv'
      <3>. SUFFICES ASSUME NEW p \in passed' PROVE p.stamp <= lastSent'[p.key]
        BY DEF LastSentInv
      <3>1. CASE p = x
        BY <1>1, <1>2, <3>1 DEF TypeOK
      <3>2. CASE p \in passed /\ p.key = x.key
        <4>1. p.stamp <= x.stamp
          BY <1>1, <1>3, <1>5, <2>3, <3>2, FiltersType
        <4>2. lastSent'[p.key] = x.stamp
          BY <1>1, <1>2, <3>2 DEF TypeOK
        <4>. QED  BY <4>1, <4>2
      <3>3. CASE p \in passed /\ p.key # x.key
        BY <1>1, <1>2, <1>3, <2>1, <3>3 DEF TypeOK
      <3>. QED  BY <1>2, <3>1, <3>2, <3>3
    <2>. QED  BY <2>4, <2>5
  <1>. QED  BY <1>4, <1>5, FiltersType

\* The messages RateLimited counts for p.
Counted(p) == {q \in passed : Prompt(q) /\ q.stamp <= p.stamp /\ q.stamp > p.stamp - Minute}

\* A message that passes found fewer than maxPerMinute entries in its window; with
\* it the window holds at most that many.
LEMMA RecordedRate ==
  ASSUME IndInv, TypeOK', NEW s \in Senders, sender[s].pc # "idle", Recorded(s), now' = now
  PROVE  StampInv' /\ WindowInv' /\ RateLimited'
  <1>. DEFINE x == NewPassed(s)
              max == Filters.maxPerMinute
  <1>1. /\ TypeOK /\ x \in Passed /\ x.stamp \in Nat /\ x.stamp <= now
        /\ x.at = now /\ now \in Nat /\ max \in Nat
    BY NewPassedType, AtWork, FiltersType DEF IndInv, TypeOK
  <1>2. /\ passed' = passed \cup {x}
        /\ ~AtLimit(s)
        /\ max > 0 => window' = Recent(x.stamp) \cup {x}
        /\ x.stamp = sender[s].stamp
    BY DEF Recorded, NewPassed
  <1>. HIDE DEF x
  <1>3. \A p \in passed : p.stamp \in Nat /\ p.at \in Nat
    BY <1>1 DEF TypeOK, Passed
  <1>4. StampInv'
    BY <1>1, <1>2 DEF IndInv, StampInv
  <1>5. CASE max = 0
    BY <1>4, <1>5 DEF WindowInv, RateLimited
  <1>6. CASE max > 0
    <2>1. /\ IsFiniteSet(window') /\ Cardinality(window') \in Nat
          /\ Cardinality(window') <= max
      <3>1. /\ IsFiniteSet(Recent(x.stamp)) /\ Cardinality(Recent(x.stamp)) \in Nat
            /\ Cardinality(Recent(x.stamp)) < max
        BY <1>1, <1>2, <1>6, RecentFinite DEF AtLimit
      <3>. QED  BY <1>1, <1>2, <1>6, <3>1, AddOne, FS_CardinalityType
    <2>2. \A p \in passed' : p.stamp > now' - Minute => p \in window'
      BY <1>1, <1>2, <1>6, PrunedWindow
    <2>3. \A p \in passed' : Prompt(p) => Cardinality(Counted(p)') <= max
      <3>. SUFFICES ASSUME NEW p \in passed', Prompt(p)
                    PROVE  Cardinality(Counted(p)') <= max
        OBVIOUS
      <3>1. /\ p.stamp \in Nat /\ p.stamp = p.at /\ p.at <= now
        BY <1>1, <1>2, <1>3 DEF IndInv, StampInv, Prompt
      <3>2. CASE p.stamp = now
        <4>1. Counted(p)' \subseteq window'
          BY <1>1, <2>2, <3>2 DEF Counted
        <4>. QED  BY <1>1, <2>1, <4>1, FS_Subset, FS_CardinalityType
      <3>3. CASE p.stamp < now
        <4>1. p \in passed
          BY <1>1, <1>2, <3>1, <3>3
        <4>2. ~(Prompt(x) /\ x.stamp <= p.stamp)
          BY <1>1, <3>1, <3>3 DEF Prompt
        <4>3. Counted(p)' = Counted(p)
          BY <1>2, <4>2 DEF Counted, Prompt
        <4>. QED  BY <1>6, <4>1, <4>3 DEF IndInv, RateLimited, Counted
      <3>. QED  BY <1>1, <3>1, <3>2, <3>3
    <2>4. RateLimited'
      BY <2>3 DEF RateLimited, Counted, Prompt
    <2>. QED  BY <1>4, <2>1, <2>2, <2>4 DEF WindowInv
  <1>. QED  BY <1>1, <1>5, <1>6

\* A suppression is counted once more and waits to be told of.
LEMMA SuppressTold ==
  ASSUME IndInv, NEW k \in Keys, Suppress(k)
  PROVE  ToldOnce'
  <1>1. \A l \in Keys : /\ suppressed[l] \in Nat /\ suppCount[l] \in Nat /\ told[l] \in Nat
                        /\ suppressed[l] = suppCount[l] + told[l]
    BY DEF IndInv, TypeOK, ToldOnce
  <1>2. \A l \in Keys :
           /\ suppressed'[l] = IF l = k THEN suppressed[l] + 1 ELSE suppressed[l]
           /\ suppCount'[l] = IF l = k THEN suppCount[l] + 1 ELSE suppCount[l]
           /\ told'[l] = told[l]
    BY DEF Suppress, IndInv, TypeOK
  <1>. QED  BY <1>1, <1>2 DEF ToldOnce

\* Taking the count moves it from what is to be told to what has been told.
LEMMA PrepareTold ==
  ASSUME IndInv, NEW s \in Senders, Prepare(s)
  PROVE  ToldOnce'
  <1>. DEFINE k == sender[s].msg.key
  <1>1. \A l \in Keys : /\ suppressed[l] \in Nat /\ suppCount[l] \in Nat /\ told[l] \in Nat
                        /\ suppressed[l] = suppCount[l] + told[l]
    BY DEF IndInv, TypeOK, ToldOnce
  <1>2. \A l \in Keys :
           /\ suppressed'[l] = suppressed[l]
           /\ suppCount'[l] = IF l = k THEN 0 ELSE suppCount[l]
           /\ told'[l] = IF l = k THEN told[l] + suppCount[l] ELSE told[l]
    BY DEF Prepare, IndInv, TypeOK
  <1>. QED  BY <1>1, <1>2 DEF ToldOnce

\* The critical section of the send keeps the invariant, whichever way it decides.
LEMMA DecideInv ==
  ASSUME IndInv, TypeOK', NEW s \in Senders, DecideAndRecord(s)
  PROVE  IndInv'
  <1>1. /\ TypeOK /\ sender[s].pc # "idle" /\ now' = now /\ now <= now'
    BY DEF DecideAndRecord, IndInv, TypeOK
  <1>2. CASE Filtered(s)
    <2>1. UNCHANGED <<passed, lastSent, window, suppCount, suppressed, told>>
      BY <1>2 DEF Filtered, managerVars, histVars
    <2>2. ToldOnce'
      BY <2>1 DEF IndInv, ToldOnce
    <2>. QED  BY <1>1, <2>1, <2>2, PassedUnchanged DEF IndInv
  <1>3. CASE CooldownSuppressed(s)
    <2>1. Suppress(sender[s].msg.key) /\ UNCHANGED <<passed, lastSent, window>>
      BY <1>3 DEF CooldownSuppressed, Suppress
    <2>. QED  BY <1>1, <2>1, AtWork, SuppressTold, PassedUnchanged DEF IndInv
  <1>4. CASE RateSuppressed(s)
    <2>1. Suppress(sender[s].msg.key)
      BY <1>4 DEF RateSuppressed
    <2>. QED  BY <1>1, <1>4, <2>1, AtWork, SuppressTold, RateSuppressedStep DEF IndInv
  <1>5. CASE Recorded(s)
    <2>1. ToldOnce'
      BY <1>5 DEF Recorded, IndInv, ToldOnce
    <2>. QED  BY <1>1, <1>5, <2>1, RecordedCooldown, RecordedRate DEF IndInv
  <1>. QED  BY <1>2, <1>3, <1>4, <1>5 DEF DecideAndRecord

\* Every step keeps the invariant: one step per action.
LEMMA NextInv == IndInv /\ [Next]_vars => IndInv'
  <1>. SUFFICES ASSUME IndInv, [Next]_vars PROVE IndInv'
    OBVIOUS
  <1>1. TypeOK /\ TypeOK'
    BY NextType DEF IndInv
  <1>2. CASE \E s \in Senders : DecideAndRecord(s)
    BY <1>1, <1>2, DecideInv
  <1>3. CASE \E s \in Senders : Prepare(s)
    <2>1. UNCHANGED <<now, passed, lastSent, window>> /\ now <= now'
      BY <1>1, <1>3 DEF Prepare, TypeOK
    <2>. QED  BY <1>1, <1>3, <2>1, PrepareTold, PassedUnchanged DEF IndInv
  <1>4. CASE /\ UNCHANGED <<passed, lastSent, window, suppCount, suppressed, told>>
             /\ now <= now'
    <2>1. ToldOnce'
      BY <1>4 DEF IndInv, ToldOnce
    <2>. QED  BY <1>1, <1>4, <2>1, PassedUnchanged DEF IndInv
  <1>5. CASE \E s \in Senders, m \in Messages : Make(s, m)
    BY <1>1, <1>4, <1>5 DEF Make, managerVars, histVars, TypeOK
  <1>6. CASE \E s \in Senders, c \in Channels : Deliver(s, c)
    BY <1>1, <1>4, <1>6 DEF Deliver, managerVars, histVars, TypeOK
  <1>7. CASE FlushDigest
    BY <1>1, <1>4, <1>7 DEF FlushDigest, TypeOK
  <1>8. CASE \E c \in Channels : DeliverDigest(c)
    BY <1>1, <1>4, <1>8 DEF DeliverDigest, managerVars, histVars, TypeOK
  <1>9. CASE Tick
    BY <1>1, <1>4, <1>9 DEF Tick, managerVars, histVars, TypeOK
  <1>10. CASE UNCHANGED vars
    BY <1>1, <1>4, <1>10 DEF vars, TypeOK
  <1>. QED  BY <1>2, <1>3, <1>5, <1>6, <1>7, <1>8, <1>9, <1>10 DEF Next

\* The inductive invariant holds in every reachable state.
THEOREM Inductive == Spec => []IndInv
  BY InitInv, NextInv, PTL DEF Spec

\* decideAndRecord never lets two messages of one key through within a cooldown.
THEOREM CooldownKept == Spec => []CooldownSpacing
  <1>1. IndInv => CooldownSpacing
    BY DEF IndInv
  <1>. QED  BY <1>1, Inductive, PTL

\* decideAndRecord's window limits the prompt messages of every minute, although
\* the timestamps of other senders prune it out of order.
THEOREM RateKept == Spec => []RateLimited
  <1>1. IndInv => RateLimited
    BY DEF IndInv
  <1>. QED  BY <1>1, Inductive, PTL

\* The two critical sections of Send lose no suppression and tell of none twice.
THEOREM SuppressionsToldOnce == Spec => []ToldOnce
  <1>1. IndInv => ToldOnce
    BY DEF IndInv
  <1>. QED  BY <1>1, Inductive, PTL

-----------------------------------------------------------------------------
(* The gate: NotifierManager implements NotifierGate.                      *)

\* The last stamp of a key is always that of a message let through.
LEMMA SeenAlways == Spec => []LastSentSeen
  <1>1. Init => LastSentSeen
    BY DEF Init, LastSentSeen
  <1>2. TypeOK /\ TypeOK' /\ LastSentSeen /\ [Next]_vars => LastSentSeen'
    <2>. SUFFICES ASSUME TypeOK, TypeOK', LastSentSeen, [Next]_vars PROVE LastSentSeen'
      OBVIOUS
    <2>1. CASE UNCHANGED <<lastSent, passed>>
      BY <2>1 DEF LastSentSeen
    <2>2. CASE \E s \in Senders : DecideAndRecord(s)
      <3>. PICK s \in Senders : DecideAndRecord(s)
        BY <2>2
      <3>1. CASE Filtered(s) \/ CooldownSuppressed(s) \/ RateSuppressed(s)
        BY <2>1, <3>1 DEF Filtered, CooldownSuppressed, RateSuppressed, Suppress,
                          managerVars, histVars
      <3>2. CASE Recorded(s)
        <4>. DEFINE x == NewPassed(s)
        <4>1. /\ passed' = passed \cup {x}
              /\ lastSent' = [lastSent EXCEPT ![x.key] = x.stamp]
          BY <3>2 DEF Recorded, NewPassed
        <4>. HIDE DEF x
        <4>2. \A k \in Keys : lastSent'[k] = IF k = x.key THEN x.stamp ELSE lastSent[k]
          BY <4>1 DEF TypeOK
        <4>. QED  BY <4>1, <4>2 DEF LastSentSeen
      <3>. QED  BY <3>1, <3>2 DEF DecideAndRecord
    <2>3. CASE \/ \E s \in Senders : \/ \E m \in Messages : Make(s, m)
                                     \/ Prepare(s)
                                     \/ \E c \in Channels : Deliver(s, c)
               \/ FlushDigest
               \/ \E c \in Channels : DeliverDigest(c)
               \/ Tick
               \/ UNCHANGED vars
      BY <2>1, <2>3 DEF Make, Prepare, Deliver, FlushDigest, DeliverDigest, Tick, vars,
                        managerVars, histVars
    <2>. QED  BY <2>2, <2>3 DEF Next
  <1>. QED  BY <1>1, <1>2, TypeCorrect, PTL DEF Spec

\* A sender's step changes its own place at the gate and no other's.
LEMMA CallerStep ==
  ASSUME TypeOK, NEW s \in Senders, NEW r, sender' = [sender EXCEPT ![s] = r]
  PROVE  Caller' = [Caller EXCEPT ![s] = Asking(r)]
  <1>1. \A x \in Senders : sender'[x] = IF x = s THEN r ELSE sender[x]
    BY DEF TypeOK
  <1>2. Caller' = [x \in Senders |-> Asking(sender'[x])]
    BY DEF Caller
  <1>3. \A x \in Senders : Caller'[x] = IF x = s THEN Asking(r) ELSE Caller[x]
    BY <1>1, <1>2 DEF Caller
  <1>. QED  BY <1>2, <1>3 DEF Caller

\* Whoever is neither at the door nor at the title is outside.
LEMMA Outside ==
  ASSUME NEW r, r.pc # "made", r.pc # "recorded"
  PROVE  Asking(r) = Gate!Outside
  BY DEF Asking, Gate!Outside

\* A sender that returns leaves.
LEMMA LeaveStep ==
  ASSUME TypeOK, NEW s \in Senders, Return(s)
  PROVE  Caller' = [Caller EXCEPT ![s] = Gate!Outside]
  <1>1. Asking(IdleSender) = Gate!Outside
    BY Outside DEF IdleSender
  <1>. QED  BY <1>1, CallerStep DEF Return

\* A decided message stands at the door.
LEMMA DoorPlace ==
  ASSUME NEW s \in Senders, sender[s].pc = "made"
  PROVE  /\ Caller[s].at = "door" /\ Caller[s].msg = sender[s].msg
         /\ Caller[s].stamp = sender[s].stamp
  BY DEF Caller, Asking

\* Its key is cooling for the gate exactly if it is for the manager.
LEMMA CoolingSame ==
  ASSUME IndInv, LastSentSeen, NEW s \in Senders, sender[s].pc = "made"
  PROVE  Gate!Cooling(s) <=> InCooldown(s)
  <1>. DEFINE k == sender[s].msg.key
              t == sender[s].stamp
              c == Filters.cooldown
  <1>1. k \in Keys /\ t \in Nat /\ c \in Nat
    BY AtWork, FiltersType DEF IndInv
  <1>2. /\ lastSent[k] \in Nat \cup {NoTime}
        /\ \A p \in passed : p.stamp \in Nat
    BY <1>1 DEF IndInv, TypeOK, Passed
  <1>3. Gate!Cooling(s) <=> c > 0 /\ \E p \in passed : p.key = k /\ t - p.stamp < c
    BY DoorPlace DEF Gate!Cooling
  <1>4. InCooldown(s) <=> c > 0 /\ lastSent[k] # NoTime /\ t - lastSent[k] < c
    BY DEF InCooldown
  <1>5. ASSUME InCooldown(s) PROVE Gate!Cooling(s)
    BY <1>1, <1>3, <1>4, <1>5 DEF LastSentSeen
  <1>6. ASSUME Gate!Cooling(s) PROVE InCooldown(s)
    <2>1. PICK p \in passed : p.key = k /\ t - p.stamp < c
      BY <1>3, <1>6
    <2>2. p.stamp <= lastSent[k]
      BY <1>3, <1>6, <2>1 DEF IndInv, LastSentInv
    <2>. QED  BY <1>1, <1>2, <1>3, <1>4, <1>6, <2>1, <2>2
  <1>. QED  BY <1>5, <1>6

\* The gate counts as the manager does.
LEMMA SameCount == \A S : Gate!Cardinality(S) = Cardinality(S)
  BY DEF Gate!Cardinality, Cardinality

\* What the pruned window holds is enough for a cause, and for room.
LEMMA CrowdSame ==
  ASSUME IndInv, NEW s \in Senders, sender[s].pc = "made"
  PROVE  /\ AtLimit(s) => Gate!Crowded(sender[s].stamp)
         /\ Gate!Crowded(now) => AtLimit(s)
  <1>. DEFINE t == sender[s].stamp
              max == Filters.maxPerMinute
              crowd(u) == {p \in passed : p.stamp > u - Minute}
  <1>1. TypeOK /\ t \in Nat /\ now \in Nat /\ t <= now /\ max \in Nat
    BY AtWork, FiltersType DEF IndInv, TypeOK
  <1>2. \A p \in passed : p.stamp \in Nat
    BY <1>1 DEF TypeOK, Passed
  <1>3. \A u : IsFiniteSet(crowd(u)) /\ Cardinality(crowd(u)) \in Nat
    <2>. TAKE u
    <2>1. IsFiniteSet(passed) /\ crowd(u) \subseteq passed
      BY <1>1 DEF TypeOK
    <2>. HIDE DEF crowd
    <2>. QED  BY <2>1, FS_Subset, FS_CardinalityType
  <1>4. /\ IsFiniteSet(Recent(t)) /\ Cardinality(Recent(t)) \in Nat
    BY <1>1, RecentFinite
  <1>5. Recent(t) \subseteq crowd(t)
    BY <1>1 DEF Recent, TypeOK
  <1>6. Cardinality(Recent(t)) <= Cardinality(crowd(t))
    BY <1>3, <1>5, FS_Subset
  <1>7. max > 0 => crowd(now) \subseteq Recent(t)
    BY <1>1, <1>2 DEF IndInv, WindowInv, Recent
  <1>8. max > 0 => Cardinality(crowd(now)) <= Cardinality(Recent(t))
    BY <1>4, <1>7, FS_Subset
  <1>9. \A u : Gate!Crowded(u) <=> max > 0 /\ Cardinality(crowd(u)) >= max
    BY SameCount DEF Gate!Crowded
  <1>10. AtLimit(s) <=> max > 0 /\ Cardinality(Recent(t)) >= max
    BY DEF AtLimit
  <1>. HIDE DEF crowd, t, max
  <1>11. AtLimit(s) => Gate!Crowded(t)
    BY <1>1, <1>3, <1>4, <1>6, <1>9, <1>10
  <1>12. Gate!Crowded(now) => AtLimit(s)
    BY <1>1, <1>3, <1>4, <1>8, <1>9, <1>10
  <1>. QED  BY <1>11, <1>12 DEF t

\* A step that moves no sender past a stage changes nothing at the gate.
LEMMA StutterMaps ==
  ASSUME UNCHANGED <<now, passed, suppressed, told>>, Caller' = Caller
  PROVE  UNCHANGED Gate!vars
  BY DEF Gate!vars

\* Making a message asks the gate.
LEMMA MakeMaps ==
  ASSUME TypeOK, NEW s \in Senders, NEW m \in Messages, Make(s, m)
  PROVE  Gate!Ask(s, m)
  <1>. DEFINE r == [pc |-> "made", msg |-> m, stamp |-> now, left |-> {}]
  <1>1. Caller[s].at = "out"
    BY Outside DEF Make, Caller, Gate!Outside
  <1>2. Asking(r) = [at |-> "door", msg |-> m, stamp |-> now]
    BY DEF Asking
  <1>3. sender' = [sender EXCEPT ![s] = r]
    BY DEF Make
  <1>. HIDE DEF r
  <1>4. Caller' = [Caller EXCEPT ![s] = [at |-> "door", msg |-> m, stamp |-> now]]
    BY <1>2, <1>3, CallerStep
  <1>5. Caller'[s].at = "door"
    BY <1>4 DEF Caller
  <1>. QED  BY <1>1, <1>4, <1>5 DEF Make, Gate!Ask, histVars

\* The decision is the gate's.
LEMMA DecideMaps ==
  ASSUME IndInv, LastSentSeen, NEW s \in Senders, DecideAndRecord(s)
  PROVE  Gate!Refuse(s) \/ Gate!Suppress(s) \/ Gate!Pass(s)
  <1>1. TypeOK /\ sender[s].pc = "made" /\ now' = now /\ sender[s].msg \in Messages
    BY AtWork DEF DecideAndRecord, IndInv
  <1>2. Allowed(sender[s].msg) <=> Caller[s].msg \in Welcome
    BY <1>1, DoorPlace DEF Welcome
  <1>3. CASE Filtered(s)
    <2>1. Gate!Leave(s)
      BY <1>1, <1>3, LeaveStep DEF Filtered, Gate!Leave
    <2>. QED  BY <1>1, <1>2, <1>3, <2>1, DoorPlace DEF Filtered, Gate!Refuse, histVars
  <1>4. CASE CooldownSuppressed(s) \/ RateSuppressed(s)
    <2>1. Gate!Leave(s)
      BY <1>1, <1>4, LeaveStep DEF CooldownSuppressed, RateSuppressed, Gate!Leave
    <2>2. Gate!AtDoor(s)
      BY <1>1, <1>2, <1>4, DoorPlace DEF CooldownSuppressed, RateSuppressed, Gate!AtDoor
    <2>3. Gate!Cooling(s) \/ Gate!Crowded(Caller[s].stamp)
      BY <1>1, <1>4, CoolingSame, CrowdSame, DoorPlace DEF CooldownSuppressed, RateSuppressed
    <2>4. Suppress(sender[s].msg.key)
      BY <1>4 DEF CooldownSuppressed, RateSuppressed
    <2>. QED  BY <1>1, <2>1, <2>2, <2>3, <2>4, DoorPlace DEF Suppress, Gate!Suppress
  <1>5. CASE Recorded(s)
    <2>. DEFINE r == [sender[s] EXCEPT !.pc = "recorded"]
    <2>1. ~Gate!Cooling(s) /\ ~Gate!Crowded(now)
      BY <1>1, <1>5, CoolingSame, CrowdSame DEF Recorded
    <2>2. Gate!AtDoor(s)
      BY <1>1, <1>2, <1>5, DoorPlace DEF Recorded, Gate!AtDoor
    <2>3. sender' = [sender EXCEPT ![s] = r]
      BY <1>5 DEF Recorded
    <2>4. sender[s] \in Sender
      BY <1>1, AtWork
    <2>5. Asking(r) = [Asking(sender[s]) EXCEPT !.at = "title"]
      BY <1>1, <2>4 DEF Asking, Sender
    <2>. HIDE DEF r
    <2>6. Caller' = [Caller EXCEPT ![s].at = "title"]
      <3>1. Caller' = [Caller EXCEPT ![s] = Asking(r)]
        BY <1>1, <2>3, CallerStep
      <3>2. Caller[s] = Asking(sender[s])
        BY DEF Caller
      <3>. QED  BY <2>5, <3>1, <3>2
    <2>7. passed' = passed \cup {[n |-> Cardinality(passed), key |-> Caller[s].msg.key,
                                  stamp |-> Caller[s].stamp, at |-> now]}
      BY <1>1, <1>5, DoorPlace DEF Recorded
    <2>8. UNCHANGED <<now, suppressed, told>>
      BY <1>1, <1>5 DEF Recorded
    <2>9. Gate!Pass(s)
      BY ONLY <2>1, <2>2, <2>6, <2>7, <2>8, SameCount DEF Gate!Pass
    <2>. QED  BY <2>9
  <1>. QED  BY <1>3, <1>4, <1>5 DEF DecideAndRecord

\* The second critical section tells of all that was suppressed.
LEMMA PrepareMaps ==
  ASSUME IndInv, NEW s \in Senders, Prepare(s)
  PROVE  Gate!Tell(s)
  <1>. DEFINE k == sender[s].msg.key
  <1>1. TypeOK /\ sender[s].pc = "recorded" /\ k \in Keys
    BY AtWork DEF Prepare, IndInv
  <1>2. /\ Caller[s].at = "title" /\ Caller[s].msg = sender[s].msg
    BY <1>1 DEF Caller, Asking
  <1>3. suppressed[k] = told[k] + suppCount[k]
    BY <1>1 DEF IndInv, ToldOnce, TypeOK
  <1>4. told' = [told EXCEPT ![k] = suppressed[k]]
    BY <1>1, <1>3 DEF Prepare
  <1>5. Caller' = [Caller EXCEPT ![s] = Gate!Outside]
    <2>1. CASE Return(s)
      BY <1>1, <2>1, LeaveStep
    <2>2. CASE sender' = [sender EXCEPT ![s].pc = "sending", ![s].left = notifiers]
      <3>. DEFINE r == [sender[s] EXCEPT !.pc = "sending", !.left = notifiers]
      <3>1. sender' = [sender EXCEPT ![s] = r]
        BY <1>1, <2>2 DEF TypeOK
      <3>2. Asking(r) = Gate!Outside
        BY <1>1, Outside, AtWork DEF Sender
      <3>. HIDE DEF r
      <3>. QED  BY <1>1, <3>1, <3>2, CallerStep
    <2>. QED  BY <2>1, <2>2 DEF Prepare
  <1>. QED  BY <1>2, <1>4, <1>5 DEF Prepare, Gate!Tell, Gate!Leave

\* Calling a channel is past the gate.
LEMMA DeliverMaps ==
  ASSUME IndInv, NEW s \in Senders, NEW c \in Channels, Deliver(s, c)
  PROVE  UNCHANGED Gate!vars
  <1>1. TypeOK /\ sender[s].pc = "sending" /\ sender[s] \in Sender
    BY AtWork DEF Deliver, IndInv
  <1>3. Caller' = [Caller EXCEPT ![s] = Gate!Outside]
    <2>1. CASE Return(s)
      BY <1>1, <2>1, LeaveStep
    <2>2. CASE sender' = [sender EXCEPT ![s].left = @ \ {c}]
      <3>. DEFINE r == [sender[s] EXCEPT !.left = @ \ {c}]
      <3>1. sender' = [sender EXCEPT ![s] = r]
        BY <2>2
      <3>2. Asking(r) = Gate!Outside
        BY <1>1, Outside DEF Sender
      <3>. HIDE DEF r
      <3>. QED  BY <1>1, <3>1, <3>2, CallerStep
    <2>. QED  BY <2>1, <2>2 DEF Deliver
  <1>4. Caller[s] = Gate!Outside
    BY <1>1, Outside DEF Caller
  <1>5. Caller' = Caller
    BY <1>3, <1>4 DEF Caller
  <1>. QED  BY <1>5, StutterMaps DEF Deliver, histVars

\* Every step of the manager is a step of the gate, or nothing the gate sees.
LEMMA GateStep ==
  ASSUME IndInv, LastSentSeen, [Next]_vars
  PROVE  [Gate!Next]_(Gate!vars)
  <1>1. TypeOK
    BY DEF IndInv
  <1>2. CASE \E s \in Senders, m \in Messages : Make(s, m)
    BY <1>1, <1>2, MakeMaps DEF Gate!Next
  <1>3. CASE \E s \in Senders : DecideAndRecord(s)
    BY <1>3, DecideMaps DEF Gate!Next
  <1>4. CASE \E s \in Senders : Prepare(s)
    BY <1>4, PrepareMaps DEF Gate!Next
  <1>5. CASE \E s \in Senders, c \in Channels : Deliver(s, c)
    BY <1>5, DeliverMaps
  <1>6. CASE FlushDigest \/ (\E c \in Channels : DeliverDigest(c)) \/ UNCHANGED vars
    <2>1. UNCHANGED <<now, sender, passed, suppressed, told>>
      BY <1>6 DEF FlushDigest, DeliverDigest, vars, histVars
    <2>. QED  BY <2>1, StutterMaps DEF Caller
  <1>7. CASE Tick
    <2>1. UNCHANGED <<sender, passed, suppressed, told>> /\ now' = now + 1
      BY <1>7 DEF Tick, histVars
    <2>2. Caller' = Caller
      BY <2>1 DEF Caller
    <2>. QED  BY <2>1, <2>2 DEF Gate!Tick, Gate!Next
  <1>. QED  BY <1>2, <1>3, <1>4, <1>5, <1>6, <1>7 DEF Next

\* Send, with its two critical sections, a last stamp per key and a window that
\* late messages prune out of order, implements NotifierGate: it decides by what
\* was let through, suppresses for a cause only, and each title tells of all there is.
THEOREM ImplementsGate == Spec => KeepsGate
  <1>1. Init => Gate!Init
    <2>. SUFFICES ASSUME Init PROVE Gate!Init
      OBVIOUS
    <2>1. Asking(IdleSender) = Gate!Outside
      BY Outside DEF IdleSender
    <2>2. Caller = [s \in Senders |-> Gate!Outside]
      BY <2>1 DEF Caller, Init
    <2>. QED  BY <2>2 DEF Init, Gate!Init
  <1>2. IndInv /\ LastSentSeen /\ [Next]_vars => [Gate!Next]_(Gate!vars)
    BY GateStep
  <1>. QED  BY <1>1, <1>2, Inductive, SeenAlways, PTL DEF Spec, KeepsGate, Gate!Spec

-----------------------------------------------------------------------------
(* The digest.                                                             *)

\* The other keys listed for as many suppressions as a digest asks for.
Listed(k) == {l \in Keys \ {k} : digested[l] >= Filters.digestMinCount}

\* What a digest lists stays listed.
LEMMA ListedGrows ==
  ASSUME TypeOK, TypeOK', NEW k \in Keys, \A l \in Keys : digested'[l] >= digested[l]
  PROVE  /\ IsFiniteSet(Listed(k)') /\ Cardinality(Listed(k)') \in Nat
         /\ Cardinality(Listed(k)) \in Nat
         /\ Cardinality(Listed(k)') >= Cardinality(Listed(k))
  <1>1. \A l \in Keys : digested[l] \in Nat /\ digested'[l] \in Nat
    BY DEF TypeOK
  <1>2. Listed(k) \subseteq Listed(k)'
    BY <1>1, FiltersType DEF Listed
  <1>3. Listed(k)' \subseteq Keys
    BY DEF Listed
  <1>4. IsFiniteSet(Listed(k)')
    BY <1>3, FS_Subset
  <1>5. IsFiniteSet(Listed(k)) /\ Cardinality(Listed(k)) <= Cardinality(Listed(k)')
    BY <1>2, <1>4, FS_Subset
  <1>. QED  BY <1>4, <1>5, FS_CardinalityType

\* While nothing is deleted unlisted, what was known stays so.
LEMMA NothingMoreLost ==
  ASSUME TypeOK, TypeOK', LostOnlyIfFull, NEW k \in Keys,
         \A l \in Keys : digested'[l] >= digested[l],
         Unlisted(k)' = Unlisted(k)
  PROVE  /\ Unlisted(k)' >= 0
         /\ Unlisted(k)' > 0 => Cardinality(Listed(k)') >= Filters.digestMaxItems
  <1>1. /\ Unlisted(k) >= 0
        /\ Unlisted(k) > 0 => Cardinality(Listed(k)) >= Filters.digestMaxItems
    BY DEF LostOnlyIfFull, Listed
  <1>. QED  BY <1>1, ListedGrows, FiltersType

\* What is due and does not fit stands aside for a digest that is full.
LEMMA FullDigest ==
  ASSUME TypeOK, TypeOK', NEW items \in SUBSET Due, Fits(items),
         NEW k \in Due \ items,
         \A l \in Keys : digested'[l] = IF l \in items THEN digested[l] + suppStats[l]
                                       ELSE digested[l]
  PROVE  Cardinality(Listed(k)') >= Filters.digestMaxItems
  <1>1. \A l \in Keys : digested[l] \in Nat /\ suppStats[l] \in Nat
    BY DEF TypeOK
  <1>2. Due \subseteq Keys /\ IsFiniteSet(Due)
    BY FS_Subset DEF Due
  <1>3. Cardinality(items) = Filters.digestMaxItems
    <2>1. Cardinality(items) # Cardinality(Due)
      BY <1>2, FS_Subset
    <2>. QED  BY <2>1 DEF Fits
  <1>4. items \subseteq Listed(k)'
    <2>. SUFFICES ASSUME NEW l \in items PROVE l \in Listed(k)'
      OBVIOUS
    <2>1. l \in Keys \ {k} /\ suppStats[l] >= Filters.digestMinCount
      BY DEF Due
    <2>. QED  BY <1>1, <2>1, FiltersType DEF Listed
  <1>5. IsFiniteSet(Listed(k)')
    <2>1. Listed(k)' \subseteq Keys
      BY DEF Listed
    <2>. QED  BY <2>1, FS_Subset
  <1>. QED  BY <1>3, <1>4, <1>5, FS_Subset, FS_CardinalityType

\* A flush deletes unlisted only what a full digest has no room for.
LEMMA FlushLoses ==
  ASSUME TypeOK, TypeOK', LostOnlyIfFull, FlushDue, suppressed' = suppressed
  PROVE  LostOnlyIfFull'
  <1>. SUFFICES ASSUME NEW k \in Keys
                PROVE  /\ Unlisted(k)' >= 0
                       /\ Unlisted(k)' > 0 => Cardinality(Listed(k)') >= Filters.digestMaxItems
    BY DEF LostOnlyIfFull, Listed
  <1>. PICK items \in SUBSET Due :
         /\ Fits(items)
         /\ digested' = [l \in Keys |-> IF l \in items THEN digested[l] + suppStats[l]
                                                       ELSE digested[l]]
    BY DEF FlushDue
  <1>1. \A l \in Keys : suppressed[l] \in Nat /\ suppStats[l] \in Nat /\ digested[l] \in Nat
    BY DEF TypeOK
  <1>2. /\ \A l \in Keys : digested'[l] = IF l \in items THEN digested[l] + suppStats[l]
                                           ELSE digested[l]
        /\ suppStats'[k] = IF k \in Due THEN 0 ELSE suppStats[k]
    BY DEF FlushDue
  <1>3. \A l \in Keys : digested'[l] >= digested[l]
    BY <1>1, <1>2
  <1>4. CASE k \in items \/ k \notin Due
    <2>1. Unlisted(k)' = Unlisted(k)
      BY <1>1, <1>2, <1>4 DEF Unlisted
    <2>. QED  BY <1>3, <2>1, NothingMoreLost
  <1>5. CASE k \in Due \ items
    <2>1. Unlisted(k)' = Unlisted(k) + suppStats[k]
      BY <1>1, <1>2, <1>5 DEF Unlisted
    <2>2. Unlisted(k) \in Int
      BY <1>1 DEF Unlisted
    <2>3. Unlisted(k) >= 0
      BY DEF LostOnlyIfFull
    <2>4. Cardinality(Listed(k)') >= Filters.digestMaxItems
      BY <1>2, <1>5, FullDigest
    <2>. QED  BY <1>1, <2>1, <2>2, <2>3, <2>4
  <1>. QED  BY <1>4, <1>5

\* A suppression adds one to what was suppressed and to what the digest will say.
LEMMA SuppressLoses ==
  ASSUME TypeOK, TypeOK', LostOnlyIfFull, NEW k \in Keys, Suppress(k)
  PROVE  LostOnlyIfFull'
  <1>1. \A l \in Keys : suppressed[l] \in Nat /\ suppStats[l] \in Nat /\ digested[l] \in Nat
    BY DEF TypeOK
  <1>2. \A l \in Keys :
           /\ suppressed'[l] = IF l = k THEN suppressed[l] + 1 ELSE suppressed[l]
           /\ suppStats'[l] = IF l = k THEN suppStats[l] + 1 ELSE suppStats[l]
           /\ digested'[l] = digested[l]
    BY DEF Suppress, TypeOK
  <1>3. \A l \in Keys : Unlisted(l)' = Unlisted(l) /\ digested'[l] >= digested[l]
    BY <1>1, <1>2 DEF Unlisted
  <1>. QED  BY <1>3, NothingMoreLost DEF LostOnlyIfFull, Listed

\* Whatever the number of keys, flushDigest lists no suppression twice, and
\* deletes one unlisted only when other keys that are due fill the digest.
THEOREM LostOnlyWhenFull == Spec => []LostOnlyIfFull
  <1>1. Init => LostOnlyIfFull
    BY DEF Init, LostOnlyIfFull, Unlisted
  <1>2. TypeOK /\ TypeOK' /\ LostOnlyIfFull /\ [Next]_vars => LostOnlyIfFull'
    <2>. SUFFICES ASSUME TypeOK, TypeOK', LostOnlyIfFull, [Next]_vars PROVE LostOnlyIfFull'
      OBVIOUS
    <2>1. CASE UNCHANGED <<suppressed, suppStats, digested>>
      BY <2>1 DEF LostOnlyIfFull, Unlisted
    <2>2. CASE \E s \in Senders : DecideAndRecord(s)
      <3>. PICK s \in Senders : DecideAndRecord(s)
        BY <2>2
      <3>1. sender[s].msg.key \in Keys
        BY AtWork DEF DecideAndRecord
      <3>2. CASE Filtered(s)
        BY <2>1, <3>2 DEF Filtered, managerVars, histVars
      <3>3. CASE CooldownSuppressed(s) \/ RateSuppressed(s)
        BY <3>1, <3>3, SuppressLoses DEF CooldownSuppressed, RateSuppressed
      <3>4. CASE Recorded(s)
        BY <2>1, <3>4 DEF Recorded
      <3>. QED  BY <3>2, <3>3, <3>4 DEF DecideAndRecord
    <2>3. CASE FlushDigest
      BY <2>1, <2>3, FlushLoses DEF FlushDigest
    <2>4. CASE \/ \E s \in Senders : \/ \E m \in Messages : Make(s, m)
                                     \/ Prepare(s)
                                     \/ \E c \in Channels : Deliver(s, c)
               \/ \E c \in Channels : DeliverDigest(c)
               \/ Tick
               \/ UNCHANGED vars
      BY <2>1, <2>4 DEF Make, Prepare, Deliver, DeliverDigest, Tick, vars, managerVars, histVars
    <2>. QED  BY <2>2, <2>3, <2>4 DEF Next
  <1>. QED  BY <1>1, <1>2, TypeCorrect, PTL DEF Spec

=============================================================================
