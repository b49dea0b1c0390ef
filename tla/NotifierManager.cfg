\* Two senders, one key in cooldown and one that is forced, a limit of two
\* messages in three ticks, digests with room for one of two keys.
SPECIFICATION Spec
CONSTANTS
  s1 = s1
  s2 = s2
  c1 = c1
  c2 = c2
  k1 = k1
  k2 = k2
  NoMessage = NoMessage
  MinCount = 1
  MaxItems = 1
  Senders = {s1, s2}
  Channels = {c1}
  Keys = {k1, k2}
  Messages <- SomeMessages
  Given <- SomeFilters
  Minute = 3
  MaxTime = 4
  MaxCalls = 4
SYMMETRY Symmetry
INVARIANTS TypeOK CooldownSpacing RateLimited ToldOnce LostOnlyIfFull
PROPERTIES KeepsGate
CHECK_DEADLOCK FALSE
