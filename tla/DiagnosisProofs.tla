---------------------------- MODULE DiagnosisProofs ----------------------------
(***************************************************************************)
(* Proofs about Diagnosis, for every environment, answer and report.       *)
(*                                                                         *)
(* What a process has made of its environment (ConfiguredInv), what the    *)
(* request rests on (CallInv) and what is known of its answer (AnswerInv)  *)
(* are inductive, and so is that a message is a sequence of lines          *)
(* (MessageInv).  The properties of what is posted follow from the last    *)
(* one and from lemmas about Rendering that hold of every text: what the   *)
(* recursive functions there compute is shown by the smallest              *)
(* counterexample, through Recursion, Induction and Downward.  That the    *)
(* scan for a cut ends at the last boundary that fits is CutScanned, that  *)
(* a row's line holds the cells of the row RowTextHolds.                   *)
(***************************************************************************)
EXTENDS Diagnosis, SequenceTheorems, FiniteSetTheorems, WellFoundedInduction, TLAPS

(* Recursive functions: that there is one with the equation by which it is *)
(* defined, and what holds of all its values.                              *)

\* What holds of zero and of the successor of every number it holds of.
LEMMA Induction ==
  ASSUME NEW T, 0 \in T, \A n \in Nat : n \in T => n + 1 \in T
  PROVE  Nat \subseteq T
<1> DEFINE R == {p \in Nat \X Nat : p[1] < p[2]}
           F == Nat \ T
<1>1. IsWellFoundedOn(R, Nat)
  BY NatLessThanWellFounded DEF OpToRel
<1> SUFFICES ASSUME F # {} PROVE FALSE
  OBVIOUS
<1>2. F \subseteq Nat
  OBVIOUS
<1>3. PICK x \in F : \A y \in F : ~(<<y, x>> \in R)
  <2> HIDE DEF F, R
  <2> QED BY <1>1, <1>2, WFMin
<1>4. x # 0 /\ x - 1 \in Nat /\ x - 1 < x
  OBVIOUS
<1>5. x - 1 \in T
  BY <1>3, <1>4
<1>6. (x - 1) + 1 \in T
  BY <1>4, <1>5
<1> QED BY <1>6

\* f is defined by recursion on 0..N, from b by the steps of F.
Recurs(f, S, b, N, F) ==
  /\ f \in [0..N -> S]
  /\ f[0] = b
  /\ \A n \in 1..N : f[n] = F[<<n, f[n - 1]>>]

\* There is such a function, whatever the steps.
LEMMA Recursion ==
  ASSUME NEW S, NEW b \in S, NEW N \in Nat, NEW F \in [(1..N) \X S -> S]
  PROVE  \E f : Recurs(f, S, b, N, F)
<1> DEFINE P(k) == \E f \in [0..N -> S] : f[0] = b /\ \A n \in 1..N : n <= k => f[n] = F[<<n, f[n - 1]>>]
           T == {k \in Nat : P(k)}
<1>1. 0 \in T
  <2> DEFINE f == [n \in 0..N |-> b]
  <2>1. f \in [0..N -> S] /\ f[0] = b
    OBVIOUS
  <2>2. \A n \in 1..N : ~(n <= 0)
    OBVIOUS
  <2> HIDE DEF f
  <2>3. P(0)
    BY <2>1, <2>2
  <2> QED BY <2>3
<1>2. ASSUME NEW k \in Nat, k \in T PROVE k + 1 \in T
  <2>1. PICK f \in [0..N -> S] : f[0] = b /\ \A n \in 1..N : n <= k => f[n] = F[<<n, f[n - 1]>>]
    BY <1>2
  <2>2. CASE k + 1 \in 1..N
    <3> DEFINE v == F[<<k + 1, f[k]>>]
               g == [f EXCEPT ![k + 1] = v]
    <3>1. v \in S
      BY <2>2
    <3>2. g \in [0..N -> S] /\ g[k + 1] = v /\ \A n \in 0..N : n # k + 1 => g[n] = f[n]
      BY <2>2, <3>1
    <3> HIDE DEF g
    <3>3. ASSUME NEW n \in 1..N, n <= k + 1 PROVE g[n] = F[<<n, g[n - 1]>>]
      <4>0. n - 1 \in 0..N /\ n - 1 # k + 1 /\ n \in 0..N
        BY <3>3
      <4>1. g[n - 1] = f[n - 1]
        BY <3>2, <4>0
      <4>2. CASE n = k + 1
        BY <3>2, <4>1, <4>2
      <4>3. CASE n # k + 1
        BY <2>1, <3>2, <3>3, <4>0, <4>1, <4>3
      <4> QED BY <4>2, <4>3
    <3>4. g[0] = b
      BY <2>1, <3>2
    <3> QED BY <3>2, <3>3, <3>4
  <2>3. CASE ~(k + 1 \in 1..N)
    <3>1. \A n \in 1..N : n <= k + 1 => n <= k
      BY <2>3
    <3> QED BY <2>1, <3>1
  <2> QED BY <2>2, <2>3
<1>3. N \in T
  <2> HIDE DEF T
  <2> QED BY <1>1, <1>2, Induction
<1> QED BY <1>3 DEF Recurs

\* A set of numbers that is not empty has a smallest one.
LEMMA MinIsSmallest ==
  ASSUME NEW S \in SUBSET Nat, S # {}
  PROVE  Min(S) \in S /\ \A y \in S : Min(S) <= y
<1> DEFINE R == {p \in Nat \X Nat : p[1] < p[2]}
           P(x) == \A y \in S : x <= y
<1>1. IsWellFoundedOn(R, Nat)
  BY NatLessThanWellFounded DEF OpToRel
<1>2. PICK x \in S : \A y \in S : ~(<<y, x>> \in R)
  <2> HIDE DEF R
  <2> QED BY <1>1, WFMin
<1>3. P(x)
  <2>1. \A y \in S : ~(y < x)
    BY <1>2
  <2> QED BY <2>1
<1>4. Min(S) = CHOOSE y \in S : P(y)
  BY DEF Min
<1>5. Min(S) \in S /\ P(Min(S))
  <2> HIDE DEF P
  <2> QED BY <1>3, <1>4
<1> QED BY <1>5

\* A bounded set of numbers that is not empty has a largest one.
LEMMA MaxIsLargest ==
  ASSUME NEW S \in SUBSET Nat, S # {}, NEW B \in Nat, \A y \in S : y <= B
  PROVE  Max(S) \in S /\ \A y \in S : y <= Max(S)
<1> DEFINE T == {n \in Nat : B - n \in S}
           n == Min(T)
<1>1. T \in SUBSET Nat /\ T # {}
  <2>1. PICK y \in S : TRUE
    OBVIOUS
  <2>2. y \in Nat /\ y <= B
    OBVIOUS
  <2>3. B - y \in Nat /\ B - (B - y) = y
    BY <2>2
  <2> QED BY <2>3
<1>2. n \in T /\ \A k \in T : n <= k
  <2> HIDE DEF T
  <2> QED BY <1>1, MinIsSmallest
<1>3. n \in Nat /\ B - n \in S
  BY <1>2
<1>4. ASSUME NEW y \in S PROVE y <= B - n
  <2>1. B - y \in Nat /\ B - (B - y) = y
    OBVIOUS
  <2>2. B - y \in T
    BY <2>1
  <2>3. n <= B - y
    BY <1>2, <2>2
  <2> HIDE DEF n
  <2> QED BY <1>3, <2>1, <2>3
<1>5. \E x \in S : \A y \in S : x >= y
  <2>1. B - n \in S /\ B - n \in Nat
    BY <1>3
  <2>2. \A y \in S : B - n >= y
    BY <1>4, <2>1
  <2> QED BY <2>1, <2>2
<1> DEFINE P(x) == \A y \in S : x >= y
<1>6. Max(S) = CHOOSE x \in S : P(x)
  BY DEF Max
<1>7. Max(S) \in S /\ P(Max(S))
  <2>1. \E x \in S : P(x)
    BY <1>5
  <2> HIDE DEF P
  <2> QED BY <1>6, <2>1
<1> QED BY <1>7

-----------------------------------------------------------------------------
(* The configuration and the request.                                      *)

\* What a process that runs has made of its environment.
ConfiguredInv ==
  phase = "running" =>
    /\ providers = LoadProviders(env)
    /\ default = env.default
    /\ default \in DOMAIN providers

\* A request that waits has a provider and no outcome yet; one that never
\* waited had none.
CallInv ==
  /\ call # NoCall => phase = "running"
  /\ call.stage \in {"idle", "waiting", "answered", "posting", "over"}
  /\ call.stage = "waiting" =>
       /\ call.name \in DOMAIN providers
       /\ call.outcome = Failure
  /\ call.stage = "answered" /\ call.reply.kind = "none" =>
       /\ call.outcome = Failure
       /\ IF call.for = "analysis" THEN call.name \notin DOMAIN providers
          ELSE providers[default].type # "deepseek"

Inv == ConfiguredInv /\ CallInv

\* A provider is registered under the name of its type.
LEMMA ProvidersByName ==
  ASSUME NEW e
  PROVE  /\ DOMAIN LoadProviders(e) = e.keys \cap Configurable
         /\ \A n \in DOMAIN LoadProviders(e) : LoadProviders(e)[n].type = n
BY DEF LoadProviders

\* Its type is one that NewProvider knows.
LEMMA ProvidersTyped ==
  ASSUME NEW e, NEW n \in DOMAIN LoadProviders(e)
  PROVE  LoadProviders(e)[n].type \in ProviderTypes
<1>1. n \in ProviderTypes
  BY ProvidersByName DEF Configurable
<1> QED BY <1>1, ProvidersByName, Zenon

\* A process that is down has made nothing of its environment.
LEMMA InvInit == Init => Inv
BY DEF Init, Inv, ConfiguredInv, CallInv, NoCall

\* Every step keeps the configuration and what the request rests on.
LEMMA InvNext == Inv /\ [Next]_vars => Inv'
<1> SUFFICES ASSUME Inv, [Next]_vars PROVE Inv'
  OBVIOUS
<1>1. CASE Start
  <2>1. ConfiguredInv'
    BY <1>1 DEF Start, ConfiguredInv, LoadProviders
  <2>2. call = NoCall
    BY <1>1 DEF Inv, CallInv, Start
  <2>3. CallInv'
    BY <1>1, <2>2 DEF Start, CallInv, NoCall
  <2> QED BY <2>1, <2>3 DEF Inv
<1>2. CASE Restart
  BY <1>2 DEF Restart, Inv, ConfiguredInv, CallInv, NoCall
<1>3. ASSUME NEW name, AskAnalysis(name) PROVE Inv'
  <2>1. ConfiguredInv'
    BY <1>3 DEF AskAnalysis, Inv, ConfiguredInv
  <2>2. CallInv'
    <3> DEFINE stage == IF NameOf(name) \in DOMAIN providers THEN "waiting" ELSE "answered"
    <3>1. /\ call'.stage = stage /\ call'.for = "analysis" /\ call'.name = NameOf(name)
          /\ call'.reply.kind = "none" /\ call'.outcome = Failure /\ phase' = "running"
          /\ providers' = providers
      BY <1>3 DEF AskAnalysis, Asked
    <3> QED BY <3>1 DEF CallInv
  <2> QED BY <2>1, <2>2 DEF Inv
<1>4. ASSUME NEW draft, AskRendering(draft) PROVE Inv'
  <2>1. ConfiguredInv'
    BY <1>4 DEF AskRendering, Inv, ConfiguredInv
  <2>2. CallInv'
    <3> DEFINE stage == IF /\ default \in DOMAIN providers
                           /\ providers[default].type = "deepseek"
                          THEN "waiting" ELSE "answered"
    <3>1. /\ call'.stage = stage /\ call'.for = "rendering" /\ call'.name = default
          /\ call'.reply.kind = "none" /\ call'.outcome = Failure /\ phase' = "running"
          /\ providers' = providers /\ default' = default
      BY <1>4 DEF AskRendering, Asked
    <3>2. default \in DOMAIN providers
      BY <1>4 DEF AskRendering, Inv, ConfiguredInv
    <3> QED BY <3>1, <3>2 DEF CallInv
  <2> QED BY <2>1, <2>2 DEF Inv
<1>5. ASSUME NEW reply \in Replies, call # NoCall, Reply(reply) PROVE Inv'
  <2>1. ConfiguredInv'
    BY <1>5 DEF Reply, Inv, ConfiguredInv
  <2>2. reply.kind # "none"
    BY <1>5 DEF Replies
  <2>3. /\ phase' = phase /\ phase = "running" /\ providers' = providers
    BY <1>5 DEF Reply, Inv, CallInv
  <2>4. call'.stage = "answered" /\ call'.reply = reply
    BY <1>5 DEF Reply
  <2>5. CallInv'
    BY <2>2, <2>3, <2>4 DEF CallInv
  <2> QED BY <2>1, <2>5 DEF Inv
<1>6. CASE TimeOut
  <2>1. ConfiguredInv'
    BY <1>6 DEF TimeOut, Inv, ConfiguredInv
  <2>2. /\ phase' = phase /\ phase = "running"
        /\ call'.stage = "answered" /\ call'.reply.kind = "down"
    BY <1>6 DEF TimeOut, Inv, CallInv, NoCall
  <2>3. CallInv'
    BY <2>2 DEF CallInv
  <2> QED BY <2>1, <2>3 DEF Inv
<1>7. CASE Compose
  <2>1. ConfiguredInv'
    BY <1>7 DEF Compose, Inv, ConfiguredInv
  <2>2. /\ phase' = phase /\ phase = "running"
    BY <1>7 DEF Compose, Inv, CallInv, NoCall
  <2>3. call'.stage \in {"over", "posting"}
    BY <1>7 DEF Compose
  <2> QED BY <2>1, <2>2, <2>3 DEF Inv, CallInv
<1>8. ASSUME NEW c \in Channels, Post(c) PROVE Inv'
  BY <1>8 DEF Post, Inv, ConfiguredInv, CallInv
<1>9. CASE Finish
  BY <1>9 DEF Finish, Inv, ConfiguredInv, CallInv, NoCall
<1>10. CASE UNCHANGED vars
  BY <1>10 DEF vars, Inv, ConfiguredInv, CallInv
<1> QED
  BY <1>1, <1>2, <1>3, <1>4, <1>5, <1>6, <1>7, <1>8, <1>9, <1>10 DEF Next

\* Both hold of every behaviour.
LEMMA InvAlways == Spec => []Inv
BY InvInit, InvNext, PTL DEF Spec

\* Whatever the environment, a request that reaches no API names a provider
\* without a key: what leaves the choice to the process is served.
THEOREM AlwaysServed == Spec => []NeverUnserved
<1>1. Inv => NeverUnserved
  <2> SUFFICES ASSUME Inv, Answered, call.reply.kind = "none" PROVE NeverUnserved
    BY DEF NeverUnserved
  <2>1. /\ phase = "running" /\ providers = LoadProviders(env)
        /\ default = env.default /\ default \in DOMAIN providers
    BY DEF Inv, CallInv, ConfiguredInv, Answered, NoCall
  <2>2. CASE call.for = "analysis"
    <3>1. call.name \notin DOMAIN providers
      BY <2>2 DEF Inv, CallInv, Answered
    <3> QED BY <2>1, <2>2, <3>1, ProvidersByName DEF NeverUnserved
  <2>3. CASE call.for # "analysis"
    <3>1. providers[default].type # "deepseek"
      BY <2>3 DEF Inv, CallInv, Answered
    <3> QED BY <2>1, <2>3, <3>1, ProvidersByName DEF NeverUnserved
  <2> QED BY <2>2, <2>3
<1> QED BY <1>1, InvAlways, PTL

-----------------------------------------------------------------------------
(* What is understood of an answer.                                        *)

\* A piece that was found stands where it was looked for, and none before it.
LEMMA FirstAfterFinds ==
  ASSUME NEW c \in Seq(Pieces), NEW S, NEW i \in Nat
  PROVE  LET j == FirstAfter(c, S, i) IN
         \/ j = 0 /\ \A k \in (i + 1)..Len(c) : c[k] \notin S
         \/ /\ j \in (i + 1)..Len(c) /\ c[j] \in S
            /\ \A k \in (i + 1)..(j - 1) : c[k] \notin S
<1> DEFINE I == {k \in (i + 1)..Len(c) : c[k] \in S}
           j == FirstAfter(c, S, i)
<1>1. j = IF I # {} THEN Min(I) ELSE 0
  BY DEF FirstAfter, SelectInSubSeq
<1>2. CASE I = {}
  BY <1>1, <1>2
<1>3. CASE I # {}
  <2>1. I \subseteq Nat
    BY LenProperties
  <2>2. Min(I) \in I /\ \A y \in I : Min(I) <= y
    <3> HIDE DEF I
    <3> QED BY <1>3, <2>1, MinIsSmallest
  <2>3. j \in I /\ \A y \in I : j <= y
    BY <1>1, <1>3, <2>2
  <2> QED BY <2>1, <2>3
<1> QED BY <1>2, <1>3

\* The object alone in the first fence marked as json is what is in the fence.
LEMMA FencedObject ==
  ASSUME NEW c \in Seq(Pieces), NEW i \in 1..(Len(c) - 2),
         i = FirstAfter(c, {"jsonFence"}, 0), c[i + 1] = "object", c[i + 2] \in Fences
  PROVE  Fenced(c, {"jsonFence"}) = <<"object">>
<1>1. i \in Nat /\ i # 0 /\ i + 2 \in Nat /\ Len(c) \in Nat
  OBVIOUS
<1>2. FirstAfter(c, Fences, i) = i + 2
  <2> DEFINE j == FirstAfter(c, Fences, i)
  <2>1. c[i + 1] \notin Fences
    BY DEF Fences
  <2>2. \/ j = 0 /\ \A k \in (i + 1)..Len(c) : c[k] \notin Fences
        \/ /\ j \in (i + 1)..Len(c) /\ c[j] \in Fences
           /\ \A k \in (i + 1)..(j - 1) : c[k] \notin Fences
    BY <1>1, FirstAfterFinds
  <2>3. i + 2 \in (i + 1)..Len(c)
    OBVIOUS
  <2> QED BY <1>1, <2>1, <2>2, <2>3
<1>3. Fenced(c, {"jsonFence"}) = <<>> \o SubSeq(c, i + 1, i + 1)
  BY <1>1, <1>2 DEF Fenced
<1>4. SubSeq(c, i + 1, i + 1) = <<"object">>
  <2>1. /\ i + 1 \in 1..Len(c) /\ i + 1 \in (i + 1)..Len(c)
        /\ (i + 1) + 1 \in Int /\ i + 1 \in Int /\ i + 1 < (i + 1) + 1
    BY <1>1
  <2>2. SubSeq(c, i + 1, i + 1) = <<c[i + 1]>> \o SubSeq(c, (i + 1) + 1, i + 1)
    BY <2>1, SubSeqRecursiveFirst
  <2>3. SubSeq(c, (i + 1) + 1, i + 1) = <<>>
    BY <2>1, SubSeqEmpty
  <2>4. <<"object">> \in Seq(Pieces)
    BY DEF Pieces
  <2> QED BY <2>2, <2>3, <2>4, ConcatEmptySeq, Zenon
<1>5. <<>> \o <<"object">> = <<"object">>
  <2>1. <<"object">> \in Seq(Pieces)
    BY DEF Pieces
  <2> QED BY <2>1, ConcatEmptySeq
<1> QED BY <1>3, <1>4, <1>5, Zenon

\* An object in the place the prompt asks for is read.
LEMMA ObjectIsRead ==
  ASSUME NEW c \in Seq(Pieces), NEW i, i = FirstAfter(c, {"jsonFence"}, 0),
         \/ c = <<"object">>
         \/ i \in 1..(Len(c) - 2) /\ c[i + 1] = "object" /\ c[i + 2] \in Fences
  PROVE  ParseLLMJSONResponse(c) = <<"object">>
<1>1. CASE c = <<"object">>
  BY <1>1 DEF ParseLLMJSONResponse, IsObject
<1>2. CASE i \in 1..(Len(c) - 2) /\ c[i + 1] = "object" /\ c[i + 2] \in Fences
  <2>1. InFence(c) = <<"object">>
    <3>1. Fenced(c, {"jsonFence"}) = <<"object">>
      <4>1. i \in 1..(Len(c) - 2) /\ c[i + 1] = "object" /\ c[i + 2] \in Fences
        BY <1>2
      <4> QED BY <4>1, FencedObject
    <3>2. <<"object">> # <<>>
      OBVIOUS
    <3> QED BY <3>1, <3>2 DEF InFence
  <2>2. ~IsObject(c)
    <3>1. Len(c) \in Nat /\ i + 1 \in 2..(Len(c) - 1) /\ Len(c) >= 3 /\ Len(c) # 1
      BY <1>2
    <3>2. c # <<"object">>
      <4>1. c = <<"object">> => Len(c) = 1
        OBVIOUS
      <4> QED BY <3>1, <4>1, Zenon
    <3> QED BY <1>2, <3>1, <3>2 DEF IsObject
  <2>3. IsObject(<<"object">>)
    BY DEF IsObject
  <2> QED BY <2>1, <2>2, <2>3 DEF ParseLLMJSONResponse
<1> QED BY <1>1, <1>2

\* The outcome of an analysis is what the provider makes of the reply.
AnswerInv ==
  /\ call.stage = "waiting" => /\ call.name \in DOMAIN providers
                              /\ providers[call.name].type \in ProviderTypes
                              /\ call.reply.kind = "none"
  /\ Answered /\ call.for = "analysis" =>
       \/ call.reply.kind = "none" /\ call.outcome = Failure
       \/ /\ providers[call.name].type \in ProviderTypes
          /\ call.reply.kind = "json" => call.reply.body \in AnalysisBodies
          /\ call.outcome = Analyze(providers[call.name].type, call.reply)

\* There is no answer at the start.
LEMMA AnswerInvInit == Init => AnswerInv
BY DEF Init, AnswerInv, NoCall, Answered

\* No provider makes anything of a reply that is no JSON.
LEMMA NoJsonFails ==
  ASSUME NEW type \in ProviderTypes, NEW reply, reply.kind # "json"
  PROVE  Analyze(type, reply) = Failure
<1>1. \A t : ~Unmarshals(t, reply)
  BY DEF Unmarshals
<1> QED
  BY <1>1 DEF Analyze, AnalyzeOpenAI, AnalyzeDeepSeek, AnalyzeQwen, AnalyzeClaude,
              AnalyzeOllama, ProviderTypes

\* Every step keeps what is known of the answer.
LEMMA AnswerInvNext == Inv /\ AnswerInv /\ [Next]_vars => AnswerInv'
<1> SUFFICES ASSUME Inv, AnswerInv, [Next]_vars PROVE AnswerInv'
  OBVIOUS
<1>1. CASE Start
  <2>1. call = NoCall /\ call' = call
    BY <1>1 DEF Start, Inv, CallInv
  <2> QED BY <2>1 DEF AnswerInv, Answered, NoCall
<1>2. CASE Restart
  BY <1>2 DEF Restart, AnswerInv, Answered, NoCall
<1>3. ASSUME NEW name, AskAnalysis(name) PROVE AnswerInv'
  <2>1. /\ call'.stage = "waiting" => NameOf(name) \in DOMAIN providers
        /\ call'.name = NameOf(name) /\ call'.reply.kind = "none" /\ providers' = providers
        /\ call'.outcome = Failure
    BY <1>3 DEF AskAnalysis, Asked
  <2>2. providers = LoadProviders(env)
    BY <1>3 DEF AskAnalysis, Inv, ConfiguredInv
  <2>3. \A n \in DOMAIN providers : providers[n].type \in ProviderTypes
    BY <2>2, ProvidersTyped
  <2> QED BY <2>1, <2>3 DEF AnswerInv, Answered
<1>4. ASSUME NEW draft, AskRendering(draft) PROVE AnswerInv'
  <2>1. /\ call'.stage = "waiting" => default \in DOMAIN providers
        /\ call'.name = default /\ call'.reply.kind = "none" /\ providers' = providers
        /\ call'.outcome = Failure
    BY <1>4 DEF AskRendering, Asked
  <2>2. providers = LoadProviders(env)
    BY <1>4 DEF AskRendering, Inv, ConfiguredInv
  <2>3. \A n \in DOMAIN providers : providers[n].type \in ProviderTypes
    BY <2>2, ProvidersTyped
  <2> QED BY <2>1, <2>3 DEF AnswerInv, Answered
<1>5. ASSUME NEW reply \in Replies, Reply(reply) PROVE AnswerInv'
  <2>1. /\ call'.stage = "answered" /\ call'.for = call.for /\ call'.reply = reply
        /\ call'.outcome = Outcome(reply) /\ call'.name = call.name /\ providers' = providers
        /\ providers[call.name].type \in ProviderTypes
    BY <1>5 DEF Reply, AnswerInv
  <2>2. ASSUME call.for = "analysis"
        PROVE  /\ reply.kind = "json" => reply.body \in AnalysisBodies
               /\ Outcome(reply) = Analyze(providers[call.name].type, reply)
    BY <2>2 DEF Replies, Outcome
  <2> QED BY <2>1, <2>2 DEF AnswerInv, Answered
<1>6. CASE TimeOut
  <2>1. /\ call'.stage = "answered" /\ call'.reply = [kind |-> "down"]
        /\ call'.outcome = call.outcome /\ call'.name = call.name /\ providers' = providers
    BY <1>6 DEF TimeOut
  <2>2. call.outcome = Failure /\ providers[call.name].type \in ProviderTypes
    BY <1>6 DEF TimeOut, Inv, CallInv, AnswerInv
  <2>3. call'.reply.kind # "json"
    BY <2>1
  <2>4. call'.outcome = Analyze(providers'[call'.name].type, call'.reply)
    BY <2>1, <2>2, <2>3, NoJsonFails
  <2>5. providers'[call'.name].type \in ProviderTypes
    BY <2>1, <2>2
  <2> QED BY <2>1, <2>3, <2>4, <2>5 DEF AnswerInv, Answered
<1>7. CASE Compose
  <2>1. call'.stage \in {"over", "posting"}
    BY <1>7 DEF Compose
  <2> QED BY <2>1 DEF AnswerInv, Answered
<1>8. ASSUME NEW c \in Channels, Post(c) PROVE AnswerInv'
  BY <1>8 DEF Post, AnswerInv, Answered
<1>9. CASE Finish
  BY <1>9 DEF Finish, AnswerInv, Answered, NoCall
<1>10. CASE UNCHANGED vars
  BY <1>10 DEF vars, AnswerInv, Answered
<1> QED
  BY <1>1, <1>2, <1>3, <1>4, <1>5, <1>6, <1>7, <1>8, <1>9, <1>10 DEF Next

\* What a provider takes for the model's answer is the first one in a field of
\* its API, and the body reports no error.
LEMMA AnalysisOfAnswer ==
  ASSUME NEW type \in ProviderTypes, NEW reply, Analyze(type, reply).ok
  PROVE  /\ reply.kind = "json"
         /\ ~ReportsError(type, reply.body)
         /\ \/ Analyze(type, reply).content \in FirstAnswers(type, reply.body)
            \/ /\ type = "ollama" /\ Analyze(type, reply).content = <<>>
               /\ \A other \in ProviderTypes : ~ReportsError(other, reply.body)
<1> DEFINE body == reply.body
<1>1. ~Failure.ok /\ \A c : Diagnosis(c).content = c
  BY DEF Failure, Diagnosis
<1>2. \A t : Unmarshals(t, reply) =>
        /\ reply.kind = "json"
        /\ \A f \in DOMAIN body \cap DOMAIN Response(t) : body[f].type = Response(t)[f]
  BY DEF Unmarshals
<1>3. ASSUME NEW f \in AnswerFields(type), TextsOf(reply, f) # <<>>
      PROVE  TextsOf(reply, f)[1] \in FirstAnswers(type, body)
  BY <1>3 DEF TextsOf, Has, FirstAnswers
<1>4. CASE type \in {"openai", "deepseek"}
  <2>1. /\ Unmarshals(type, reply) /\ ~Has(reply, "error")
        /\ TextsOf(reply, "choices") # <<>>
        /\ Analyze(type, reply) = Diagnosis(TextsOf(reply, "choices")[1])
    BY <1>1, <1>4 DEF Analyze, AnalyzeOpenAI, AnalyzeDeepSeek
  <2>2. "choices" \in AnswerFields(type)
    BY <1>4 DEF AnswerFields
  <2>3. ~ReportsError(type, body)
    BY <1>4, <2>1 DEF ReportsError, Has
  <2> QED BY <1>1, <1>2, <1>3, <2>1, <2>2, <2>3
<1>5. CASE type = "claude"
  <2>1. /\ Unmarshals(type, reply) /\ ~Has(reply, "error")
        /\ TextsOf(reply, "content") # <<>>
        /\ Analyze(type, reply) = Diagnosis(TextsOf(reply, "content")[1])
    BY <1>1, <1>5 DEF Analyze, AnalyzeClaude
  <2>2. "content" \in AnswerFields(type)
    BY <1>5 DEF AnswerFields
  <2>3. ~ReportsError(type, body)
    BY <1>5, <2>1 DEF ReportsError, Has
  <2> QED BY <1>1, <1>2, <1>3, <2>1, <2>2, <2>3
<1>6. CASE type = "qwen"
  <2>1. /\ Unmarshals(type, reply) /\ TextsOf(reply, "code") = <<>>
        /\ TextsOf(reply, "output") # <<>>
        /\ Analyze(type, reply) = Diagnosis(TextsOf(reply, "output")[1])
    BY <1>1, <1>6 DEF Analyze, AnalyzeQwen
  <2>2. "output" \in AnswerFields(type)
    BY <1>6 DEF AnswerFields
  <2>3. ~ReportsError(type, body)
    BY <1>6, <2>1 DEF ReportsError, TextsOf, Has
  <2> QED BY <1>1, <1>2, <1>3, <2>1, <2>2, <2>3
<1>7. CASE type = "ollama"
  <2>1. /\ Unmarshals(type, reply) /\ TextsOf(reply, "error") = <<>>
        /\ Analyze(type, reply) = Diagnosis(OllamaText(reply))
    BY <1>1, <1>7 DEF Analyze, AnalyzeOllama
  <2>2. \A f \in {"message", "response"} : f \in AnswerFields(type)
    BY <1>7 DEF AnswerFields
  <2>3. ~ReportsError(type, body)
    BY <1>7, <2>1 DEF ReportsError, TextsOf, Has
  <2>4. OllamaText(reply) \in FirstAnswers(type, body) \/ OllamaText(reply) = <<>>
    BY <1>3, <2>2 DEF OllamaText
  <2>5. \A other \in ProviderTypes : ~ReportsError(other, body)
    <3>1. /\ "error" \in DOMAIN body => body["error"].type = "string"
          /\ "message" \in DOMAIN body => body["message"].type = "object"
      <4>1. /\ {"error", "message"} \subseteq DOMAIN Response("ollama")
            /\ Response("ollama")["error"] = "string"
            /\ Response("ollama")["message"] = "object"
        BY DEF Response
      <4> QED BY <1>2, <1>7, <2>1, <4>1
    <3> QED BY <1>7, <2>3, <3>1 DEF ReportsError, ProviderTypes
  <2> QED BY <1>1, <1>2, <1>7, <2>1, <2>3, <2>4, <2>5
<1> QED BY <1>4, <1>5, <1>6, <1>7 DEF ProviderTypes

\* Whatever the bodies: what reports an error, lacks the answers, or has a field
\* of another type is no analysis, but for Ollama's empty one.
THEOREM OutageNeverDiagnosed == Spec => []OutageIsNoDiagnosis
<1>1. AnswerInv => OutageIsNoDiagnosis
  <2> SUFFICES ASSUME AnswerInv, Answered, call.for = "analysis", call.outcome.ok,
                      NEW type, type = providers[call.name].type
               PROVE  /\ call.reply.kind = "json"
                      /\ ~ReportsError(type, call.reply.body)
                      /\ \/ call.outcome.content \in FirstAnswers(type, call.reply.body)
                         \/ /\ type = "ollama" /\ call.outcome.content = <<>>
                            /\ \A other \in ProviderTypes : ~ReportsError(other, call.reply.body)
    BY Zenon DEF OutageIsNoDiagnosis
  <2>1. type \in ProviderTypes /\ call.outcome = Analyze(type, call.reply)
    BY DEF AnswerInv, Failure
  <2> QED BY <2>1, AnalysisOfAnswer
<1> QED BY <1>1, InvInit, InvNext, AnswerInvInit, AnswerInvNext, PTL DEF Spec

\* A body that has a field with answers and no other is read by its API.
LEMMA AnswerAlone ==
  ASSUME NEW type \in ProviderTypes, NEW reply, reply.kind = "json",
         NEW f \in AnswerFields(type), DOMAIN reply.body = {f},
         reply.body[f].type = Response(type)[f], reply.body[f].texts # <<>>
  PROVE  Analyze(type, reply) = Diagnosis(reply.body[f].texts[1])
<1>1. Unmarshals(type, reply)
  BY DEF Unmarshals
<1>2. /\ TextsOf(reply, f) = reply.body[f].texts
      /\ \A g : g # f => ~Has(reply, g) /\ TextsOf(reply, g) = <<>>
  BY DEF TextsOf, Has
<1>3. CASE type \in {"openai", "deepseek"}
  <2>1. f = "choices"
    BY <1>3 DEF AnswerFields
  <2> QED BY <1>1, <1>2, <1>3, <2>1 DEF Analyze, AnalyzeOpenAI, AnalyzeDeepSeek
<1>4. CASE type = "claude"
  <2>1. f = "content"
    BY <1>4 DEF AnswerFields
  <2> QED BY <1>1, <1>2, <1>4, <2>1 DEF Analyze, AnalyzeClaude
<1>5. CASE type = "qwen"
  <2>1. f = "output"
    BY <1>5 DEF AnswerFields
  <2> QED BY <1>1, <1>2, <1>5, <2>1 DEF Analyze, AnalyzeQwen
<1>6. CASE type = "ollama"
  <2>1. f \in {"message", "response"}
    BY <1>6 DEF AnswerFields
  <2>2. Has(reply, f)
    BY DEF Has
  <2>3. OllamaText(reply) = reply.body[f].texts[1]
    BY <1>2, <2>1, <2>2 DEF OllamaText
  <2>4. TextsOf(reply, "error") = <<>>
    BY <1>2, <2>1
  <2> QED BY <1>1, <1>6, <2>3, <2>4 DEF Analyze, AnalyzeOllama
<1> QED BY <1>3, <1>4, <1>5, <1>6 DEF ProviderTypes

\* The texts in a body that an API may reply are of pieces.
LEMMA BodyTyped ==
  ASSUME NEW body \in AnalysisBodies \cup RenderingBodies, NEW f \in DOMAIN body
  PROVE  /\ body[f].texts \in Seq(Seq(Pieces))
         /\ body[f].texts # <<>> => body[f].texts[1] \in Seq(Pieces)
<1>1. body[f].texts \in Seq(Seq(Pieces))
  BY DiagnosisAssumption DEF Values
<1>2. ASSUME NEW s \in Seq(Seq(Pieces)), s # <<>> PROVE s[1] \in Seq(Pieces)
  <2>1. 1 \in 1..Len(s)
    BY <1>2, EmptySeq, LenProperties
  <2> QED BY <2>1, ElementOfSeq
<1> QED BY <1>1, <1>2

\* Whatever the model answers, an object alone, or alone in the first fence
\* marked as json, is what the provider of its API reads.
THEOREM ObjectsUnderstood == Spec => []AnswerUnderstood
<1>1. AnswerInv => AnswerUnderstood
  <2> SUFFICES ASSUME AnswerInv, Answered, call.for = "analysis", call.reply.kind = "json",
                      NEW type, type = providers[call.name].type,
                      NEW f \in AnswerFields(type), NEW body, body = call.reply.body,
                      DOMAIN body = {f}, body[f].type = Response(type)[f],
                      body[f].texts # <<>>,
                      NEW c, c = body[f].texts[1],
                      NEW i, i = FirstAfter(c, {"jsonFence"}, 0),
                      \/ c = <<"object">>
                      \/ i \in 1..(Len(c) - 2) /\ c[i + 1] = "object" /\ c[i + 2] \in Fences
               PROVE  call.outcome.object = <<"object">>
    BY Zenon DEF AnswerUnderstood
  <2>1. /\ type \in ProviderTypes /\ body \in AnalysisBodies
        /\ call.outcome = Analyze(type, call.reply)
    BY DEF AnswerInv
  <2>2. c \in Seq(Pieces)
    BY <2>1, BodyTyped
  <2>3. call.outcome = Diagnosis(c)
    BY <2>1, AnswerAlone
  <2>4. ParseLLMJSONResponse(c) = <<"object">>
    BY <2>2, ObjectIsRead
  <2>5. Diagnosis(c).object = ParseLLMJSONResponse(c)
    BY DEF Diagnosis
  <2> QED BY <2>3, <2>4, <2>5, Zenon
<1> QED BY <1>1, InvInit, InvNext, AnswerInvInit, AnswerInvNext, PTL DEF Spec

-----------------------------------------------------------------------------
(* Types.                                                                  *)

\* No client is without a default: a timeout of zero never gets through.
LEMMA SecondsNotZero ==
  ASSUME NEW e, NEW n \in DOMAIN LoadProviders(e)
  PROVE  LoadProviders(e)[n].seconds # 0
<1>1. n \in ProviderTypes
  BY ProvidersByName DEF Configurable
<1>2. DefaultSeconds[n] # 0
  BY <1>1, DiagnosisAssumption
<1>3. \A v : Seconds(n, v) # 0
  BY <1>2 DEF Seconds
<1>4. LoadProviders(e)[n].seconds =
        Seconds(n, GetEnvInt(IF n = "ollama" THEN e.ollamaTimeout ELSE e.timeout, DefaultSeconds[n]))
  BY DEF LoadProviders
<1> QED BY <1>3, <1>4

\* The types hold at the start.
LEMMA TypeInit == Init => TypeOK
BY DEF Init, TypeOK, NoCall, NoPosts

\* Every step keeps the types.
LEMMA TypeNext == Inv /\ TypeOK /\ [Next]_vars => TypeOK'
<1> SUFFICES ASSUME Inv, TypeOK, [Next]_vars PROVE TypeOK'
  OBVIOUS
<1>0. call'.stage \in {"idle", "waiting", "answered", "posting", "over"}
  BY InvNext DEF Inv, CallInv
<1>1. CASE Start
  <2>1. ASSUME NEW n \in DOMAIN providers'
        PROVE  providers'[n].type \in ProviderTypes /\ providers'[n].seconds # 0
    <3>1. CASE providers' = LoadProviders(env)
      BY <2>1, <3>1, ProvidersTyped, SecondsNotZero
    <3>2. CASE providers' = providers
      BY <2>1, <3>2 DEF TypeOK
    <3> QED BY <1>1, <3>1, <3>2 DEF Start
  <2>2. /\ env' = env /\ posts' = posts /\ phase' \in {"running", "failed"}
        /\ channels' \subseteq Channels
    BY <1>1 DEF Start, TypeOK, LoadChannels, Channels
  <2> QED BY <1>0, <2>1, <2>2 DEF TypeOK
<1>2. CASE Restart
  BY <1>0, <1>2 DEF Restart, TypeOK, NoPosts
<1>3. CASE UNCHANGED <<env, phase, providers, channels, posts>>
  BY <1>0, <1>3 DEF TypeOK
<1>4. ASSUME NEW c \in Channels, Post(c) PROVE TypeOK'
  <2>1. /\ UNCHANGED <<env, phase, providers, channels>>
        /\ \E r \in {"failed", "sent"} : posts' = [posts EXCEPT ![c] = r]
    BY <1>4 DEF Post
  <2>2. PICK r \in {"failed", "sent"} : posts' = [posts EXCEPT ![c] = r]
    BY <2>1
  <2>3. posts' \in [Channels -> {"none", "sent", "failed"}]
    BY <2>2 DEF TypeOK
  <2> QED BY <1>0, <2>1, <2>3 DEF TypeOK
<1>5. CASE Finish
  BY <1>0, <1>5 DEF Finish, TypeOK, NoPosts
<1> QED
  BY <1>1, <1>2, <1>3, <1>4, <1>5
  DEF Next, vars, AskAnalysis, AskRendering, Reply, TimeOut, Compose

\* The variables keep their types; no client ever runs with a timeout of zero.
THEOREM TypeCorrect == Spec => []TypeOK
BY InvInit, InvNext, TypeInit, TypeNext, PTL DEF Spec

-----------------------------------------------------------------------------
(* Where a message is cut.                                                 *)

\* The characters' offsets are sums of widths.
LEMMA OffsetsSum ==
  ASSUME NEW w \in Seq(Nat)
  PROVE  /\ Offsets(w) \in [0..Len(w) -> Nat]
         /\ Offsets(w)[0] = 0
         /\ \A n \in 1..Len(w) : Offsets(w)[n] = Offsets(w)[n - 1] + w[n]
<1> DEFINE N == Len(w)
           F == [p \in (1..N) \X Nat |-> p[2] + w[p[1]]]
           Def(f) == f = [n \in 0..N |-> IF n = 0 THEN 0 ELSE f[n - 1] + w[n]]
<1>1. N \in Nat /\ \A n \in 1..N : w[n] \in Nat
  OBVIOUS
<1>2. F \in [(1..N) \X Nat -> Nat]
  BY <1>1
<1>3. PICK f \in [0..N -> Nat] : f[0] = 0 /\ \A n \in 1..N : f[n] = F[<<n, f[n - 1]>>]
  <2>1. 0 \in Nat
    OBVIOUS
  <2>2. \E f : Recurs(f, Nat, 0, N, F)
    <3> HIDE DEF F, N
    <3> QED BY <1>1, <1>2, <2>1, Recursion
  <2> QED BY <2>2 DEF Recurs
<1>4. \A n \in 1..N : f[n] = f[n - 1] + w[n]
  <2>1. ASSUME NEW n \in 1..N PROVE f[n] = f[n - 1] + w[n]
    <3>1. f[n - 1] \in Nat
      BY <1>1, SMTT(30)
    <3>2. <<n, f[n - 1]>> \in (1..N) \X Nat
      BY <3>1
    <3>3. F[<<n, f[n - 1]>>] = f[n - 1] + w[n]
      BY <3>2
    <3> HIDE DEF F, N
    <3> QED BY <1>3, <3>3
  <2> QED BY <2>1
<1>5. Def(f)
  BY <1>1, <1>3, <1>4
<1>6. Offsets(w) = CHOOSE g : Def(g)
  BY DEF Offsets
<1>7. Def(Offsets(w))
  <2> HIDE DEF Def
  <2> QED BY <1>5, <1>6
<1> HIDE DEF F
<1>8. ASSUME NEW g, Def(g)
      PROVE /\ g[0] = 0
            /\ \A n \in 1..N : g[n] = g[n - 1] + w[n]
            /\ g = [n \in 0..N |-> g[n]]
  BY <1>1, <1>8, SMTT(30)
<1>9. ASSUME NEW g, Def(g)
      PROVE \A n \in 0..N : g[n] \in Nat
  <2> DEFINE T == {n \in Nat : n \in 0..N => g[n] \in Nat}
  <2>1. 0 \in T
     BY <1>8, <1>9
  <2>2. \A n \in Nat : n \in T => n + 1 \in T
    <3> SUFFICES ASSUME NEW n \in Nat, n \in T, n + 1 \in 0..N
                 PROVE  g[n + 1] \in Nat
      OBVIOUS
    <3>1. n \in 0..N /\ n + 1 \in 1..N /\ (n + 1) - 1 = n
      BY <1>1
    <3>2. g[n + 1] = g[n] + w[n + 1]
      BY <1>8, <1>9, <3>1
    <3> QED BY <1>1, <3>1, <3>2
  <2> HIDE DEF T
  <2>3. Nat \subseteq T
     BY <2>1, <2>2, Induction
  <2> USE DEF T
  <2> QED BY <2>3
<1>10. Offsets(w) \in [0..N -> Nat]
  BY <1>7, <1>8, <1>9
<1> QED BY <1>7, <1>8, <1>10

\* The scan for a cut ends at the last start of a character that it comes to.
LEMMA CutScanned ==
  ASSUME NEW w, NEW limit, Room(limit) \in Nat
  PROVE  /\ CutAt(w, limit) \in 0..Room(limit)
         /\ CutAt(w, limit) = 0 \/ RuneStart(w, CutAt(w, limit))
         /\ \A k \in (CutAt(w, limit) + 1)..Room(limit) : ~RuneStart(w, k)
<1> DEFINE N == Room(limit)
           F == [p \in (1..N) \X Nat |-> IF ~RuneStart(w, p[1]) THEN p[2] ELSE p[1]]
           Def(f) == f = [k \in 0..N |-> IF k > 0 /\ ~RuneStart(w, k) THEN f[k - 1] ELSE k]
<1>1. F \in [(1..N) \X Nat -> Nat]
  OBVIOUS
<1>2. PICK f \in [0..N -> Nat] : f[0] = 0 /\ \A k \in 1..N : f[k] = F[<<k, f[k - 1]>>]
  <2>1. \E f : Recurs(f, Nat, 0, N, F)
    <3> HIDE DEF F
    <3> QED BY <1>1, Recursion
  <2> QED BY <2>1 DEF Recurs
<1>3. ASSUME NEW k \in 1..N PROVE f[k] = IF ~RuneStart(w, k) THEN f[k - 1] ELSE k
  <2>1. <<k, f[k - 1]>> \in (1..N) \X Nat
    OBVIOUS
  <2>2. F[<<k, f[k - 1]>>] = IF ~RuneStart(w, k) THEN f[k - 1] ELSE k
    BY <2>1
  <2> HIDE DEF F
  <2> QED BY <1>2, <2>2
<1>4. Def(f)
  <2>1. f = [k \in 0..N |-> f[k]]
    OBVIOUS
  <2>2. ASSUME NEW k \in 0..N
        PROVE  f[k] = IF k > 0 /\ ~RuneStart(w, k) THEN f[k - 1] ELSE k
    BY <1>2, <1>3
  <2> QED BY <2>1, <2>2
<1>5. CutAt(w, limit) = (CHOOSE g : Def(g))[N]
  BY DEF CutAt
<1> DEFINE g == CHOOSE x : Def(x)
<1>6. Def(g)
  <2> HIDE DEF Def
  <2> QED BY <1>4
<1> HIDE DEF g
<1>7. \A k \in 0..N : g[k] = IF k > 0 /\ ~RuneStart(w, k) THEN g[k - 1] ELSE k
  BY <1>6
<1> DEFINE Good(k, c) == /\ c \in 0..k
                         /\ c = 0 \/ RuneStart(w, c)
                         /\ \A j \in (c + 1)..k : ~RuneStart(w, j)
           T == {k \in Nat : k \in 0..N => Good(k, g[k])}
<1>8. 0 \in T
  BY <1>7
<1>9. ASSUME NEW k \in Nat, k \in T, k + 1 \in 0..N PROVE Good(k + 1, g[k + 1])
  <2>1. k \in 0..N /\ k + 1 > 0 /\ (k + 1) - 1 = k
    BY <1>9
  <2>2. Good(k, g[k])
    BY <1>9, <2>1
  <2>3. g[k + 1] = IF ~RuneStart(w, k + 1) THEN g[k] ELSE k + 1
    BY <1>7, <1>9, <2>1
  <2>4. CASE RuneStart(w, k + 1)
    BY <2>3, <2>4
  <2>5. CASE ~RuneStart(w, k + 1)
    <3>1. g[k + 1] = g[k] /\ g[k] \in 0..k
      BY <2>2, <2>3, <2>5
    <3>2. ASSUME NEW j \in (g[k] + 1)..(k + 1) PROVE ~RuneStart(w, j)
      <4>1. j = k + 1 \/ j \in (g[k] + 1)..k
        BY <3>1
      <4> QED BY <2>2, <2>5, <4>1
    <3>3. g[k] \in 0..(k + 1)
      BY <3>1
    <3> QED BY <2>2, <3>1, <3>2, <3>3, Zenon
  <2> QED BY <2>4, <2>5
<1>10. N \in T
  <2>1. \A k \in Nat : k \in T => k + 1 \in T
    <3> HIDE DEF Good
    <3> QED BY <1>9
  <2> HIDE DEF T
  <2> QED BY <1>8, <2>1, Induction
<1>11. Good(N, g[N])
  <2>1. N \in 0..N
    OBVIOUS
  <2> HIDE DEF Good
  <2> QED BY <1>10, <2>1
<1> QED BY <1>5, <1>11 DEF g

\* What is kept of a text ends between two characters, leaves room for the
\* suffix, and no character more would have fitted.
LEMMA CutFits ==
  ASSUME NEW w \in Seq(Nat), NEW limit \in Nat, SuffixBytes <= limit
  PROVE  /\ TruncateBytes(w, limit).length <= limit
         /\ TruncateBytes(w, limit).kept \in Boundaries(w)
         /\ \/ TruncateBytes(w, limit).kept = Bytes(w)
            \/ \A b \in Boundaries(w) :
                 b > TruncateBytes(w, limit).kept => b + SuffixBytes > limit
<1>1. /\ SuffixBytes \in Nat /\ Room(limit) \in Nat
      /\ Room(limit) + SuffixBytes = limit
  BY RenderingAssumption DEF Room
<1>2. /\ Boundaries(w) \in SUBSET Nat
      /\ 0 \in Boundaries(w)
      /\ Bytes(w) \in Boundaries(w)
  <2>1. Len(w) \in Nat /\ 0 \in 0..Len(w) /\ Len(w) \in 0..Len(w)
    OBVIOUS
  <2>2. Offsets(w) \in [0..Len(w) -> Nat] /\ Offsets(w)[0] = 0
    BY OffsetsSum
  <2>3. \A n \in 0..Len(w) : Offsets(w)[n] \in Nat /\ Offsets(w)[n] \in Boundaries(w)
    BY <2>2 DEF Boundaries
  <2> QED BY <2>1, <2>2, <2>3 DEF Boundaries, Bytes
<1>3. /\ CutAt(w, limit) \in 0..Room(limit)
      /\ CutAt(w, limit) = 0 \/ CutAt(w, limit) \in Boundaries(w)
      /\ \A k \in (CutAt(w, limit) + 1)..Room(limit) : k \notin Boundaries(w)
  BY <1>1, CutScanned DEF RuneStart
<1>4. /\ CutAt(w, limit) \in Nat
      /\ CutAt(w, limit) \in Boundaries(w)
      /\ CutAt(w, limit) + SuffixBytes <= limit
  BY <1>1, <1>2, <1>3
<1>5. ASSUME NEW b \in Boundaries(w), b > CutAt(w, limit)
      PROVE  b + SuffixBytes > limit
  <2>1. b \in Nat /\ b \notin (CutAt(w, limit) + 1)..Room(limit)
    BY <1>2, <1>3
  <2> QED BY <1>1, <1>4, <1>5, <2>1
<1>6. CASE Bytes(w) <= limit
  <2>1. /\ TruncateBytes(w, limit).kept = Bytes(w)
        /\ TruncateBytes(w, limit).length = Bytes(w)
    BY <1>6 DEF TruncateBytes
  <2> QED BY <1>2, <1>6, <2>1
<1>7. CASE ~(Bytes(w) <= limit)
  <2>1. /\ TruncateBytes(w, limit).kept = CutAt(w, limit)
        /\ TruncateBytes(w, limit).length = CutAt(w, limit) + SuffixBytes
    BY <1>7 DEF TruncateBytes
  <2> QED BY <1>4, <1>5, <2>1
<1> QED BY <1>6, <1>7

\* Sequences of a set's elements, one after the other, are one of its elements.
LEMMA FlattenTyped ==
  ASSUME NEW S, NEW ss \in Seq(Seq(S))
  PROVE  FlattenSeq(ss) \in Seq(S)
<1> DEFINE N == Len(ss)
           Def(f) == f = [i \in 1..N |-> IF i = 1 THEN ss[i] ELSE f[i - 1] \o ss[i]]
<1>0. N \in Nat /\ \A i \in 1..N : ss[i] \in Seq(S)
  BY LenProperties, ElementOfSeq
<1>1. CASE N = 0
  <2>1. ss = <<>>
    BY <1>1, EmptySeq
  <2>2. FlattenSeq(ss) = ss
    BY <1>1 DEF FlattenSeq
  <2> QED BY <2>1, <2>2, EmptySeq
<1>2. CASE N # 0
  <2> DEFINE M == N - 1
             F == [p \in (1..M) \X Seq(S) |-> p[2] \o ss[p[1] + 1]]
  <2>1. M \in Nat /\ 1 \in 1..N /\ M + 1 = N
    BY <1>0, <1>2
  <2>2. ASSUME NEW p \in (1..M) \X Seq(S) PROVE p[2] \o ss[p[1] + 1] \in Seq(S)
    <3>1. p[1] \in 1..M /\ p[1] + 1 \in 1..N /\ p[2] \in Seq(S)
      BY <2>1
    <3>2. ss[p[1] + 1] \in Seq(S)
      BY <1>0, <3>1
    <3> QED BY <3>1, <3>2, ConcatProperties
  <2>3. F \in [(1..M) \X Seq(S) -> Seq(S)]
    BY <2>2
  <2>4. ss[1] \in Seq(S)
    BY <1>0, <2>1
  <2>5. PICK f : Recurs(f, Seq(S), ss[1], M, F)
    <3> HIDE DEF F, M
    <3> QED BY <2>1, <2>3, <2>4, Recursion
  <2>6. /\ f \in [0..M -> Seq(S)]
        /\ f[0] = ss[1]
        /\ \A n \in 1..M : f[n] = F[<<n, f[n - 1]>>]
    BY <2>5 DEF Recurs
  <2>7. ASSUME NEW n \in 1..M PROVE f[n] = f[n - 1] \o ss[n + 1]
    <3>1. f[n - 1] \in Seq(S)
      <4>1. n - 1 \in 0..M
        BY <2>1
      <4> HIDE DEF M
      <4> QED BY <2>6, <4>1
    <3>2. <<n, f[n - 1]>> \in (1..M) \X Seq(S)
      BY <3>1
    <3>3. F[<<n, f[n - 1]>>] = f[n - 1] \o ss[n + 1]
      BY <3>2
    <3> HIDE DEF F
    <3> QED BY <2>6, <3>3
  <2> DEFINE h == [i \in 1..N |-> f[i - 1]]
  <2>8. ASSUME NEW i \in 1..N
        PROVE  h[i] = IF i = 1 THEN ss[i] ELSE h[i - 1] \o ss[i]
    <3>1. CASE i = 1
      BY <2>6, <3>1
    <3>2. CASE i # 1
      <4>1. i - 1 \in 1..M /\ i - 1 \in 1..N /\ (i - 1) + 1 = i
        BY <2>1, <3>2
      <4>2. f[i - 1] = f[(i - 1) - 1] \o ss[(i - 1) + 1]
        BY <2>7, <4>1
      <4>3. h[i] = f[i - 1] /\ h[i - 1] = f[(i - 1) - 1]
        BY <4>1
      <4> QED BY <3>2, <4>1, <4>2, <4>3, Zenon
    <3> QED BY <3>1, <3>2
  <2>9. Def(h)
    <3>1. h = [i \in 1..N |-> h[i]]
      OBVIOUS
    <3> HIDE DEF h
    <3> QED BY <2>8, <3>1
  <2>10. FlattenSeq(ss) = (CHOOSE g : Def(g))[N]
    BY <1>2 DEF FlattenSeq
  <2> DEFINE g == CHOOSE x : Def(x)
  <2>11. Def(g)
    <3> HIDE DEF Def, h
    <3> QED BY <2>9
  <2> HIDE DEF g
  <2>12. \A i \in 1..N : g[i] = IF i = 1 THEN ss[i] ELSE g[i - 1] \o ss[i]
    BY <2>11
  <2> DEFINE T == {n \in Nat : n + 1 \in 1..N => g[n + 1] \in Seq(S)}
  <2>13. 0 \in T
    BY <2>1, <2>4, <2>12
  <2>14. ASSUME NEW n \in Nat, n \in T, (n + 1) + 1 \in 1..N
         PROVE  g[(n + 1) + 1] \in Seq(S)
    <3>1. n + 1 \in 1..N /\ (n + 1) + 1 # 1 /\ ((n + 1) + 1) - 1 = n + 1
      BY <2>1, <2>14
    <3>2. g[n + 1] \in Seq(S)
      BY <2>14, <3>1
    <3>3. g[(n + 1) + 1] = g[n + 1] \o ss[(n + 1) + 1]
      BY <2>12, <2>14, <3>1
    <3>4. ss[(n + 1) + 1] \in Seq(S)
      BY <1>0, <2>14
    <3> QED BY <3>2, <3>3, <3>4, ConcatProperties
  <2>15. \A n \in Nat : n \in T => n + 1 \in T
    BY <2>14
  <2>16. M \in T
    <3> HIDE DEF T
    <3> QED BY <2>1, <2>13, <2>15, Induction
  <2>17. g[N] \in Seq(S)
    BY <2>1, <2>16
  <2> QED BY <2>10, <2>17 DEF g
<1> QED BY <1>1, <1>2

\* The characters that are written between others.
LEMMA MarksTyped ==
  /\ Newline \in Nat /\ Space \in Nat /\ Star \in Nat /\ Dash \in Nat
  /\ Middot \in Nat /\ Dot \in Nat /\ Colon \in Nat
BY DEF Newline, Space, Star, Dash, Middot, Dot, Colon

\* A text's characters are code points, and have widths.
LEMMA WidthsTyped ==
  ASSUME NEW lines \in Seq(TextLines)
  PROVE  /\ Characters(lines) \in Seq(Nat)
         /\ Widths(lines) \in Seq(Nat)
<1> DEFINE part(i) == IF i = 1 THEN Marked(lines[i]) ELSE <<Newline>> \o Marked(lines[i])
           ss == [i \in DOMAIN lines |-> part(i)]
           text == Characters(lines)
<1>1. Len(lines) \in Nat /\ DOMAIN lines = 1..Len(lines)
  BY LenProperties
<1>2. ASSUME NEW i \in DOMAIN lines PROVE part(i) \in Seq(Nat)
  <2>1. lines[i].chars \in Seq(Nat)
    <3>1. lines[i] \in TextLines
      BY <1>1, ElementOfSeq
    <3> QED BY <3>1 DEF TextLines
  <2>2. <<Dash, Space>> \in Seq(Nat) /\ <<Dot, Space>> \in Seq(Nat) /\ <<Newline>> \in Seq(Nat)
    BY MarksTyped
  <2>3. Marked(lines[i]) \in Seq(Nat)
    BY <2>1, <2>2, ConcatProperties DEF Marked
  <2>4. <<Newline>> \o Marked(lines[i]) \in Seq(Nat)
    BY <2>2, <2>3, ConcatProperties
  <2> QED BY <2>3, <2>4
<1>3. ss \in Seq(Seq(Nat))
  <2>1. ss \in [1..Len(lines) -> Seq(Nat)]
    <3> HIDE DEF part
    <3> QED BY <1>1, <1>2
  <2> HIDE DEF ss
  <2> QED BY <1>1, <2>1
<1>4. text \in Seq(Nat)
  BY <1>3, FlattenTyped DEF Characters
<1> HIDE DEF text
<1>5. Widths(lines) = [n \in DOMAIN text |-> RuneLen(text[n])]
  BY DEF Widths, text
<1>6. \A n : RuneLen(n) \in Nat
  BY DEF RuneLen
<1>7. Len(text) \in Nat /\ DOMAIN text = 1..Len(text)
  BY <1>4, LenProperties
<1>8. Widths(lines) \in [1..Len(text) -> Nat]
  BY <1>5, <1>6, <1>7
<1>9. Widths(lines) \in Seq(Nat)
  BY <1>7, <1>8
<1>10. Characters(lines) \in Seq(Nat)
  BY <1>4 DEF text
<1> QED BY <1>9, <1>10

-----------------------------------------------------------------------------
(* What becomes of a row.                                                  *)

\* What some characters hold, more of them before or after them hold too.
LEMMA HoldsMore ==
  ASSUME NEW v \in Seq(Nat), NEW s \in Seq(Nat), NEW t \in Seq(Nat), Holds(v, s)
  PROVE  Holds(v, s \o t) /\ Holds(v, t \o s)
<1>1. PICK p \in 0..(Len(s) - Len(v)) : \A n \in DOMAIN v : s[p + n] = v[n]
  BY DEF Holds
<1>2. /\ Len(v) \in Nat /\ Len(s) \in Nat /\ Len(t) \in Nat /\ DOMAIN v = 1..Len(v)
      /\ Len(s \o t) = Len(s) + Len(t) /\ Len(t \o s) = Len(t) + Len(s)
  BY LenProperties, ConcatProperties
<1>3. ASSUME NEW n \in DOMAIN v
      PROVE  (s \o t)[p + n] = v[n] /\ (t \o s)[(Len(t) + p) + n] = v[n]
  <2>0. n \in 1..Len(v)
    BY <1>2, <1>3
  <2>1. /\ p + n \in 1..(Len(s) + Len(t)) /\ p + n <= Len(s)
        /\ (Len(t) + p) + n \in 1..(Len(t) + Len(s))
        /\ ~((Len(t) + p) + n <= Len(t)) /\ ((Len(t) + p) + n) - Len(t) = p + n
    <3> DEFINE a == Len(v)
               b == Len(s)
               d == Len(t)
    <3>1. a \in Nat /\ b \in Nat /\ d \in Nat /\ p \in 0..(b - a) /\ n \in 1..a
      BY <1>2, <2>0
    <3> HIDE DEF a, b, d
    <3>2. p \in Nat /\ n \in Nat /\ p + a <= b /\ 1 <= n /\ n <= a
      BY <3>1
    <3>3. p + n \in 1..(b + d) /\ p + n <= b
      BY <3>1, <3>2, SMTT(60)
    <3>4. (d + p) + n \in 1..(d + b) /\ ~((d + p) + n <= d) /\ ((d + p) + n) - d = p + n
      BY <3>1, <3>2, SMTT(60)
    <3> QED BY <3>3, <3>4 DEF a, b, d
  <2>2. (s \o t)[p + n] = s[p + n]
    BY <2>1, ConcatProperties
  <2>3. (t \o s)[(Len(t) + p) + n] = s[((Len(t) + p) + n) - Len(t)]
    BY <2>1, ConcatProperties
  <2> QED BY <1>1, <2>1, <2>2, <2>3
<1>4. /\ p \in 0..(Len(s \o t) - Len(v))
      /\ Len(t) + p \in 0..(Len(t \o s) - Len(v))
  BY <1>2
<1> QED BY <1>3, <1>4 DEF Holds

\* Characters hold themselves.
LEMMA HoldsItself ==
  ASSUME NEW v \in Seq(Nat)
  PROVE  Holds(v, v)
<1>1. 0 \in 0..(Len(v) - Len(v)) /\ \A n \in DOMAIN v : 0 + n = n
  BY LenProperties
<1> QED BY <1>1 DEF Holds

\* A cell is in the line once it is taken, and keeps what is there.
LEMMA CellWritten ==
  ASSUME NEW chars \in Seq(Nat), NEW titles \in Seq(Seq(Nat)),
         NEW cells \in Seq(Seq(Nat)), NEW n \in 1..Len(cells)
  PROVE  /\ WithCell(chars, titles, cells, n) \in Seq(Nat)
         /\ n = 1 \/ cells[n] \notin {<<>>, <<Dash>>} =>
              Holds(cells[n], WithCell(chars, titles, cells, n))
         /\ n # 1 => \A v \in Seq(Nat) :
              Holds(v, chars) => Holds(v, WithCell(chars, titles, cells, n))
<1> DEFINE cell == cells[n]
           stars == <<Star, Star>>
           mark == IF chars = Bold(cells[1]) THEN <<Colon>> ELSE <<Space, Middot, Space>>
           title == IF n \in DOMAIN titles /\ titles[n] \notin {<<>>, cells[n]}
                      THEN titles[n] \o <<Space>> ELSE <<>>
<1>1. /\ <<>> \in Seq(Nat) /\ <<Space>> \in Seq(Nat) /\ stars \in Seq(Nat)
      /\ mark \in Seq(Nat)
  BY MarksTyped, EmptySeq
<1>2. cell \in Seq(Nat)
  BY ElementOfSeq
<1>3. title \in Seq(Nat)
  <2>1. \A m \in DOMAIN titles : titles[m] \in Seq(Nat)
    BY LenProperties, ElementOfSeq
  <2>2. \A m \in DOMAIN titles : titles[m] \o <<Space>> \in Seq(Nat)
    BY <1>1, <2>1, ConcatProperties
  <2> QED BY <1>1, <2>2
<1>4. Holds(cell, cell)
  BY <1>2, HoldsItself
<1>5. CASE n = 1
  <2>1. WithCell(chars, titles, cells, n) = (stars \o cell) \o stars
    BY <1>5 DEF WithCell, Bold
  <2> HIDE DEF cell, stars
  <2>2. stars \o cell \in Seq(Nat) /\ Holds(cell, stars \o cell)
    BY <1>1, <1>2, <1>4, HoldsMore, ConcatProperties
  <2>3. (stars \o cell) \o stars \in Seq(Nat) /\ Holds(cell, (stars \o cell) \o stars)
    BY <1>1, <1>2, <2>2, HoldsMore, ConcatProperties
  <2> QED BY <1>5, <2>1, <2>3 DEF cell
<1>6. CASE n # 1 /\ cell \in {<<>>, <<Dash>>}
  <2>1. WithCell(chars, titles, cells, n) = chars
    BY <1>6 DEF WithCell
  <2> QED BY <1>6, <2>1
<1>7. CASE n # 1 /\ cell \notin {<<>>, <<Dash>>}
  <2>1. WithCell(chars, titles, cells, n) = (chars \o mark) \o (title \o cell)
    BY <1>7 DEF WithCell, Titled
  <2> HIDE DEF cell, mark, title
  <2>2. chars \o mark \in Seq(Nat) /\ title \o cell \in Seq(Nat) /\ Holds(cell, title \o cell)
    BY <1>1, <1>2, <1>3, <1>4, HoldsMore, ConcatProperties
  <2>3. /\ (chars \o mark) \o (title \o cell) \in Seq(Nat)
        /\ Holds(cell, (chars \o mark) \o (title \o cell))
    BY <1>2, <2>2, HoldsMore, ConcatProperties
  <2>4. ASSUME NEW v \in Seq(Nat), Holds(v, chars)
        PROVE  Holds(v, (chars \o mark) \o (title \o cell))
    <3>1. Holds(v, chars \o mark)
      BY <1>1, <2>4, HoldsMore
    <3> QED BY <2>2, <3>1, HoldsMore
  <2> QED BY <1>7, <2>1, <2>3, <2>4 DEF cell
<1> QED BY <1>5, <1>6, <1>7

\* A row in one line holds its label, and each other cell that says something.
LEMMA RowTextHolds ==
  ASSUME NEW titles \in Seq(Seq(Nat)), NEW cells \in Seq(Seq(Nat))
  PROVE  /\ RowText(titles, cells) \in Seq(Nat)
         /\ \A n \in 1..Len(cells) :
              n = 1 \/ cells[n] \notin {<<>>, <<Dash>>} => Holds(cells[n], RowText(titles, cells))
<1> DEFINE N == Len(cells)
           Says(n) == n = 1 \/ cells[n] \notin {<<>>, <<Dash>>}
           F == [p \in (1..N) \X Seq(Nat) |-> WithCell(p[2], titles, cells, p[1])]
           Def(f) == f = [n \in 0..N |->
                            IF n = 0 THEN <<>> ELSE WithCell(f[n - 1], titles, cells, n)]
<1>1. N \in Nat /\ <<>> \in Seq(Nat)
  BY LenProperties, EmptySeq
<1>2. F \in [(1..N) \X Seq(Nat) -> Seq(Nat)]
  <2>1. ASSUME NEW p \in (1..N) \X Seq(Nat)
        PROVE  WithCell(p[2], titles, cells, p[1]) \in Seq(Nat)
    <3>1. p[1] \in 1..N /\ p[2] \in Seq(Nat)
      BY <2>1
    <3> QED BY <3>1, CellWritten
  <2> QED BY <2>1
<1>3. PICK f : Recurs(f, Seq(Nat), <<>>, N, F)
  <2> HIDE DEF F, N
  <2> QED BY <1>1, <1>2, Recursion
<1>4. /\ f \in [0..N -> Seq(Nat)]
      /\ f[0] = <<>>
      /\ \A n \in 1..N : f[n] = F[<<n, f[n - 1]>>]
  BY <1>3 DEF Recurs
<1>5. ASSUME NEW n \in 1..N PROVE f[n] = WithCell(f[n - 1], titles, cells, n)
  <2>1. n - 1 \in 0..N
    BY <1>1
  <2>2. <<n, f[n - 1]>> \in (1..N) \X Seq(Nat)
    BY <1>4, <2>1
  <2>3. F[<<n, f[n - 1]>>] = WithCell(f[n - 1], titles, cells, n)
    BY <2>2
  <2> HIDE DEF F
  <2> QED BY <1>4, <2>3
<1>6. Def(f)
  <2>1. f = [n \in 0..N |-> f[n]]
    BY <1>4
  <2>2. ASSUME NEW n \in 0..N
        PROVE  f[n] = IF n = 0 THEN <<>> ELSE WithCell(f[n - 1], titles, cells, n)
    <3>1. n = 0 \/ n \in 1..N
      BY <1>1
    <3> QED BY <1>4, <1>5, <3>1
  <2> QED BY <2>1, <2>2
<1>7. RowText(titles, cells) = (CHOOSE g : Def(g))[N]
  BY DEF RowText
<1> DEFINE g == CHOOSE x : Def(x)
<1>8. Def(g)
  <2> HIDE DEF Def
  <2> QED BY <1>6
<1> HIDE DEF g
<1>9. g[0] = <<>> /\ \A n \in 1..N : g[n] = WithCell(g[n - 1], titles, cells, n)
  <2>1. 0 \in 0..N /\ \A n \in 1..N : n \in 0..N /\ n # 0
    BY <1>1
  <2>2. \A n \in 0..N : g[n] = IF n = 0 THEN <<>> ELSE WithCell(g[n - 1], titles, cells, n)
    <3> HIDE DEF N
    <3> QED BY <1>8
  <2> HIDE DEF N
  <2> QED BY <2>1, <2>2
<1> DEFINE Good(n) == /\ g[n] \in Seq(Nat)
                     /\ \A m \in 1..n : Says(m) => Holds(cells[m], g[n])
           T == {n \in Nat : n \in 0..N => Good(n)}
<1>10. 0 \in T
  <2>1. \A m \in 1..0 : FALSE
    OBVIOUS
  <2>2. Good(0)
    <3> HIDE DEF Says
    <3> QED BY <1>1, <1>9, <2>1
  <2> HIDE DEF Good
  <2> QED BY <2>2
<1>11. ASSUME NEW n \in Nat, n \in T, n + 1 \in 0..N PROVE Good(n + 1)
  <2>1. n \in 0..N /\ n + 1 \in 1..N /\ (n + 1) - 1 = n
    <3> HIDE DEF T
    <3> QED BY <1>1, <1>11
  <2>2. Good(n) /\ g[n + 1] = WithCell(g[n], titles, cells, n + 1)
    BY <1>9, <1>11, <2>1
  <2>3. g[n + 1] \in Seq(Nat) /\ (Says(n + 1) => Holds(cells[n + 1], g[n + 1]))
    BY <2>1, <2>2, CellWritten
  <2>4. ASSUME NEW m \in 1..(n + 1), Says(m) PROVE Holds(cells[m], g[n + 1])
    <3>1. CASE m = n + 1
      BY <2>3, <2>4, <3>1
    <3>2. CASE m # n + 1
      <4>1. m \in 1..n /\ n + 1 # 1 /\ m \in 1..N
        BY <2>1, <3>2
      <4>2. Holds(cells[m], g[n]) /\ cells[m] \in Seq(Nat)
        BY <2>2, <2>4, <4>1, ElementOfSeq
      <4> HIDE DEF Says
      <4> QED BY <2>1, <2>2, <4>1, <4>2, CellWritten
    <3> QED BY <3>1, <3>2
  <2> HIDE DEF Says
  <2> QED BY <2>3, <2>4
<1>12. N \in T
  <2>1. \A n \in Nat : n \in T => n + 1 \in T
    <3> HIDE DEF Good
    <3> QED BY <1>11
  <2> HIDE DEF T
  <2> QED BY <1>1, <1>10, <2>1, Induction
<1>13. Good(N)
  <2>1. N \in 0..N
    BY <1>1
  <2> HIDE DEF Good
  <2> QED BY <1>12, <2>1
<1> QED BY <1>7, <1>13 DEF g

\* A row becomes an item that holds what its cells say.
LEMMA RowBecomesItem ==
  ASSUME NEW titles \in Seq(Seq(Nat)), NEW l \in TextLines
  PROVE  /\ TableRowToLine(titles, l) \in TextLines
         /\ TableRowToLine(titles, l).kind = "item"
         /\ \A v \in TextCells(l) : Holds(v, TableRowToLine(titles, l).chars)
<1> DEFINE text == RowText(titles, l.cells)
<1>1. l.cells \in Seq(Seq(Nat))
  BY DEF TextLines
<1>2. /\ text \in Seq(Nat)
      /\ \A n \in 1..Len(l.cells) :
           n = 1 \/ l.cells[n] \notin {<<>>, <<Dash>>} => Holds(l.cells[n], text)
  BY <1>1, RowTextHolds
<1> HIDE DEF text
<1>3. TableRowToLine(titles, l) = [l EXCEPT !.kind = "item", !.chars = text]
  BY DEF TableRowToLine, text
<1>4. /\ TableRowToLine(titles, l) \in TextLines
      /\ TableRowToLine(titles, l).kind = "item"
      /\ TableRowToLine(titles, l).chars = text
  BY <1>2, <1>3 DEF TextLines, LineKinds
<1>5. DOMAIN l.cells = 1..Len(l.cells)
  BY <1>1, LenProperties
<1>6. \A v \in TextCells(l) : Holds(v, text)
  BY <1>2, <1>5 DEF TextCells
<1> QED BY <1>4, <1>6

-----------------------------------------------------------------------------
(* What becomes of tables.                                                 *)

\* What holds of a number when it holds of all above it holds of all.
LEMMA Downward ==
  ASSUME NEW M \in Nat, NEW T,
         \A i \in 1..M : (\A j \in (i + 1)..M : j \in T) => i \in T
  PROVE  1..M \subseteq T
<1> DEFINE F == (1..M) \ T
<1> SUFFICES ASSUME F # {} PROVE FALSE
  OBVIOUS
<1>1. F \in SUBSET Nat /\ \A y \in F : y <= M
  OBVIOUS
<1>2. Max(F) \in F /\ \A y \in F : y <= Max(F)
  <2> HIDE DEF F
  <2> QED BY <1>1, MaxIsLargest
<1>3. PICK i \in F : \A y \in F : y <= i
  BY <1>2
<1>4. \A j \in (i + 1)..M : j \in T
  BY <1>3
<1> QED BY <1>3, <1>4

\* A table ends at the first line that is none of it, or after the last line.
LEMMA TableEnds ==
  ASSUME NEW lines \in Seq(TextLines), NEW i \in 1..(Len(lines) + 1)
  PROVE  /\ TableEnd(lines, i) \in i..(Len(lines) + 1)
         /\ TableEnd(lines, i) > Len(lines) \/ ~IsTableLine(lines[TableEnd(lines, i)])
         /\ \A k \in i..(TableEnd(lines, i) - 1) : IsTableLine(lines[k])
<1> DEFINE K == {k \in i..(Len(lines) + 2) : k > Len(lines) \/ ~IsTableLine(lines[k])}
<1>1. Len(lines) \in Nat /\ i \in Nat
  BY LenProperties
<1>2. Len(lines) + 1 \in K /\ K \in SUBSET Nat
  BY <1>1
<1>3. TableEnd(lines, i) = Min(K)
  BY DEF TableEnd
<1>4. TableEnd(lines, i) \in K /\ \A y \in K : TableEnd(lines, i) <= y
  <2> HIDE DEF K
  <2> QED BY <1>2, <1>3, MinIsSmallest
<1>5. TableEnd(lines, i) <= Len(lines) + 1
  <2> HIDE DEF K
  <2> QED BY <1>2, <1>4
<1>6. ASSUME NEW k \in i..(TableEnd(lines, i) - 1) PROVE IsTableLine(lines[k])
  <2>1. k \in i..(Len(lines) + 2) /\ ~(k > Len(lines)) /\ ~(TableEnd(lines, i) <= k)
    <3>1. TableEnd(lines, i) \in Nat
      BY <1>2, <1>4
    <3> HIDE DEF K
    <3> QED BY <1>1, <1>5, <3>1
  <2>2. k \notin K
    <3> HIDE DEF K
    <3> QED BY <1>4, <2>1
  <2> QED BY <2>1, <2>2
<1> QED BY <1>1, <1>4, <1>5, <1>6

\* The scan goes on after the line.
LEMMA ScanGoesOn ==
  ASSUME NEW lines \in Seq(TextLines), NEW i \in 1..Len(lines)
  PROVE  After(lines, i) \in (i + 1)..(Len(lines) + 1)
<1>1. Len(lines) \in Nat
  BY LenProperties
<1>2. CASE StartsTable(lines, i)
  <2>1. i + 2 \in 1..(Len(lines) + 1)
    BY <1>1, <1>2 DEF StartsTable
  <2>2. TableEnd(lines, i + 2) \in (i + 2)..(Len(lines) + 1)
    BY <2>1, TableEnds
  <2> QED BY <1>1, <1>2, <2>2 DEF After
<1>3. CASE ~StartsTable(lines, i)
  BY <1>1, <1>3 DEF After
<1> QED BY <1>2, <1>3

\* The lines that a table becomes are as many as its rows, and items that keep
\* what these say.
LEMMA TableFlattened ==
  ASSUME NEW lines \in Seq(TextLines), NEW i \in 1..Len(lines), StartsTable(lines, i)
  PROVE  /\ Flattened(lines, i) \in Seq(TextLines)
         /\ Len(Flattened(lines, i)) = After(lines, i) - i - 2
         /\ \A k \in 1..Len(Flattened(lines, i)) :
              /\ Flattened(lines, i)[k].kind = "item"
              /\ Keeps(lines[i + 1 + k], Flattened(lines, i)[k].chars)
<1> DEFINE n == TableEnd(lines, i + 2) - i - 2
           s == [k \in 1..n |-> TableRowToLine(lines[i].cells, lines[i + 1 + k])]
<1>1. Len(lines) \in Nat /\ i + 2 \in 1..(Len(lines) + 1)
  BY LenProperties DEF StartsTable
<1>2. /\ TableEnd(lines, i + 2) \in (i + 2)..(Len(lines) + 1)
      /\ \A k \in (i + 2)..(TableEnd(lines, i + 2) - 1) : IsTableLine(lines[k])
  BY <1>1, TableEnds
<1>3. n \in Nat /\ n <= Len(lines) - i - 1
  BY <1>1, <1>2
<1>4. ASSUME NEW k \in 1..n
      PROVE  /\ TableRowToLine(lines[i].cells, lines[i + 1 + k]) \in TextLines
             /\ TableRowToLine(lines[i].cells, lines[i + 1 + k]).kind = "item"
             /\ Keeps(lines[i + 1 + k], TableRowToLine(lines[i].cells, lines[i + 1 + k]).chars)
  <2>1. i + 1 + k \in 1..Len(lines) /\ i + 1 + k \in (i + 2)..(TableEnd(lines, i + 2) - 1)
    <3>1. k <= TableEnd(lines, i + 2) - i - 2 /\ TableEnd(lines, i + 2) \in Nat
      BY <1>2
    <3> HIDE DEF n
    <3> QED BY <1>1, <1>3, <3>1
  <2>2. lines[i + 1 + k] \in TextLines
    BY <2>1, ElementOfSeq
  <2>3. lines[i].cells \in Seq(Seq(Nat))
    <3>1. lines[i] \in TextLines
      BY ElementOfSeq
    <3> QED BY <3>1 DEF TextLines
  <2>4. IsTableLine(lines[i + 1 + k])
    BY <1>2, <2>1
  <2> HIDE DEF n
  <2> QED BY <2>2, <2>3, <2>4, RowBecomesItem DEF Keeps
<1>5. Flattened(lines, i) = s
  BY DEF Flattened
<1>6. /\ s \in [1..n -> TextLines]
      /\ \A k \in 1..n : s[k].kind = "item" /\ Keeps(lines[i + 1 + k], s[k].chars)
  <2> HIDE DEF n
  <2> QED BY <1>4
<1>7. s \in Seq(TextLines) /\ Len(s) = n
  <2> HIDE DEF n, s
  <2> QED BY <1>3, <1>6
<1>8. After(lines, i) - i - 2 = n
  BY DEF After
<1> QED BY <1>5, <1>6, <1>7, <1>8, Zenon

\* One step of the scan, given what it makes of the lines further down.
Scan(lines, g, i) ==
  IF i > Len(lines) THEN <<>> ELSE Flattened(lines, i) \o g[After(lines, i)]

\* What a line or a table becomes are lines.
LEMMA FlattenedTyped ==
  ASSUME NEW lines \in Seq(TextLines), NEW i \in 1..Len(lines)
  PROVE  Flattened(lines, i) \in Seq(TextLines)
<1>1. CASE StartsTable(lines, i)
  BY <1>1, TableFlattened
<1>2. CASE ~StartsTable(lines, i)
  <2>1. lines[i] \in TextLines
    BY ElementOfSeq
  <2> QED BY <1>2, <2>1 DEF Flattened
<1> QED BY <1>1, <1>2

\* The scan has lines for every line to start at, and begins at the first.
LEMMA Scanned ==
  ASSUME NEW lines \in Seq(TextLines)
  PROVE  \E g \in [1..(Len(lines) + 2) -> Seq(TextLines)] :
           /\ SanitizeTables(lines) = g[1]
           /\ \A i \in 1..(Len(lines) + 2) : g[i] = Scan(lines, g, i)
<1> DEFINE N == Len(lines)
           M == N + 2
           Def(g) == g = [i \in 1..M |-> IF i > N THEN <<>>
                                         ELSE Flattened(lines, i) \o g[After(lines, i)]]
           T == {i \in 1..M : \E g \in [1..M -> Seq(TextLines)] :
                                \A k \in i..M : g[k] = Scan(lines, g, k)}
<1>1. N \in Nat /\ M \in Nat /\ 1 \in 1..M
  BY LenProperties
<1>2. \A i \in 1..M : ~(i > N) => After(lines, i) \in (i + 1)..M
  <2> SUFFICES ASSUME NEW i \in 1..M, ~(i > N) PROVE After(lines, i) \in (i + 1)..M
    OBVIOUS
  <2>1. i \in 1..N
    BY <1>1
  <2>2. After(lines, i) \in (i + 1)..(N + 1)
    BY <2>1, ScanGoesOn
  <2> QED BY <1>1, <2>2
<1>3. ASSUME NEW i \in 1..M, NEW g \in [1..M -> Seq(TextLines)]
      PROVE  Scan(lines, g, i) \in Seq(TextLines)
  <2>1. CASE i > N
    BY <2>1 DEF Scan
  <2>2. CASE ~(i > N)
    <3>1. i \in 1..N
      BY <1>1, <2>2
    <3>2. After(lines, i) \in 1..M
      BY <1>1, <1>2, <2>2
    <3>3. g[After(lines, i)] \in Seq(TextLines)
      BY <3>2
    <3>4. Flattened(lines, i) \o g[After(lines, i)] \in Seq(TextLines)
      BY <3>1, <3>3, FlattenedTyped, ConcatProperties
    <3> QED BY <2>2, <3>4 DEF Scan
  <2> QED BY <2>1, <2>2
<1>4. ASSUME NEW i \in 1..M, \A j \in (i + 1)..M : j \in T PROVE i \in T
  <2>1. PICK g \in [1..M -> Seq(TextLines)] : \A k \in (i + 1)..M : g[k] = Scan(lines, g, k)
    <3>1. CASE i + 1 \in 1..M
      <4>1. i + 1 \in (i + 1)..M
        BY <1>1, <3>1
      <4> QED BY <1>4, <4>1
    <3>2. CASE ~(i + 1 \in 1..M)
      <4>1. [k \in 1..M |-> <<>>] \in [1..M -> Seq(TextLines)]
        BY EmptySeq
      <4>2. \A k \in (i + 1)..M : FALSE
        BY <1>1, <3>2
      <4> QED BY <4>1, <4>2
    <3> QED BY <3>1, <3>2
  <2> DEFINE h == [g EXCEPT ![i] = Scan(lines, g, i)]
  <2>2. h \in [1..M -> Seq(TextLines)]
    BY <1>3
  <2>3. h[i] = Scan(lines, g, i) /\ \A k \in (i + 1)..M : h[k] = g[k]
    BY <1>1
  <2>4. ASSUME NEW k \in i..M PROVE Scan(lines, h, k) = Scan(lines, g, k)
    <3>1. CASE k > N
      BY <3>1 DEF Scan
    <3>2. CASE ~(k > N)
      <4>1. After(lines, k) \in (i + 1)..M
        <5>1. k \in 1..M /\ After(lines, k) \in (k + 1)..M
          BY <1>1, <1>2, <3>2
        <5> QED BY <1>1, <5>1
      <4>2. h[After(lines, k)] = g[After(lines, k)]
        BY <2>3, <4>1
      <4> HIDE DEF h
      <4> QED BY <4>2 DEF Scan
    <3> QED BY <3>1, <3>2
  <2> HIDE DEF h
  <2>5. ASSUME NEW k \in i..M PROVE h[k] = Scan(lines, h, k)
    <3>1. k = i \/ k \in (i + 1)..M
      BY <1>1
    <3> QED BY <2>1, <2>3, <2>4, <3>1
  <2> QED BY <2>2, <2>5
<1>5. 1 \in T
  <2>1. 1..M \subseteq T
    <3> HIDE DEF T, M
    <3> QED BY <1>1, <1>4, Downward
  <2> QED BY <1>1, <2>1
<1>6. PICK g \in [1..M -> Seq(TextLines)] : \A k \in 1..M : g[k] = Scan(lines, g, k)
  BY <1>5
<1>7. Def(g)
  <2>1. \A k \in 1..M : g[k] = IF k > N THEN <<>> ELSE Flattened(lines, k) \o g[After(lines, k)]
    BY <1>6 DEF Scan
  <2>2. g = [k \in 1..M |-> g[k]]
    OBVIOUS
  <2> HIDE DEF M
  <2> QED BY <2>1, <2>2
<1>8. SanitizeTables(lines) = (CHOOSE f : Def(f))[1]
  BY DEF SanitizeTables
<1> DEFINE f == CHOOSE x : Def(x)
<1>9. Def(f)
  <2> HIDE DEF Def
  <2> QED BY <1>7
<1> HIDE DEF f
<1>10. \A k \in 1..M : f[k] = Scan(lines, f, k)
  BY <1>9 DEF Scan
<1>11. f = [k \in 1..M |-> f[k]]
  <2> HIDE DEF M
  <2> QED BY <1>9
<1>12. ASSUME NEW k \in 1..M PROVE f[k] \in Seq(TextLines)
  <2> DEFINE U == {i \in 1..M : f[i] \in Seq(TextLines)}
  <2>1. ASSUME NEW i \in 1..M, \A j \in (i + 1)..M : j \in U PROVE i \in U
    <3>1. CASE i > N
      BY <1>10, <3>1, EmptySeq DEF Scan
    <3>2. CASE ~(i > N)
      <4>1. i \in 1..N /\ f[After(lines, i)] \in Seq(TextLines)
        BY <1>1, <1>2, <2>1, <3>2
      <4>2. Flattened(lines, i) \o f[After(lines, i)] \in Seq(TextLines)
        BY <4>1, FlattenedTyped, ConcatProperties
      <4>3. f[i] = Flattened(lines, i) \o f[After(lines, i)]
        BY <1>10, <3>2 DEF Scan
      <4> QED BY <4>2, <4>3
    <3> QED BY <3>1, <3>2
  <2>2. 1..M \subseteq U
    <3> HIDE DEF U, M
    <3> QED BY <1>1, <2>1, Downward
  <2> QED BY <2>2
<1>13. f \in [1..M -> Seq(TextLines)]
  <2> HIDE DEF M
  <2> QED BY <1>11, <1>12
<1> QED BY <1>8, <1>10, <1>13 DEF f

-----------------------------------------------------------------------------
(* What survives: every line of a set has a line of its own that is not    *)
(* blank in what it became, with characters that may stand for it.         *)

Texts(s) == {i \in DOMAIN s : s[i].kind # "blank"}

Covers(a, D, s) ==
  \E g \in [D -> Texts(s)] :
    /\ \A x \in D : \A y \in D : g[x] = g[y] => x = y
    /\ \A x \in D : s[g[x]].chars \in a[x]

\* Its own characters stand for a line, and those that keep what it says.
Own(s)     == [i \in DOMAIN s |-> {s[i].chars}]
Keepers(s) == [i \in DOMAIN s |-> {chars \in Seq(Nat) : Keeps(s[i], chars)}]

\* The lines that flattening tables does not take away.
KeptTexts(lines) ==
  {i \in Texts(lines) :
     /\ ~StartsTable(lines, i)
     /\ ~(/\ IsSeparator(lines[i])
          /\ i - 1 \in DOMAIN lines
          /\ IsTableLine(lines[i - 1]))}

NoTable(s) ==
  \A i \in 1..(Len(s) - 1) : ~(s[i].kind = "row" /\ s[i + 1].kind = "separator")

\* With a set its subsets are covered.
LEMMA CoversPart ==
  ASSUME NEW a, NEW s, NEW E, NEW D \in SUBSET E, Covers(a, E, s)
  PROVE  Covers(a, D, s)
<1>1. PICK g \in [E -> Texts(s)] : /\ \A x \in E : \A y \in E : g[x] = g[y] => x = y
                                   /\ \A x \in E : s[g[x]].chars \in a[x]
  BY DEF Covers
<1> DEFINE h == [x \in D |-> g[x]]
<1>2. h \in [D -> Texts(s)] /\ \A x \in D : h[x] = g[x]
  OBVIOUS
<1>3. /\ \A x \in D : \A y \in D : h[x] = h[y] => x = y
      /\ \A x \in D : s[h[x]].chars \in a[x]
  BY <1>1, <1>2
<1> HIDE DEF h
<1> QED BY <1>2, <1>3 DEF Covers

\* Two sets are covered by two texts one after the other.
LEMMA CoversConcat ==
  ASSUME NEW a, NEW S, NEW s \in Seq(S), NEW t \in Seq(S), NEW D, NEW E,
         Covers(a, D, s), Covers(a, E, t)
  PROVE  Covers(a, D \cup E, s \o t)
<1>1. PICK g \in [D -> Texts(s)] : /\ \A x \in D : \A y \in D : g[x] = g[y] => x = y
                                   /\ \A x \in D : s[g[x]].chars \in a[x]
  BY DEF Covers
<1>2. PICK h \in [E -> Texts(t)] : /\ \A x \in E : \A y \in E : h[x] = h[y] => x = y
                                   /\ \A x \in E : t[h[x]].chars \in a[x]
  BY DEF Covers
<1>3. /\ Len(s) \in Nat /\ DOMAIN s = 1..Len(s)
      /\ Len(t) \in Nat /\ DOMAIN t = 1..Len(t)
      /\ s \o t \in Seq(S) /\ Len(s \o t) = Len(s) + Len(t)
      /\ DOMAIN (s \o t) = 1..(Len(s) + Len(t))
  BY LenProperties, ConcatProperties
<1>4. \A i \in Texts(s) : i \in 1..Len(s) /\ i \in Texts(s \o t) /\ (s \o t)[i] = s[i]
  <2> SUFFICES ASSUME NEW i \in Texts(s)
               PROVE  i \in 1..Len(s) /\ i \in Texts(s \o t) /\ (s \o t)[i] = s[i]
    OBVIOUS
  <2>1. i \in 1..Len(s) /\ s[i].kind # "blank"
    BY <1>3 DEF Texts
  <2>2. i \in 1..(Len(s) + Len(t)) /\ i <= Len(s)
    BY <1>3, <2>1
  <2>3. (s \o t)[i] = s[i]
    BY <2>2, ConcatProperties
  <2> QED BY <1>3, <2>1, <2>2, <2>3 DEF Texts
<1>5. \A i \in Texts(t) : /\ i \in 1..Len(t) /\ Len(s) + i \in Texts(s \o t)
                          /\ (s \o t)[Len(s) + i] = t[i]
  <2> SUFFICES ASSUME NEW i \in Texts(t)
               PROVE  /\ i \in 1..Len(t) /\ Len(s) + i \in Texts(s \o t)
                      /\ (s \o t)[Len(s) + i] = t[i]
    OBVIOUS
  <2>1. i \in 1..Len(t) /\ t[i].kind # "blank"
    BY <1>3 DEF Texts
  <2>2. /\ Len(s) + i \in 1..(Len(s) + Len(t))
        /\ ~(Len(s) + i <= Len(s))
        /\ (Len(s) + i) - Len(s) = i
    BY <1>3, <2>1
  <2>3. (s \o t)[Len(s) + i] = t[i]
    BY <2>2, ConcatProperties
  <2> QED BY <1>3, <2>1, <2>2, <2>3 DEF Texts
<1> DEFINE f == [x \in D \cup E |-> IF x \in D THEN g[x] ELSE Len(s) + h[x]]
<1>6. ASSUME NEW x \in D \cup E
      PROVE  (IF x \in D THEN g[x] ELSE Len(s) + h[x]) \in Texts(s \o t)
  <2>1. CASE x \in D
    BY <1>4, <2>1
  <2>2. CASE x \notin D
    BY <1>5, <2>2
  <2> QED BY <2>1, <2>2
<1>7. f \in [D \cup E -> Texts(s \o t)]
  BY <1>6
<1>8. ASSUME NEW x \in D \cup E, NEW y \in D \cup E, f[x] = f[y] PROVE x = y
  <2>1. \A z \in D : f[z] = g[z] /\ g[z] \in 1..Len(s)
    BY <1>4
  <2>2. \A z \in E : z \notin D => f[z] = Len(s) + h[z] /\ h[z] \in 1..Len(t)
    BY <1>5
  <2> HIDE DEF f
  <2>3. CASE x \in D /\ y \in D
    BY <1>1, <1>8, <2>1, <2>3
  <2>4. CASE x \notin D /\ y \notin D
    <3>1. h[x] = h[y]
      BY <1>3, <1>8, <2>2, <2>4
    <3> QED BY <1>2, <2>4, <3>1
  <2>5. CASE x \in D /\ y \notin D
    BY <1>3, <1>8, <2>1, <2>2, <2>5
  <2>6. CASE x \notin D /\ y \in D
    BY <1>3, <1>8, <2>1, <2>2, <2>6
  <2> QED BY <2>3, <2>4, <2>5, <2>6
<1>9. ASSUME NEW x \in D \cup E PROVE (s \o t)[f[x]].chars \in a[x]
  <2>1. CASE x \in D
    <3>1. f[x] = g[x] /\ (s \o t)[g[x]] = s[g[x]]
      BY <1>4, <2>1
    <3> HIDE DEF f
    <3> QED BY <1>1, <2>1, <3>1
  <2>2. CASE x \notin D
    <3>1. f[x] = Len(s) + h[x] /\ (s \o t)[Len(s) + h[x]] = t[h[x]]
      BY <1>5, <2>2
    <3> HIDE DEF f
    <3> QED BY <1>2, <2>2, <3>1
  <2> QED BY <2>1, <2>2
<1> HIDE DEF f
<1> QED BY <1>7, <1>8, <1>9 DEF Covers

\* What covers a covering text covers what that covers.
LEMMA CoversThrough ==
  ASSUME NEW a, NEW s, NEW t, NEW D, Covers(a, D, s), Covers(Own(s), Texts(s), t)
  PROVE  Covers(a, D, t)
<1>1. PICK g \in [D -> Texts(s)] : /\ \A x \in D : \A y \in D : g[x] = g[y] => x = y
                                   /\ \A x \in D : s[g[x]].chars \in a[x]
  BY DEF Covers
<1>2. PICK h \in [Texts(s) -> Texts(t)] :
        /\ \A x \in Texts(s) : \A y \in Texts(s) : h[x] = h[y] => x = y
        /\ \A x \in Texts(s) : t[h[x]].chars \in Own(s)[x]
  BY DEF Covers
<1> DEFINE f == [x \in D |-> h[g[x]]]
<1>3. f \in [D -> Texts(t)] /\ \A x \in D : f[x] = h[g[x]] /\ g[x] \in Texts(s)
  OBVIOUS
<1> HIDE DEF f
<1>4. \A x \in D : \A y \in D : f[x] = f[y] => x = y
  BY <1>1, <1>2, <1>3
<1>5. \A x \in Texts(s) : Own(s)[x] = {s[x].chars}
  BY DEF Own, Texts
<1>6. \A x \in D : t[f[x]].chars \in a[x]
  BY <1>1, <1>2, <1>3, <1>5
<1> QED BY <1>3, <1>4, <1>6 DEF Covers

\* Nothing is covered by every text.
LEMMA CoversNothing ==
  ASSUME NEW a, NEW s
  PROVE  Covers(a, {}, s)
<1>1. [x \in {} |-> x] \in [{} -> Texts(s)]
  OBVIOUS
<1> QED BY <1>1 DEF Covers

\* A step of the scan keeps the lines it passes, but for titles and separators.
LEMMA FlattenedCovers ==
  ASSUME NEW lines \in Seq(TextLines), NEW i \in 1..Len(lines)
  PROVE  Covers(Keepers(lines), {j \in KeptTexts(lines) : i <= j /\ j < After(lines, i)},
                Flattened(lines, i))
<1> DEFINE D == {j \in KeptTexts(lines) : i <= j /\ j < After(lines, i)}
           s == Flattened(lines, i)
<1>1. Len(lines) \in Nat /\ i \in Nat /\ i > 0 /\ DOMAIN lines = 1..Len(lines)
  BY LenProperties
<1>2. D \subseteq Nat /\ D \subseteq DOMAIN lines
  BY <1>1 DEF KeptTexts, Texts
<1>0. ASSUME NEW j \in DOMAIN lines, NEW l \in TextLines, Keeps(lines[j], l.chars)
      PROVE  l.chars \in Keepers(lines)[j]
  <2>1. l.chars \in Seq(Nat)
    BY DEF TextLines
  <2> QED BY <1>0, <2>1 DEF Keepers
<1>3. CASE StartsTable(lines, i)
  <2>1. /\ s \in Seq(TextLines)
        /\ Len(s) = After(lines, i) - i - 2
        /\ \A k \in 1..Len(s) : s[k].kind = "item" /\ Keeps(lines[i + 1 + k], s[k].chars)
    BY <1>3, TableFlattened
  <2>2. After(lines, i) \in Nat
    BY ScanGoesOn
  <2>3. DOMAIN s = 1..Len(s) /\ Len(s) \in Nat
    BY <2>1, LenProperties
  <2>4. i \notin D
    BY <1>3 DEF KeptTexts
  <2>5. i + 1 \notin D
    <3>1. (i + 1) - 1 = i
      BY <1>1
    <3>2. IsSeparator(lines[i + 1]) /\ IsTableLine(lines[i]) /\ i \in DOMAIN lines
      BY <1>1, <1>3 DEF StartsTable
    <3> QED BY <3>1, <3>2 DEF KeptTexts
  <2> DEFINE g == [j \in D |-> j - i - 1]
  <2>6. ASSUME NEW j \in D
        PROVE  j - i - 1 \in Texts(s) /\ s[j - i - 1].chars \in Keepers(lines)[j]
    <3>1. j \in Nat /\ i <= j /\ j < After(lines, i) /\ j # i /\ j # i + 1
      BY <1>2, <2>4, <2>5
    <3> HIDE DEF D, s
    <3>2. j - i - 1 \in 1..Len(s)
      BY <1>1, <2>1, <2>2, <3>1
    <3>3. s[j - i - 1].kind = "item"
      BY <2>1, <3>2
    <3>4. i + 1 + (j - i - 1) = j
      BY <1>1, <3>1
    <3>5. Keeps(lines[j], s[j - i - 1].chars)
      BY <2>1, <3>2, <3>4
    <3>6. s[j - i - 1] \in TextLines
      BY <2>1, <3>2, ElementOfSeq
    <3>7. j \in DOMAIN lines
      BY <1>2, <2>6
    <3> QED BY <1>0, <2>3, <3>2, <3>3, <3>5, <3>6, <3>7 DEF Texts
  <2>7. g \in [D -> Texts(s)]
    <3> HIDE DEF D, s
    <3> QED BY <2>6
  <2>8. \A x \in D : \A y \in D : g[x] = g[y] => x = y
    <3> HIDE DEF D
    <3> QED BY <1>1, <1>2
  <2>10. \A x \in D : s[g[x]].chars \in Keepers(lines)[x]
    <3> HIDE DEF D, s
    <3> QED BY <2>6
  <2> HIDE DEF g, D, s
  <2>9. Covers(Keepers(lines), D, s)
    BY <2>7, <2>8, <2>10 DEF Covers
  <2> QED BY <2>9 DEF D, s
<1>4. CASE ~StartsTable(lines, i)
  <2>1. s = <<lines[i]>> /\ After(lines, i) = i + 1
    BY <1>4 DEF Flattened, After
  <2>2. \A j \in D : j = i
    BY <1>1, <1>2, <2>1
  <2> DEFINE g == [j \in D |-> 1]
  <2>3. ASSUME NEW j \in D PROVE 1 \in Texts(s)
    <3>1. lines[i].kind # "blank"
      BY <2>2, <2>3 DEF KeptTexts, Texts
    <3>2. 1 \in DOMAIN s /\ s[1] = lines[i]
      BY <2>1
    <3> QED BY <3>1, <3>2 DEF Texts
  <2>4. g \in [D -> Texts(s)]
    <3> HIDE DEF D, s
    <3> QED BY <2>3
  <2>5. \A x \in D : \A y \in D : g[x] = g[y] => x = y
    BY <2>2
  <2>7. ASSUME NEW x \in D PROVE s[g[x]].chars \in Keepers(lines)[x]
    <3>1. x = i /\ g[x] = 1 /\ s[1] = lines[i]
      BY <2>1, <2>2, <2>7
    <3>2. lines[i] \in TextLines
      BY ElementOfSeq
    <3>3. Keeps(lines[i], lines[i].chars)
      BY DEF Keeps
    <3> HIDE DEF g, s, D
    <3> QED BY <1>0, <1>1, <3>1, <3>2, <3>3
  <2> HIDE DEF g, D, s
  <2>6. Covers(Keepers(lines), D, s)
    BY <2>4, <2>5, <2>7 DEF Covers
  <2> QED BY <2>6 DEF D, s
<1> QED BY <1>3, <1>4

\* Flattening takes nothing away but titles and separators.
LEMMA SanitizedCovers ==
  ASSUME NEW lines \in Seq(TextLines)
  PROVE  Covers(Keepers(lines), KeptTexts(lines), SanitizeTables(lines))
<1> DEFINE N == Len(lines)
           M == N + 2
           Rest(i) == {j \in KeptTexts(lines) : i <= j}
<1>1. N \in Nat /\ M \in Nat /\ 1 \in 1..M
  BY LenProperties
<1>2. \A j \in KeptTexts(lines) : j \in 1..N
  BY LenProperties DEF KeptTexts, Texts
<1>3. PICK g \in [1..M -> Seq(TextLines)] :
        /\ SanitizeTables(lines) = g[1]
        /\ \A i \in 1..M : g[i] = Scan(lines, g, i)
  BY Scanned
<1> DEFINE T == {i \in 1..M : Covers(Keepers(lines), Rest(i), g[i])}
<1>4. ASSUME NEW i \in 1..M, \A j \in (i + 1)..M : j \in T PROVE i \in T
  <2>1. CASE i > N
    <3>1. Rest(i) = {}
      BY <1>1, <1>2, <2>1
    <3> QED BY <3>1, CoversNothing
  <2>2. CASE ~(i > N)
    <3> DEFINE a == After(lines, i)
               D == {j \in KeptTexts(lines) : i <= j /\ j < a}
    <3>1. i \in 1..N
      BY <1>1, <2>2
    <3>2. a \in (i + 1)..(N + 1) /\ a \in (i + 1)..M /\ a \in 1..M
      <4>1. a \in (i + 1)..(N + 1)
        BY <3>1, ScanGoesOn
      <4> HIDE DEF a
      <4> QED BY <1>1, <4>1
    <3>3. Covers(Keepers(lines), D, Flattened(lines, i))
      BY <3>1, FlattenedCovers
    <3>4. Covers(Keepers(lines), Rest(a), g[a])
      BY <1>4, <3>2
    <3>5. g[i] = Flattened(lines, i) \o g[a]
      BY <1>3, <2>2 DEF Scan
    <3>6. Rest(i) = D \cup Rest(a)
      <4> HIDE DEF a
      <4> QED BY <1>1, <1>2, <3>2
    <3>7. Flattened(lines, i) \in Seq(TextLines) /\ g[a] \in Seq(TextLines)
      BY <3>1, <3>2, FlattenedTyped
    <3>8. Covers(Keepers(lines), D \cup Rest(a), Flattened(lines, i) \o g[a])
      <4> HIDE DEF D, a, Rest
      <4> QED BY <3>3, <3>4, <3>7, CoversConcat
    <3>9. Covers(Keepers(lines), Rest(i), g[i])
      <4> HIDE DEF D, a, Rest
      <4> QED BY <3>5, <3>6, <3>8
    <3> QED BY <3>9
  <2> QED BY <2>1, <2>2
<1>5. 1..M \subseteq T
  <2> HIDE DEF T, M
  <2> QED BY <1>1, <1>4, Downward
<1>6. Covers(Keepers(lines), Rest(1), g[1])
  BY <1>1, <1>5
<1>7. Rest(1) = KeptTexts(lines)
  BY <1>2
<1> QED BY <1>3, <1>6, <1>7

\* A text after another has a table only where one of them has, or where the
\* first ends in a row and the second begins with a separator.
LEMMA NoTableConcat ==
  ASSUME NEW S, NEW s \in Seq(S), NEW t \in Seq(S), NoTable(s), NoTable(t),
         s # <<>> /\ t # <<>> => ~(s[Len(s)].kind = "row" /\ t[1].kind = "separator")
  PROVE  NoTable(s \o t)
<1>1. /\ Len(s) \in Nat /\ Len(t) \in Nat
      /\ Len(s \o t) = Len(s) + Len(t)
      /\ \A i \in 1..(Len(s) + Len(t)) :
           (s \o t)[i] = IF i <= Len(s) THEN s[i] ELSE t[i - Len(s)]
  BY LenProperties, ConcatProperties
<1> SUFFICES ASSUME NEW i \in 1..(Len(s) + Len(t) - 1)
             PROVE  ~((s \o t)[i].kind = "row" /\ (s \o t)[i + 1].kind = "separator")
  BY <1>1 DEF NoTable
<1>2. i \in 1..(Len(s) + Len(t)) /\ i + 1 \in 1..(Len(s) + Len(t))
  BY <1>1
<1>3. CASE i < Len(s)
  <2>1. /\ (s \o t)[i] = s[i] /\ (s \o t)[i + 1] = s[i + 1] /\ i \in 1..(Len(s) - 1)
    BY <1>1, <1>2, <1>3
  <2> QED BY <2>1 DEF NoTable
<1>4. CASE i = Len(s)
  <2>1. i <= Len(s) /\ ~(i + 1 <= Len(s)) /\ (i + 1) - Len(s) = 1 /\ Len(s) > 0 /\ Len(t) > 0
    BY <1>1, <1>4
  <2>2. (s \o t)[i] = s[Len(s)]
    BY <1>1, <1>2, <1>4, <2>1
  <2>3. (s \o t)[i + 1] = t[(i + 1) - Len(s)]
    BY <1>1, <1>2, <2>1, Zenon
  <2>4. s # <<>> /\ t # <<>>
    BY <2>1, EmptySeq
  <2> QED BY <2>1, <2>2, <2>3, <2>4
<1>5. CASE i > Len(s)
  <2>1. /\ i - Len(s) \in 1..(Len(t) - 1) /\ (i + 1) - Len(s) = (i - Len(s)) + 1
        /\ ~(i <= Len(s)) /\ ~(i + 1 <= Len(s))
    BY <1>1, <1>5
  <2>2. (s \o t)[i] = t[i - Len(s)] /\ (s \o t)[i + 1] = t[(i - Len(s)) + 1]
    BY <1>1, <1>2, <2>1
  <2> QED BY <2>1, <2>2 DEF NoTable
<1> QED BY <1>1, <1>3, <1>4, <1>5

\* No table that begins with bars is left.
LEMMA SanitizedNoTable ==
  ASSUME NEW lines \in Seq(TextLines)
  PROVE  NoTable(SanitizeTables(lines))
<1> DEFINE N == Len(lines)
           M == N + 2
<1>1. N \in Nat /\ M \in Nat /\ 1 \in 1..M
  BY LenProperties
<1>2. PICK g \in [1..M -> Seq(TextLines)] :
        /\ SanitizeTables(lines) = g[1]
        /\ \A i \in 1..M : g[i] = Scan(lines, g, i)
  BY Scanned
<1> DEFINE Begins(i) == g[i] # <<>> /\ g[i][1].kind = "separator" =>
                          i \in 1..N /\ g[i][1] = lines[i]
           T == {i \in 1..M : NoTable(g[i]) /\ Begins(i)}
<1>3. ASSUME NEW i \in 1..M, \A j \in (i + 1)..M : j \in T PROVE i \in T
  <2>1. CASE i > N
    <3>1. g[i] = <<>>
      BY <1>2, <2>1 DEF Scan
    <3>2. NoTable(<<>>)
      BY EmptySeq DEF NoTable
    <3> QED BY <3>1, <3>2
  <2>2. CASE ~(i > N)
    <3> DEFINE a == After(lines, i)
               s == Flattened(lines, i)
    <3>1. i \in 1..N
      BY <1>1, <2>2
    <3>2. a \in (i + 1)..(N + 1) /\ a \in (i + 1)..M /\ a \in 1..M
      <4>1. a \in (i + 1)..(N + 1)
        BY <3>1, ScanGoesOn
      <4> HIDE DEF a
      <4> QED BY <1>1, <4>1
    <3>3. s \in Seq(TextLines) /\ g[a] \in Seq(TextLines)
      BY <3>1, <3>2, FlattenedTyped
    <3>4. g[i] = s \o g[a]
      BY <1>2, <2>2 DEF Scan
    <3>5. NoTable(g[a]) /\ Begins(a)
      BY <1>3, <3>2
    <3>6. CASE StartsTable(lines, i)
      <4>1. \A k \in 1..Len(s) : s[k].kind = "item"
        BY <3>1, <3>6, TableFlattened
      <4>2. Len(s) \in Nat /\ (s # <<>> => Len(s) \in 1..Len(s) /\ 1 \in 1..Len(s))
        BY <3>3, EmptySeq, LenProperties
      <4>3. g[a] # <<>> => g[a][1].kind # "separator"
        <5> SUFFICES ASSUME g[a] # <<>>, g[a][1].kind = "separator" PROVE FALSE
          OBVIOUS
        <5>1. a \in 1..N /\ lines[a].kind = "separator"
          BY <3>5
        <5>2. i + 2 \in 1..(N + 1) /\ a = TableEnd(lines, i + 2)
          BY <1>1, <3>1, <3>6 DEF StartsTable, After
        <5>3. a > N \/ ~IsTableLine(lines[a])
          BY <5>2, TableEnds
        <5> HIDE DEF a
        <5> QED BY <1>1, <5>1, <5>3 DEF IsTableLine
      <4>4. NoTable(s)
        <5> SUFFICES ASSUME NEW k \in 1..(Len(s) - 1) PROVE s[k].kind # "row"
          BY DEF NoTable
        <5>1. k \in 1..Len(s)
          BY <4>2
        <5> QED BY <4>1, <5>1
      <4>5. NoTable(s \o g[a])
        <5> HIDE DEF s, a
        <5> QED BY <3>3, <3>5, <4>1, <4>2, <4>3, <4>4, NoTableConcat
      <4>6. g[i] # <<>> => g[i][1].kind # "separator"
        <5>1. CASE s = <<>>
          <6>1. g[i] = g[a]
            BY <3>3, <3>4, <5>1, ConcatEmptySeq
          <6> QED BY <4>3, <6>1
        <5>2. CASE s # <<>>
          <6>1. 1 <= Len(s) /\ 1 \in 1..(Len(s) + Len(g[a]))
            BY <3>3, <4>2, <5>2, LenProperties
          <6>2. (s \o g[a])[1] = s[1]
            <7> HIDE DEF s, a
            <7> QED BY <3>3, <6>1, ConcatProperties
          <6> QED BY <3>4, <4>1, <4>2, <5>2, <6>2
        <5> QED BY <5>1, <5>2
      <4>7. NoTable(g[i]) /\ Begins(i)
        <5> HIDE DEF s, a
        <5> QED BY <3>4, <4>5, <4>6
      <4> QED BY <4>7
    <3>7. CASE ~StartsTable(lines, i)
      <4>1. s = <<lines[i]>> /\ a = i + 1
        BY <3>7 DEF Flattened, After
      <4>2. Len(s) = 1 /\ s[1] = lines[i] /\ s # <<>>
        BY <4>1
      <4>3. NoTable(s)
        BY <4>2 DEF NoTable
      <4>4. ~(g[a] # <<>> /\ s[1].kind = "row" /\ g[a][1].kind = "separator")
        <5> SUFFICES ASSUME g[a] # <<>>, s[1].kind = "row", g[a][1].kind = "separator"
                     PROVE  FALSE
          OBVIOUS
        <5>1. a \in 1..N /\ lines[a].kind = "separator"
          BY <3>5
        <5>2. i < N /\ lines[i + 1].kind = "separator" /\ lines[i].kind = "row"
          BY <1>1, <4>1, <4>2, <5>1
        <5> QED BY <3>7, <5>2 DEF StartsTable, IsTableLine, IsSeparator
      <4>5. NoTable(s \o g[a])
        <5> HIDE DEF s, a
        <5> QED BY <3>3, <3>5, <4>2, <4>3, <4>4, NoTableConcat
      <4>6. g[i][1] = lines[i]
        <5>1. 1 <= Len(s) /\ 1 \in 1..(Len(s) + Len(g[a]))
          BY <3>3, <4>2, LenProperties
        <5>2. (s \o g[a])[1] = s[1]
          <6> HIDE DEF s, a
          <6> QED BY <3>3, <5>1, ConcatProperties
        <5> QED BY <3>4, <4>2, <5>2
      <4>7. NoTable(g[i]) /\ Begins(i)
        <5> HIDE DEF s, a
        <5> QED BY <3>1, <3>4, <4>5, <4>6
      <4> QED BY <4>7
    <3> QED BY <3>6, <3>7
  <2> QED BY <2>1, <2>2
<1>4. 1..M \subseteq T
  <2> HIDE DEF T, M
  <2> QED BY <1>1, <1>3, Downward
<1> QED BY <1>1, <1>2, <1>4

\* Text without tables is lines.
LEMMA SanitizedTyped ==
  ASSUME NEW lines \in Seq(TextLines)
  PROVE  SanitizeTables(lines) \in Seq(TextLines)
<1>1. PICK g \in [1..(Len(lines) + 2) -> Seq(TextLines)] : SanitizeTables(lines) = g[1]
  BY Scanned
<1>2. 1 \in 1..(Len(lines) + 2)
  BY LenProperties
<1> QED BY <1>1, <1>2

-----------------------------------------------------------------------------
(* What the other adaptations keep.                                        *)

\* What is taken of a line is it, or nothing of a blank one.
LEMMA TakenTyped ==
  ASSUME NEW S, NEW lines \in Seq(S), NEW n \in 1..Len(lines)
  PROVE  /\ Taken(lines, n) \in Seq(S)
         /\ \/ Taken(lines, n) = <<lines[n]>>
            \/ /\ Taken(lines, n) = <<>>
               /\ n > 1 /\ lines[n].kind = "blank" /\ lines[n - 1].kind = "blank"
<1>1. <<lines[n]>> \in Seq(S)
  BY ElementOfSeq
<1> QED BY <1>1, EmptySeq DEF Taken

\* Compacting takes one line after the other.
LEMMA Compacted ==
  ASSUME NEW S, NEW lines \in Seq(S)
  PROVE  \E g \in [0..Len(lines) -> Seq(S)] :
           /\ CompactBlankLines(lines) = g[Len(lines)]
           /\ g[0] = <<>>
           /\ \A n \in 1..Len(lines) : g[n] = g[n - 1] \o Taken(lines, n)
<1> DEFINE N == Len(lines)
           F == [p \in (1..N) \X Seq(S) |-> p[2] \o Taken(lines, p[1])]
           Def(f) == f = [n \in 0..N |-> IF n = 0 THEN <<>> ELSE f[n - 1] \o Taken(lines, n)]
<1>1. N \in Nat
  BY LenProperties
<1>2. ASSUME NEW p \in (1..N) \X Seq(S) PROVE p[2] \o Taken(lines, p[1]) \in Seq(S)
  <2>1. p[1] \in 1..N /\ p[2] \in Seq(S)
    BY <1>2
  <2> QED BY <2>1, TakenTyped, ConcatProperties
<1>3. F \in [(1..N) \X Seq(S) -> Seq(S)]
  BY <1>2
<1>4. PICK f : Recurs(f, Seq(S), <<>>, N, F)
  <2>1. <<>> \in Seq(S)
    BY EmptySeq
  <2> HIDE DEF F, N
  <2> QED BY <1>1, <1>3, <2>1, Recursion
<1>5. /\ f \in [0..N -> Seq(S)]
      /\ f[0] = <<>>
      /\ \A n \in 1..N : f[n] = F[<<n, f[n - 1]>>]
  BY <1>4 DEF Recurs
<1>6. ASSUME NEW n \in 1..N PROVE f[n] = f[n - 1] \o Taken(lines, n)
  <2>1. n - 1 \in 0..N
    BY <1>1
  <2>2. <<n, f[n - 1]>> \in (1..N) \X Seq(S)
    BY <1>5, <2>1
  <2>3. F[<<n, f[n - 1]>>] = f[n - 1] \o Taken(lines, n)
    BY <2>2
  <2> HIDE DEF F
  <2> QED BY <1>5, <2>3
<1>7. Def(f)
  <2>1. f = [n \in 0..N |-> f[n]]
    BY <1>5
  <2>2. \A n \in 0..N : f[n] = IF n = 0 THEN <<>> ELSE f[n - 1] \o Taken(lines, n)
    <3> SUFFICES ASSUME NEW n \in 0..N, n # 0 PROVE f[n] = f[n - 1] \o Taken(lines, n)
      BY <1>5
    <3>1. n \in 1..N
      BY <1>1
    <3> QED BY <1>6, <3>1
  <2> QED BY <2>1, <2>2
<1>8. CompactBlankLines(lines) = (CHOOSE g : Def(g))[N]
  BY DEF CompactBlankLines
<1> DEFINE g == CHOOSE x : Def(x)
<1>9. Def(g)
  <2> HIDE DEF Def
  <2> QED BY <1>7
<1> HIDE DEF g
<1>10. g[0] = <<>> /\ \A n \in 1..N : g[n] = g[n - 1] \o Taken(lines, n)
  <2>1. 0 \in 0..N /\ \A n \in 1..N : n \in 0..N /\ n # 0
    BY <1>1
  <2>2. \A n \in 0..N : g[n] = IF n = 0 THEN <<>> ELSE g[n - 1] \o Taken(lines, n)
    <3> HIDE DEF N
    <3> QED BY <1>9
  <2> HIDE DEF N
  <2> QED BY <2>1, <2>2
<1>11. g = [n \in 0..N |-> g[n]]
  BY <1>9
<1> DEFINE T == {n \in Nat : n \in 0..N => g[n] \in Seq(S)}
<1>12. 0 \in T
  BY <1>10, EmptySeq
<1>13. ASSUME NEW n \in Nat, n \in T, n + 1 \in 0..N PROVE g[n + 1] \in Seq(S)
  <2>1. n \in 0..N /\ n + 1 \in 1..N /\ (n + 1) - 1 = n
    BY <1>1, <1>13
  <2>2. g[n] \in Seq(S) /\ g[n + 1] = g[n] \o Taken(lines, n + 1)
    BY <1>10, <1>13, <2>1
  <2>3. Taken(lines, n + 1) \in Seq(S)
    BY <2>1, TakenTyped
  <2> QED BY <2>2, <2>3, ConcatProperties
<1>14. Nat \subseteq T
  <2>1. \A n \in Nat : n \in T => n + 1 \in T
    BY <1>13
  <2> HIDE DEF T
  <2> QED BY <1>12, <2>1, Induction
<1>15. g \in [0..N -> Seq(S)]
  <2>1. \A n \in 0..N : g[n] \in Seq(S)
    BY <1>1, <1>14
  <2> QED BY <1>11, <2>1
<1> QED BY <1>8, <1>10, <1>15 DEF g

\* Compacting keeps every line that is not blank, and makes no table.
LEMMA CompactKeeps ==
  ASSUME NEW S, NEW lines \in Seq(S)
  PROVE  /\ CompactBlankLines(lines) \in Seq(S)
         /\ Covers(Own(lines), Texts(lines), CompactBlankLines(lines))
         /\ NoTable(lines) => NoTable(CompactBlankLines(lines))
<1> DEFINE N == Len(lines)
           First(n) == {i \in Texts(lines) : i <= n}
<1>1. N \in Nat /\ DOMAIN lines = 1..N
  BY LenProperties
<1>2. PICK g \in [0..N -> Seq(S)] :
        /\ CompactBlankLines(lines) = g[N]
        /\ g[0] = <<>>
        /\ \A n \in 1..N : g[n] = g[n - 1] \o Taken(lines, n)
  BY Compacted
<1>3. \A i \in Texts(lines) : i \in 1..N /\ lines[i].kind # "blank"
  BY <1>1 DEF Texts
<1> DEFINE Ends(n) == g[n] # <<>> /\ g[n][Len(g[n])].kind = lines[n].kind
           T == {n \in Nat : n \in 0..N =>
                   /\ Covers(Own(lines), First(n), g[n])
                   /\ NoTable(lines) => NoTable(g[n])
                   /\ n # 0 => Ends(n)}
<1>4. 0 \in T
  <2>1. First(0) = {}
    BY <1>1, <1>3
  <2>2. NoTable(<<>>)
    BY EmptySeq DEF NoTable
  <2>3. Covers(Own(lines), First(0), g[0])
    BY <2>1, CoversNothing
  <2> HIDE DEF First, Ends
  <2> QED BY <1>2, <2>2, <2>3
<1>5. ASSUME NEW n \in Nat, n \in T, n + 1 \in 0..N
      PROVE  /\ Covers(Own(lines), First(n + 1), g[n + 1])
             /\ NoTable(lines) => NoTable(g[n + 1])
             /\ Ends(n + 1)
  <2>1. n \in 0..N /\ n + 1 \in 1..N /\ (n + 1) - 1 = n
    BY <1>1, <1>5
  <2>2. /\ Covers(Own(lines), First(n), g[n])
        /\ NoTable(lines) => NoTable(g[n])
        /\ n # 0 => Ends(n)
    BY <1>5, <2>1
  <2>3. g[n] \in Seq(S) /\ g[n + 1] = g[n] \o Taken(lines, n + 1)
    BY <1>2, <2>1
  <2>4. CASE Taken(lines, n + 1) = <<lines[n + 1]>>
    <3> DEFINE s == <<lines[n + 1]>>
               D == {i \in {n + 1} : lines[i].kind # "blank"}
    <3>1. s \in Seq(S) /\ Len(s) = 1 /\ s[1] = lines[n + 1] /\ DOMAIN s = 1..1
      BY <2>1, ElementOfSeq
    <3>2. Covers(Own(lines), D, s)
      <4> DEFINE h == [i \in D |-> 1]
      <4>1. ASSUME NEW i \in D PROVE 1 \in Texts(s)
        BY <3>1, <4>1 DEF Texts
      <4>2. h \in [D -> Texts(s)]
        <5> HIDE DEF s, D
        <5> QED BY <4>1
      <4>3. \A x \in D : \A y \in D : h[x] = h[y] => x = y
        OBVIOUS
      <4>4. ASSUME NEW x \in D PROVE s[h[x]].chars \in Own(lines)[x]
        <5>1. x = n + 1 /\ h[x] = 1 /\ n + 1 \in DOMAIN lines
          BY <1>1, <2>1
        <5> HIDE DEF h, s
        <5> QED BY <3>1, <5>1 DEF Own
      <4> HIDE DEF h, s, D
      <4> QED BY <4>2, <4>3, <4>4 DEF Covers
    <3>3. First(n + 1) \in SUBSET (First(n) \cup D)
      BY <1>1, <1>3
    <3>4. Covers(Own(lines), First(n) \cup D, g[n] \o s)
      <4> HIDE DEF First, D, s
      <4> QED BY <2>2, <2>3, <3>1, <3>2, CoversConcat
    <3>5. Covers(Own(lines), First(n + 1), g[n + 1])
      <4> HIDE DEF First, D
      <4> QED BY <2>3, <2>4, <3>3, <3>4, CoversPart
    <3>6. ASSUME NoTable(lines) PROVE NoTable(g[n + 1])
      <4>1. NoTable(g[n])
        BY <2>2, <3>6
      <4>2. NoTable(s)
        BY <3>1 DEF NoTable
      <4>3. ASSUME g[n] # <<>>
            PROVE  ~(g[n][Len(g[n])].kind = "row" /\ s[1].kind = "separator")
        <5>1. n # 0
          BY <1>2, <4>3
        <5>2. g[n][Len(g[n])].kind = lines[n].kind
          BY <2>2, <5>1
        <5>3. n \in 1..(N - 1)
          BY <1>1, <2>1, <5>1
        <5>4. ~(lines[n].kind = "row" /\ lines[n + 1].kind = "separator")
          BY <3>6, <5>3 DEF NoTable
        <5> QED BY <3>1, <5>2, <5>4
      <4>4. NoTable(g[n] \o s)
        <5> HIDE DEF s
        <5> QED BY <2>3, <3>1, <4>1, <4>2, <4>3, NoTableConcat
      <4> QED BY <2>3, <2>4, <4>4
    <3>7. Ends(n + 1)
      <4>1. /\ Len(g[n]) \in Nat
            /\ Len(g[n] \o s) = Len(g[n]) + 1
            /\ Len(g[n]) + 1 \in 1..(Len(g[n]) + Len(s))
            /\ ~(Len(g[n]) + 1 <= Len(g[n]))
            /\ (Len(g[n]) + 1) - Len(g[n]) = 1
        <5>1. Len(g[n]) \in Nat /\ Len(g[n] \o s) = Len(g[n]) + Len(s)
          <6> HIDE DEF s
          <6> QED BY <2>3, <3>1, LenProperties, ConcatProperties
        <5> HIDE DEF s
        <5> QED BY <3>1, <5>1
      <4>2. (g[n] \o s)[Len(g[n]) + 1] = s[1]
        <5> HIDE DEF s
        <5> QED BY <2>3, <3>1, <4>1, ConcatProperties
      <4>3. g[n] \o s # <<>>
        <5> HIDE DEF s
        <5> QED BY <4>1, EmptySeq
      <4> HIDE DEF s
      <4>4. g[n + 1] = g[n] \o s
        BY <2>3, <2>4 DEF s
      <4> QED BY <3>1, <4>1, <4>2, <4>3, <4>4
    <3> QED BY <3>5, <3>6, <3>7
  <2>5. CASE /\ Taken(lines, n + 1) = <<>>
             /\ n + 1 > 1 /\ lines[n + 1].kind = "blank" /\ lines[n].kind = "blank"
    <3>1. g[n + 1] = g[n]
      BY <2>3, <2>5, ConcatEmptySeq
    <3>2. First(n + 1) = First(n)
      BY <1>1, <1>3, <2>5
    <3>3. n # 0
      BY <2>5
    <3> HIDE DEF First
    <3> QED BY <2>2, <2>5, <3>1, <3>2, <3>3
  <2>6. \/ Taken(lines, n + 1) = <<lines[n + 1]>>
        \/ /\ Taken(lines, n + 1) = <<>>
           /\ n + 1 > 1 /\ lines[n + 1].kind = "blank" /\ lines[n].kind = "blank"
    BY <2>1, TakenTyped
  <2> QED BY <2>4, <2>5, <2>6
<1>6. N \in T
  <2>1. \A n \in Nat : n \in T => n + 1 \in T
    <3> HIDE DEF First, Ends
    <3> QED BY <1>5
  <2> HIDE DEF T
  <2> QED BY <1>1, <1>4, <2>1, Induction
<1>7. First(N) = Texts(lines)
  BY <1>1, <1>3
<1>8. Covers(Own(lines), First(N), g[N]) /\ (NoTable(lines) => NoTable(g[N]))
  <2>1. N \in 0..N
    BY <1>1
  <2> HIDE DEF First, Ends
  <2> QED BY <1>6, <2>1
<1>9. g[N] \in Seq(S)
  BY <1>1
<1> HIDE DEF First
<1> QED BY <1>2, <1>7, <1>8, <1>9

\* Trimming keeps every line that is not blank, and makes no table.
LEMMA TrimKeeps ==
  ASSUME NEW S, NEW lines \in Seq(S)
  PROVE  /\ TrimSpace(lines) \in Seq(S)
         /\ Covers(Own(lines), Texts(lines), TrimSpace(lines))
         /\ NoTable(lines) => NoTable(TrimSpace(lines))
<1>1. Len(lines) \in Nat /\ DOMAIN lines = 1..Len(lines)
  BY LenProperties
<1>2. CASE Texts(lines) = {}
  <2>1. TrimSpace(lines) = <<>>
    BY <1>2 DEF TrimSpace, Texts
  <2>2. NoTable(<<>>)
    BY EmptySeq DEF NoTable
  <2> QED BY <1>2, <2>1, <2>2, EmptySeq, CoversNothing
<1>3. CASE Texts(lines) # {}
  <2> DEFINE a == Min(Texts(lines))
             b == Max(Texts(lines))
             s == SubSeq(lines, a, b)
  <2>1. /\ Texts(lines) \in SUBSET Nat
        /\ \A i \in Texts(lines) : i \in 1..Len(lines) /\ i <= Len(lines)
    BY <1>1 DEF Texts
  <2>2. a \in Texts(lines) /\ \A i \in Texts(lines) : a <= i
    <3> QED BY <1>3, <2>1, MinIsSmallest
  <2>3. b \in Texts(lines) /\ \A i \in Texts(lines) : i <= b
    <3> QED BY <1>1, <1>3, <2>1, MaxIsLargest
  <2>4. TrimSpace(lines) = s
    BY <1>3 DEF TrimSpace, Texts
  <2> HIDE DEF a, b
  <2>5. a \in 1..Len(lines) /\ b \in 1..Len(lines) /\ a <= b
    BY <2>1, <2>2, <2>3
  <2>6. \A i \in a..b : i \in 1..Len(lines) /\ lines[i] \in S
    BY <1>1, <2>5, ElementOfSeq
  <2>7. /\ s \in Seq(S)
        /\ Len(s) = b - a + 1
        /\ \A i \in 1..(b - a + 1) : s[i] = lines[a + i - 1]
    <3>1. a \in Int /\ b \in Int
      BY <2>5
    <3> QED BY <2>5, <2>6, <3>1, SubSeqProperties
  <2> HIDE DEF s
  <2>8. DOMAIN s = 1..(b - a + 1)
    BY <2>7, LenProperties
  <2>9. Covers(Own(lines), Texts(lines), s)
    <3> DEFINE g == [i \in Texts(lines) |-> i - a + 1]
    <3>1. ASSUME NEW i \in Texts(lines)
          PROVE  i - a + 1 \in Texts(s) /\ s[i - a + 1] = lines[i]
      <4>1. i - a + 1 \in 1..(b - a + 1) /\ a + (i - a + 1) - 1 = i
        BY <1>1, <2>1, <2>2, <2>3, <2>5
      <4>2. s[i - a + 1] = lines[i]
        BY <2>7, <4>1
      <4>3. lines[i].kind # "blank"
        BY DEF Texts
      <4> QED BY <2>8, <4>1, <4>2, <4>3 DEF Texts
    <3>2. g \in [Texts(lines) -> Texts(s)]
      BY <3>1
    <3>3. \A x \in Texts(lines) : \A y \in Texts(lines) : g[x] = g[y] => x = y
      BY <2>1, <2>5
    <3>4. \A x \in Texts(lines) : s[g[x]].chars \in Own(lines)[x]
      BY <3>1 DEF Own, Texts
    <3> HIDE DEF g
    <3> QED BY <3>2, <3>3, <3>4 DEF Covers
  <2>10. ASSUME NoTable(lines) PROVE NoTable(s)
    <3> SUFFICES ASSUME NEW i \in 1..(Len(s) - 1)
                 PROVE  ~(s[i].kind = "row" /\ s[i + 1].kind = "separator")
      BY DEF NoTable
    <3>1. /\ i \in 1..(b - a + 1) /\ i + 1 \in 1..(b - a + 1)
          /\ a + i - 1 \in 1..(Len(lines) - 1)
          /\ a + (i + 1) - 1 = (a + i - 1) + 1
      BY <1>1, <2>5, <2>7
    <3>2. s[i] = lines[a + i - 1] /\ s[i + 1] = lines[(a + i - 1) + 1]
      BY <2>7, <3>1
    <3> QED BY <2>10, <3>1, <3>2 DEF NoTable
  <2> QED BY <2>4, <2>7, <2>9, <2>10
<1> QED BY <1>2, <1>3

WeChatFonts == {"none", "info", "comment", "warning"}

\* The lines a channel may get.
LinesFor(c) ==
  {l \in TextLines : IF c = "wechat" THEN l.kind # "bullet" /\ l.font \in WeChatFonts
                     ELSE l.font = "none"}

\* Fonts and bullets as a channel has them.
Restyled(c, s) ==
  IF c = "wechat" THEN BulletsForWeChat(NormalizeWeChatFonts(s)) ELSE StripFontTags(s)

\* Every font is one of those that WeChat has.
LEMMA FontsNormalized ==
  ASSUME NEW font \in Fonts
  PROVE  NormalizedFont(font) \in WeChatFonts
BY DEF NormalizedFont, WeChatFonts, Fonts

\* A line restyled is one that the channel may get, with the same characters
\* and of the same kind but for bullets.
LEMMA RestyledTyped ==
  ASSUME NEW c \in Channels, NEW s \in Seq(TextLines)
  PROVE  /\ Restyled(c, s) \in Seq(LinesFor(c))
         /\ Len(Restyled(c, s)) = Len(s)
         /\ \A i \in 1..Len(s) :
              /\ \/ Restyled(c, s)[i].kind = s[i].kind
                 \/ s[i].kind = "bullet" /\ Restyled(c, s)[i].kind = "dot"
              /\ Restyled(c, s)[i].chars = s[i].chars
<1>1. /\ Len(s) \in Nat /\ DOMAIN s = 1..Len(s)
      /\ \A i \in 1..Len(s) : s[i] \in TextLines
  BY LenProperties, ElementOfSeq
<1>2. CASE c = "wechat"
  <2> DEFINE n(l) == [l EXCEPT !.font = NormalizedFont(@)]
             b(l) == IF n(l).kind = "bullet" THEN [n(l) EXCEPT !.kind = "dot"] ELSE n(l)
             t == [i \in 1..Len(s) |-> b(s[i])]
  <2>1. ASSUME NEW l \in TextLines
        PROVE  /\ b(l) \in LinesFor(c)
               /\ b(l).kind = l.kind \/ (l.kind = "bullet" /\ b(l).kind = "dot")
               /\ b(l).chars = l.chars
    <3>1. NormalizedFont(l.font) \in WeChatFonts
      BY FontsNormalized DEF TextLines
    <3>2. /\ n(l) \in TextLines /\ n(l).font = NormalizedFont(l.font)
          /\ n(l).kind = l.kind /\ n(l).chars = l.chars
      BY <3>1 DEF TextLines, WeChatFonts, Fonts
    <3> HIDE DEF n
    <3>3. CASE n(l).kind = "bullet"
      BY <1>2, <3>1, <3>2, <3>3 DEF LinesFor, TextLines, LineKinds
    <3>4. CASE n(l).kind # "bullet"
      BY <1>2, <3>1, <3>2, <3>4 DEF LinesFor
    <3> QED BY <3>3, <3>4
  <2>2. Restyled(c, s) = t
    <3> DEFINE u == [i \in 1..Len(s) |-> n(s[i])]
    <3>1. NormalizeWeChatFonts(s) = u
      BY <1>1 DEF NormalizeWeChatFonts
    <3>2. DOMAIN u = 1..Len(s) /\ \A i \in 1..Len(s) : u[i] = n(s[i])
      OBVIOUS
    <3> HIDE DEF u, n
    <3>3. BulletsForWeChat(u) = t
      BY <3>2 DEF BulletsForWeChat
    <3> QED BY <1>2, <3>1, <3>3 DEF Restyled
  <2> HIDE DEF b
  <2>3. t \in [1..Len(s) -> LinesFor(c)] /\ \A i \in 1..Len(s) : t[i] = b(s[i])
    BY <1>1, <2>1
  <2> HIDE DEF t
  <2>4. t \in Seq(LinesFor(c)) /\ Len(t) = Len(s)
    BY <1>1, <2>3
  <2> QED BY <1>1, <2>1, <2>2, <2>3, <2>4
<1>3. CASE c # "wechat"
  <2> DEFINE n(l) == [l EXCEPT !.font = "none"]
             t == [i \in 1..Len(s) |-> n(s[i])]
  <2>1. ASSUME NEW l \in TextLines
        PROVE  n(l) \in LinesFor(c) /\ n(l).kind = l.kind /\ n(l).chars = l.chars
    BY <1>3 DEF LinesFor, TextLines, Fonts
  <2>2. Restyled(c, s) = t
    BY <1>1, <1>3 DEF Restyled, StripFontTags
  <2> HIDE DEF n
  <2>3. t \in [1..Len(s) -> LinesFor(c)] /\ \A i \in 1..Len(s) : t[i] = n(s[i])
    BY <1>1, <2>1
  <2> HIDE DEF t
  <2>4. t \in Seq(LinesFor(c)) /\ Len(t) = Len(s)
    BY <1>1, <2>3
  <2> QED BY <1>1, <2>1, <2>2, <2>3, <2>4
<1> QED BY <1>2, <1>3

\* Restyling keeps what a text covers, and makes no table.
LEMMA RestyledKeeps ==
  ASSUME NEW c \in Channels, NEW s \in Seq(TextLines)
  PROVE  /\ \A a : \A D : Covers(a, D, s) => Covers(a, D, Restyled(c, s))
         /\ NoTable(s) => NoTable(Restyled(c, s))
<1> DEFINE t == Restyled(c, s)
<1>1. /\ t \in Seq(LinesFor(c)) /\ Len(t) = Len(s)
      /\ \A i \in 1..Len(s) :
           /\ t[i].kind = s[i].kind \/ (s[i].kind = "bullet" /\ t[i].kind = "dot")
           /\ t[i].chars = s[i].chars
  BY RestyledTyped
<1> HIDE DEF t
<1>2. Len(s) \in Nat /\ DOMAIN s = 1..Len(s) /\ DOMAIN t = 1..Len(s)
  BY <1>1, LenProperties
<1>3. ASSUME NEW a, NEW D, Covers(a, D, s) PROVE Covers(a, D, t)
  <2>1. Texts(t) = Texts(s)
    BY <1>1, <1>2 DEF Texts
  <2>2. \A i \in Texts(s) : t[i].chars = s[i].chars
    BY <1>1, <1>2 DEF Texts
  <2>3. PICK g \in [D -> Texts(s)] : /\ \A x \in D : \A y \in D : g[x] = g[y] => x = y
                                     /\ \A x \in D : s[g[x]].chars \in a[x]
    BY <1>3 DEF Covers
  <2>4. \A x \in D : t[g[x]].chars \in a[x]
    BY <2>2, <2>3
  <2> QED BY <2>1, <2>3, <2>4 DEF Covers
<1>4. ASSUME NoTable(s) PROVE NoTable(t)
  <2> SUFFICES ASSUME NEW i \in 1..(Len(t) - 1)
               PROVE  ~(t[i].kind = "row" /\ t[i + 1].kind = "separator")
    BY DEF NoTable
  <2>1. i \in 1..(Len(s) - 1) /\ i \in 1..Len(s) /\ i + 1 \in 1..Len(s)
    BY <1>1, <1>2
  <2>2. ~(s[i].kind = "row" /\ s[i + 1].kind = "separator")
    BY <1>4, <2>1 DEF NoTable
  <2> QED BY <1>1, <2>1, <2>2
<1> QED BY <1>3, <1>4 DEF t

\* What is adapted for a channel keeps the text, has no table, and only what
\* the channel shows.
LEMMA AdaptedKeeps ==
  ASSUME NEW c \in Channels, NEW lines \in Seq(TextLines)
  PROVE  /\ Adapted(c, lines) \in Seq(LinesFor(c))
         /\ Covers(Keepers(lines), KeptTexts(lines), Adapted(c, lines))
         /\ NoTable(Adapted(c, lines))
<1> DEFINE flat  == SanitizeTables(lines)
           style == Restyled(c, flat)
           short == CompactBlankLines(style)
<1>1. Adapted(c, lines) = TrimSpace(short)
  BY DEF Adapted, Restyled
<1>2. /\ flat \in Seq(TextLines) /\ NoTable(flat)
      /\ Covers(Keepers(lines), KeptTexts(lines), flat)
  BY SanitizedTyped, SanitizedCovers, SanitizedNoTable
<1> HIDE DEF flat
<1>3. style \in Seq(LinesFor(c)) /\ NoTable(style)
  BY <1>2, RestyledTyped, RestyledKeeps
<1>4. Covers(Keepers(lines), KeptTexts(lines), style)
  BY <1>2, RestyledKeeps
<1> HIDE DEF style
<1>5. short \in Seq(LinesFor(c)) /\ Covers(Own(style), Texts(style), short) /\ NoTable(short)
  BY <1>3, CompactKeeps
<1>6. Covers(Keepers(lines), KeptTexts(lines), short)
  BY <1>4, <1>5, CoversThrough
<1> HIDE DEF short
<1>7. /\ TrimSpace(short) \in Seq(LinesFor(c))
      /\ Covers(Own(short), Texts(short), TrimSpace(short))
      /\ NoTable(TrimSpace(short))
  BY <1>5, TrimKeeps
<1>8. Covers(Keepers(lines), KeptTexts(lines), TrimSpace(short))
  BY <1>6, <1>7, CoversThrough
<1> QED BY <1>1, <1>7, <1>8

-----------------------------------------------------------------------------
(* The message.                                                            *)

\* A message has lines, and so has what it may be made of.
MessageInv ==
  /\ message \in Seq(TextLines)
  /\ call.stage = "waiting" => call.draft \in Seq(TextLines)
  /\ call.stage = "answered" =>
       /\ call.draft \in Seq(TextLines)
       /\ call.outcome.content \in Seq(Pieces)

\* What is made of a reply has pieces for its text.
LEMMA OutcomeTyped ==
  ASSUME AnswerInv, call.stage = "waiting", NEW reply \in Replies
  PROVE  Outcome(reply).content \in Seq(Pieces)
<1>1. <<>> \in Seq(Pieces)
  BY EmptySeq
<1>2. ASSUME reply.kind = "json", NEW f, TextsOf(reply, f) # <<>>
      PROVE  TextsOf(reply, f)[1] \in Seq(Pieces)
  <2>1. reply.body \in AnalysisBodies \cup RenderingBodies
    BY <1>2 DEF Replies
  <2> QED BY <1>2, <2>1, BodyTyped DEF TextsOf, Has
<1>3. Failure.content = <<>> /\ \A c : Diagnosis(c).content = c
  BY DEF Failure, Diagnosis
<1>4. CASE call.for = "rendering"
  <2>1. CASE RenderReport(reply) = Failure
    BY <1>1, <1>3, <1>4, <2>1 DEF Outcome
  <2>2. CASE RenderReport(reply) # Failure
    <3>1. /\ reply.kind = "json" /\ TextsOf(reply, "choices") # <<>>
          /\ RenderReport(reply).content = TextsOf(reply, "choices")[1]
      BY <2>2 DEF RenderReport, Unmarshals
    <3> QED BY <1>2, <1>4, <3>1 DEF Outcome
  <2> QED BY <2>1, <2>2
<1>5. CASE call.for # "rendering"
  <2> DEFINE type == providers[call.name].type
  <2>1. type \in ProviderTypes /\ Outcome(reply) = Analyze(type, reply)
    BY <1>5 DEF AnswerInv, Outcome
  <2> HIDE DEF type
  <2>2. CASE reply.kind # "json"
    BY <1>1, <1>3, <2>1, <2>2, NoJsonFails
  <2>3. CASE reply.kind = "json"
    <3>1. \/ Analyze(type, reply) = Failure
          \/ Analyze(type, reply) = Diagnosis(OllamaText(reply))
          \/ \E f \in Fields : /\ TextsOf(reply, f) # <<>>
                            /\ Analyze(type, reply) = Diagnosis(TextsOf(reply, f)[1])
      BY <2>1 DEF Analyze, AnalyzeOpenAI, AnalyzeDeepSeek, AnalyzeQwen, AnalyzeClaude,
                  AnalyzeOllama, ProviderTypes, Fields
    <3>2. OllamaText(reply) \in Seq(Pieces)
      BY <1>1, <1>2, <2>3 DEF OllamaText
    <3>3. CASE \E f \in Fields : /\ TextsOf(reply, f) # <<>>
                               /\ Analyze(type, reply) = Diagnosis(TextsOf(reply, f)[1])
      <4>1. PICK f \in Fields : /\ TextsOf(reply, f) # <<>>
                              /\ Analyze(type, reply) = Diagnosis(TextsOf(reply, f)[1])
        BY <3>3
      <4>2. TextsOf(reply, f)[1] \in Seq(Pieces)
        BY <1>2, <2>3, <4>1
      <4> QED BY <1>3, <2>1, <4>1, <4>2
    <3> QED BY <1>1, <1>3, <2>1, <3>1, <3>2, <3>3
  <2> QED BY <2>2, <2>3
<1> QED BY <1>4, <1>5

\* A line of a known kind and font is one.
LEMMA LineTyped ==
  ASSUME NEW kind \in LineKinds, NEW font \in Fonts, NEW chars \in Seq(Nat)
  PROVE  Line(kind, font, chars) \in TextLines
BY EmptySeq DEF Line, TextLines

\* Some sequences that lines are made of.
LEMMA CharsTyped ==
  /\ <<>> \in Seq(Nat) /\ <<Latin>> \in Seq(Nat) /\ <<Middot>> \in Seq(Nat)
  /\ Han \in Nat /\ <<Han>> \in Seq(Nat) /\ <<Latin, Latin>> \in Seq(Nat)
  /\ <<Latin, Han>> \in Seq(Nat) /\ <<Emoji, Latin>> \in Seq(Nat)
BY DEF Latin, Han, Emoji, Middot

\* The text of a message is lines whatever the channel.
LEMMA BuiltTyped ==
  ASSUME MessageInv, NEW c \in Channels
  PROVE  Built(c) \in Seq(TextLines)
<1>1. message \in Seq(TextLines)
  BY DEF MessageInv
<1>2. /\ \A k \in LineKinds : \A f \in Fonts : \A s \in Seq(Nat) : Line(k, f, s) \in TextLines
      /\ {"text", "bullet", "blank"} \subseteq LineKinds
      /\ {"none", "warning", "comment"} \subseteq Fonts
  BY LineTyped DEF LineKinds, Fonts
<1>3. Blank \in TextLines
  BY <1>2, CharsTyped DEF Blank
<1>4. CASE call.for = "rendering"
  <2> DEFINE a == Line("text", "none", <<Latin, Han>>)
  <2>1. a \in TextLines
    BY <1>2, CharsTyped
  <2> HIDE DEF a
  <2>2. <<a, Blank>> \in Seq(TextLines)
    BY <1>3, <2>1
  <2>3. TrimSpace(message) \in Seq(TextLines)
    BY <1>1, TrimKeeps
  <2>4. <<a, Blank>> \o TrimSpace(message) \in Seq(TextLines)
    BY <2>2, <2>3, ConcatProperties
  <2> QED BY <1>4, <2>4 DEF Built, a
<1>5. CASE call.for # "rendering"
  <2> DEFINE a == Line("text", "none", <<Emoji, Latin>>)
             b == Line("text", IF c = "wechat" THEN "warning" ELSE "none", <<Han>>)
             d == Line(IF c = "wechat" THEN "text" ELSE "bullet", "none", <<Latin>>)
             e == Line("text", IF c = "wechat" THEN "comment" ELSE "none", <<Middot>>)
  <2>1. a \in TextLines /\ b \in TextLines /\ d \in TextLines /\ e \in TextLines
    BY <1>2, CharsTyped
  <2>2. TitleFor(c) = <<a, b, Blank, d, Blank>>
    BY DEF TitleFor
  <2>3. Built(c) = TitleFor(c) \o message \o <<Blank, e>>
    BY <1>5 DEF Built
  <2> HIDE DEF a, b, d, e
  <2>4. TitleFor(c) \in Seq(TextLines) /\ <<Blank, e>> \in Seq(TextLines)
    BY <1>3, <2>1, <2>2
  <2>5. TitleFor(c) \o message \in Seq(TextLines)
    BY <1>1, <2>4, ConcatProperties
  <2>6. (TitleFor(c) \o message) \o <<Blank, e>> \in Seq(TextLines)
    BY <2>4, <2>5, ConcatProperties
  <2> QED BY <2>3, <2>6
<1> QED BY <1>4, <1>5

\* There is no message at the start.
LEMMA MessageInit == Init => MessageInv
BY EmptySeq DEF Init, MessageInv, NoCall

\* Every step keeps the message one of lines.
LEMMA MessageNext == Inv /\ AnswerInv /\ MessageInv /\ [Next]_vars => MessageInv'
<1> SUFFICES ASSUME Inv, AnswerInv, MessageInv, [Next]_vars PROVE MessageInv'
  OBVIOUS
<1>0. <<>> \in Seq(TextLines) /\ <<>> \in Seq(Pieces) /\ Failure.content = <<>>
  BY EmptySeq DEF Failure
<1>1. CASE UNCHANGED <<call, message>>
  BY <1>1 DEF MessageInv
<1>2. CASE call' = NoCall /\ message' = <<>>
  BY <1>0, <1>2 DEF MessageInv, NoCall
<1>3. ASSUME NEW name, AskAnalysis(name) PROVE MessageInv'
  BY <1>0, <1>3 DEF AskAnalysis, Asked, MessageInv
<1>4. ASSUME NEW draft \in Reports, AskRendering(draft) PROVE MessageInv'
  <2>1. draft \in Seq(TextLines)
    BY DiagnosisAssumption
  <2>2. call'.draft = draft /\ call'.outcome = Failure /\ message' = message
    BY <1>4 DEF AskRendering, Asked
  <2> QED BY <1>0, <2>1, <2>2 DEF MessageInv
<1>5. ASSUME NEW reply \in Replies, Reply(reply) PROVE MessageInv'
  <2>1. Outcome(reply).content \in Seq(Pieces)
    BY <1>5, OutcomeTyped DEF Reply
  <2>2. /\ call.stage = "waiting" /\ call'.outcome = Outcome(reply)
        /\ call'.draft = call.draft /\ message' = message
    BY <1>5 DEF Reply
  <2> QED BY <2>1, <2>2 DEF MessageInv
<1>6. CASE TimeOut
  <2>1. /\ call.stage = "waiting" /\ call'.outcome = call.outcome
        /\ call'.draft = call.draft /\ message' = message
    BY <1>6 DEF TimeOut
  <2>2. call.outcome = Failure
    BY <2>1 DEF Inv, CallInv
  <2> QED BY <1>0, <2>1, <2>2 DEF MessageInv
<1>7. CASE Compose
  <2> DEFINE chars == [i \in DOMAIN call.outcome.content |-> Han]
             line  == Line("text", "none", chars)
  <2>1. /\ call.draft \in Seq(TextLines)
        /\ call.outcome.content \in Seq(Pieces)
    BY <1>7 DEF Compose, MessageInv
  <2>2. chars \in Seq(Nat)
    <3>1. /\ Len(call.outcome.content) \in Nat
          /\ DOMAIN call.outcome.content = 1..Len(call.outcome.content)
      BY <2>1, LenProperties
    <3>2. chars \in [1..Len(call.outcome.content) -> Nat]
      BY <3>1, CharsTyped
    <3> HIDE DEF chars
    <3> QED BY <3>1, <3>2
  <2>3. line \in TextLines
    <3> HIDE DEF chars
    <3> QED BY <2>2, LineTyped DEF LineKinds, Fonts
  <2>4. ReasonAndSuggestion \in Seq(TextLines)
    <3> DEFINE a == Line("text", "none", <<Han>>)
               b == Line("text", "none", <<Latin, Latin>>)
    <3>1. a \in TextLines /\ b \in TextLines
      BY LineTyped, CharsTyped DEF LineKinds, Fonts
    <3>2. ReasonAndSuggestion = <<a, b>>
      BY DEF ReasonAndSuggestion
    <3> HIDE DEF a, b
    <3> QED BY <3>1, <3>2
  <2>5. <<line>> \in Seq(TextLines)
    <3> HIDE DEF line
    <3> QED BY <2>3
  <2>6. \/ message' \in Renderings
        \/ message' = call.draft
        \/ message' = ReasonAndSuggestion
        \/ message' = <<line>>
    BY <1>7 DEF Compose
  <2>7. message' \in Seq(TextLines)
    <3> HIDE DEF line
    <3> QED BY <2>1, <2>4, <2>5, <2>6, DiagnosisAssumption
  <2>8. call'.stage \in {"over", "posting"}
    BY <1>7 DEF Compose
  <2> QED BY <2>7, <2>8 DEF MessageInv
<1> QED
  BY <1>1, <1>2, <1>3, <1>4, <1>5, <1>6, <1>7
  DEF Next, vars, Start, Restart, Finish, Post

\* Every message is of lines.
LEMMA MessageAlways == Spec => []MessageInv
BY InvInit, InvNext, AnswerInvInit, AnswerInvNext, MessageInit, MessageNext, PTL DEF Spec

\* Whatever the text, what is posted keeps to the channel's limit, ends between
\* two characters, and gives up none that would have fitted.
THEOREM SentAlwaysFits == Spec => []SentFits
<1>1. MessageInv => SentFits
  <2> SUFFICES ASSUME MessageInv, NEW c \in Channels,
                      NEW w, w = Widths(Lines(c)), NEW cut, cut = CutOf(c)
               PROVE  /\ cut.length <= Limits[c]
                      /\ cut.kept \in Boundaries(w)
                      /\ \/ cut.kept = Bytes(w)
                         \/ \A b \in Boundaries(w) : b > cut.kept => b + SuffixBytes > Limits[c]
    BY DEF SentFits
  <2>1. Lines(c) \in Seq(TextLines)
    <3>1. Lines(c) \in Seq(LinesFor(c))
      BY BuiltTyped, AdaptedKeeps DEF Lines
    <3>2. LinesFor(c) \subseteq TextLines
      BY DEF LinesFor
    <3> QED BY <3>1, <3>2, SeqMonotonic
  <2>2. w \in Seq(Nat)
    BY <2>1, WidthsTyped
  <2>3. Limits[c] \in Nat /\ SuffixBytes <= Limits[c]
    BY DiagnosisAssumption
  <2>4. cut = TruncateBytes(w, Limits[c])
    BY DEF CutOf
  <2> QED BY <2>2, <2>3, <2>4, CutFits
<1> QED BY <1>1, MessageAlways, PTL

\* What a channel gets has as many lines of text as are to survive, and for each
\* of these one that keeps what it says.
LEMMA TextKept ==
  ASSUME MessageInv, NEW c \in Channels
  PROVE  /\ Lines(c) \in Seq(LinesFor(c))
         /\ NoTable(Lines(c))
         /\ Cardinality(Texts(Lines(c))) >= Cardinality(KeptTexts(Built(c)))
         /\ \A i \in KeptTexts(Built(c)) : \E j \in Texts(Lines(c)) :
              Keeps(Built(c)[i], Lines(c)[j].chars)
<1> DEFINE L == Lines(c)
           K == KeptTexts(Built(c))
<1>1. L \in Seq(LinesFor(c)) /\ Covers(Keepers(Built(c)), K, L) /\ NoTable(L)
  BY BuiltTyped, AdaptedKeeps DEF Lines
<1>0. K \subseteq DOMAIN Built(c)
  BY DEF KeptTexts, Texts
<1> HIDE DEF L, K
<1>2. PICK g \in [K -> Texts(L)] : /\ \A x \in K : \A y \in K : g[x] = g[y] => x = y
                                   /\ \A x \in K : L[g[x]].chars \in Keepers(Built(c))[x]
  BY <1>1 DEF Covers
<1>3. g \in Injection(K, Texts(L))
  BY <1>2 DEF Injection, IsInjective
<1>4. IsFiniteSet(Texts(L))
  <2>1. Len(L) \in Nat /\ DOMAIN L = 1..Len(L)
    BY <1>1, LenProperties
  <2>2. IsFiniteSet(1..Len(L))
    BY <2>1, FS_Interval
  <2>3. Texts(L) \in SUBSET (1..Len(L))
    BY <2>1 DEF Texts
  <2> QED BY <2>2, <2>3, FS_Subset
<1>5. IsFiniteSet(K) /\ Cardinality(K) <= Cardinality(Texts(L))
  BY <1>3, <1>4, FS_Injection
<1>6. Cardinality(K) \in Nat /\ Cardinality(Texts(L)) \in Nat
  BY <1>4, <1>5, FS_CardinalityType
<1>7. ASSUME NEW i \in K PROVE \E j \in Texts(L) : Keeps(Built(c)[i], L[j].chars)
  <2>1. i \in DOMAIN Built(c) /\ L[g[i]].chars \in Keepers(Built(c))[i] /\ g[i] \in Texts(L)
    BY <1>0, <1>2
  <2>2. Keeps(Built(c)[i], L[g[i]].chars)
    BY <2>1 DEF Keepers
  <2> QED BY <2>1, <2>2
<1> QED BY <1>1, <1>5, <1>6, <1>7 DEF L, K

\* Whatever the text, flattening its tables takes away but titles and
\* separators, and a channel gets only what it shows.
THEOREM TextAlwaysSurvives == Spec => []TextSurvives
<1>1. MessageInv => TextSurvives
  <2> SUFFICES ASSUME MessageInv PROVE TextSurvives
    OBVIOUS
  <2> DEFINE built(c)      == Built(c)
             lines(c)      == Lines(c)
             titles(c)     == {i \in DOMAIN built(c) : StartsTable(built(c), i)}
             separators(c) == {i \in DOMAIN built(c) : /\ IsSeparator(built(c)[i])
                                                       /\ i - 1 \in DOMAIN built(c)
                                                       /\ IsTableLine(built(c)[i - 1])}
             texts(l)      == {i \in DOMAIN l : l[i].kind # "blank"}
             kept(c)       == texts(built(c)) \ (titles(c) \cup separators(c))
  <2>1. ASSUME NEW c \in Channels
        PROVE  /\ Cardinality(texts(lines(c))) >= Cardinality(kept(c))
               /\ \A i \in kept(c) : \E j \in texts(lines(c)) :
                    Keeps(built(c)[i], lines(c)[j].chars)
    <3>1. texts(lines(c)) = Texts(Lines(c))
      BY DEF Texts
    <3>2. kept(c) = KeptTexts(Built(c))
      BY DEF KeptTexts, Texts
    <3> HIDE DEF texts, titles, separators, kept
    <3> QED BY <3>1, <3>2, TextKept
  <2>2. ASSUME NEW c \in Channels
        PROVE  \A i \in 1..(Len(lines(c)) - 1) :
                 ~(lines(c)[i].kind = "row" /\ lines(c)[i + 1].kind = "separator")
    BY TextKept DEF NoTable
  <2>3. ASSUME NEW c \in Channels
        PROVE  \A i \in DOMAIN lines(c) :
                 IF c = "wechat"
                   THEN /\ lines(c)[i].kind # "bullet"
                        /\ lines(c)[i].font \in {"none", "info", "comment", "warning"}
                   ELSE lines(c)[i].font = "none"
    <3>1. \A i \in DOMAIN Lines(c) : Lines(c)[i] \in LinesFor(c)
      BY TextKept, LenProperties, ElementOfSeq
    <3> QED BY <3>1 DEF LinesFor, WeChatFonts
  <2> QED BY <2>1, <2>2, <2>3, Zenon DEF TextSurvives
<1> QED BY <1>1, MessageAlways, PTL

=============================================================================
