-------------------------------- MODULE Diagnosis --------------------------------
(***************************************************************************)
(* From the environment's variables to a message in a chat: what LoadConfig *)
(* and main make of the environment, how a request finds its LLM provider  *)
(* (pkg/llm), what the reply becomes, and how the text is adapted for each *)
(* channel and posted (pkg/notifier).  One request is followed at a time,  *)
(* as providers and channels keep no state between two.  Who asks, and     *)
(* which messages reach a channel, is the matter of the modules            *)
(* AIIncident, InspectionReport and NotifierManager.                       *)
(***************************************************************************)
EXTENDS Answers, Rendering, FiniteSets

CONSTANTS
  Environments,    \* the values the environment may have
  Names,           \* provider names that incidents give
  AnalysisBodies,  \* the JSON that an API may reply to an analysis
  RenderingBodies, \* and to a rendering
  Reports,         \* drafts of reports, as lines
  Renderings,      \* reports rendered by the LLM
  Limits,          \* by channel, the bytes of a message: 3800 and 18000
  DefaultSeconds   \* by provider, the timeout of a client: 60 or 120

\* The configuration reads no key for Claude, which NewProvider knows and an
\* incident may name.
Configurable == ProviderTypes \ {"claude"}
Channels == {"wechat", "dingtalk"}

ASSUME DiagnosisAssumption ==
  /\ Limits \in [Channels -> Nat]
  /\ DefaultSeconds \in [ProviderTypes -> Nat \ {0}]
  /\ \A body \in AnalysisBodies \cup RenderingBodies :
       DOMAIN body \subseteq Fields /\ \A f \in DOMAIN body : body[f] \in Values
  /\ \A c \in Channels : SuffixBytes <= Limits[c]
  /\ Reports \cup Renderings \subseteq Seq(TextLines)

VARIABLES
  env,        \* the environment
  phase,      \* the process: down, running, or failed to start
  providers,  \* Manager.providers: by name, its type and its client's timeout
  default,    \* Manager.defaultProvider
  channels,   \* the notifier manager's channels
  call,       \* the request: what it is for, its name and provider, the answer
  message,    \* the lines of the message to post
  posts       \* by channel, what was posted

vars == <<env, phase, providers, default, channels, call, message, posts>>

NoCall  == [stage |-> "idle"]
NoPosts == [c \in Channels |-> "none"]

-----------------------------------------------------------------------------
(* The configuration.                                                      *)

\* A variable that is unset, or is no number, has the default value.
GetEnvInt(v, fallback) == IF v.ok THEN v.n ELSE fallback

\* Mutant: zero is taken as it is, and a client without a timeout.
SecondsAsGiven(type, n) == n

\* The clients' timeouts: zero is the default, less than zero is none at all.
Seconds(type, n) == IF n = 0 THEN DefaultSeconds[type] ELSE n

\* A provider for each key, and one for the URL of Ollama.
LoadProviders(e) ==
  [name \in e.keys \cap Configurable |->
     [type |-> name,
      seconds |-> Seconds(name, GetEnvInt(IF name = "ollama" THEN e.ollamaTimeout ELSE e.timeout,
                                          DefaultSeconds[name]))]]

LoadChannels(e) ==
  (IF e.wechat.enabled /\ e.wechat.url THEN {"wechat"} ELSE {})
  \cup (IF e.dingtalk.enabled THEN {"dingtalk"} ELSE {})

\* DingTalk's address may be made of a token; without both it has none.
HasAddress(c) == c = "dingtalk" => env.dingtalk.url \/ env.dingtalk.token

Init ==
  /\ env \in Environments
  /\ phase     = "down"
  /\ providers = <<>>
  /\ default   = "none"
  /\ channels  = {}
  /\ call      = NoCall
  /\ message   = <<>>
  /\ posts     = NoPosts

\* Mutant: the default provider is not looked for.
StartWithAny ==
  /\ phase = "down"
  /\ phase'     = "running"
  /\ providers' = LoadProviders(env)
  /\ default'   = env.default
  /\ channels'  = LoadChannels(env)
  /\ UNCHANGED <<env, call, message, posts>>

\* main: without its default provider the process does not start.
Start ==
  /\ phase = "down"
  /\ IF env.default \in DOMAIN LoadProviders(env)
       THEN /\ phase'     = "running"
            /\ providers' = LoadProviders(env)
            /\ default'   = env.default
            /\ channels'  = LoadChannels(env)
       ELSE phase' = "failed" /\ UNCHANGED <<providers, default, channels>>
  /\ UNCHANGED <<env, call, message, posts>>

\* The process ends, or is started again with other variables; requests are lost.
Restart ==
  /\ phase' = "down"
  /\ env' \in Environments
  /\ providers' = <<>>
  /\ default'   = "none"
  /\ channels'  = {}
  /\ call'      = NoCall
  /\ message'   = <<>>
  /\ posts'     = NoPosts

-----------------------------------------------------------------------------
(* The request.                                                            *)

\* GetProvider: the empty name is the default.
NameOf(name) == IF name = "" THEN default ELSE name

Asked(purpose, name, draft, stage, outcome) ==
  call' = [stage |-> stage, for |-> purpose, name |-> name, draft |-> draft,
           reply |-> [kind |-> "none"], outcome |-> outcome]

\* Manager.Analyze, for an incident or an abnormal Pod.
AskAnalysis(name) ==
  /\ phase = "running" /\ call = NoCall
  /\ Asked("analysis", NameOf(name), <<>>,
           IF NameOf(name) \in DOMAIN providers THEN "waiting" ELSE "answered", Failure)
  /\ UNCHANGED <<env, phase, providers, default, channels, message, posts>>

\* renderReport: only DeepSeek renders.
AskRendering(draft) ==
  /\ phase = "running" /\ call = NoCall
  /\ Asked("rendering", default, draft,
           IF /\ default \in DOMAIN providers
              /\ providers[default].type = "deepseek"
             THEN "waiting" ELSE "answered", Failure)
  /\ UNCHANGED <<env, phase, providers, default, channels, message, posts>>

Outcome(reply) ==
  IF call.for = "rendering" THEN RenderReport(reply)
  ELSE Analyze(providers[call.name].type, reply)

\* The API replies, or the transport fails.
Reply(reply) ==
  /\ call.stage = "waiting"
  /\ call' = [call EXCEPT !.stage = "answered", !.reply = reply, !.outcome = Outcome(reply)]
  /\ UNCHANGED <<env, phase, providers, default, channels, message, posts>>

\* The client's timeout passes.
TimeOut ==
  /\ call.stage = "waiting"
  /\ providers[call.name].seconds > 0
  /\ call' = [call EXCEPT !.stage = "answered", !.reply = [kind |-> "down"]]
  /\ UNCHANGED <<env, phase, providers, default, channels, message, posts>>

-----------------------------------------------------------------------------
(* The message.                                                            *)

Line(kind, font, chars) == [kind |-> kind, font |-> font, chars |-> chars, cells |-> <<>>]
Blank == Line("blank", "none", <<>>)

\* Some characters, of one, three and four bytes.
Latin == 97
Han   == 20013
Emoji == 128308

\* The part of a message for an incident that is the same for all: its title,
\* the level, which has a font only for WeChat, and the resource.
TitleFor(c) ==
  <<Line("text", "none", <<Emoji, Latin>>),
    Line("text", IF c = "wechat" THEN "warning" ELSE "none", <<Han>>),
    Blank, Line(IF c = "wechat" THEN "text" ELSE "bullet", "none", <<Latin>>), Blank>>

\* buildMarkdownContent: a report is sent as it is, after the cluster's name; an
\* analysis is quoted, so that no line of it is a table's.
Built(c) ==
  IF call.for = "rendering"
    THEN <<Line("text", "none", <<Latin, Han>>), Blank>> \o TrimSpace(message)
    ELSE TitleFor(c) \o message \o <<Blank, Line("text", IF c = "wechat" THEN "comment" ELSE "none", <<Middot>>)>>

\* The analysis of an object, and the whole text of an answer without one.
ReasonAndSuggestion == <<Line("text", "none", <<Han>>), Line("text", "none", <<Latin, Latin>>)>>

\* What the caller makes of the outcome: without an analysis there is no
\* message; a report that was not rendered is sent as the draft.
Compose ==
  /\ call.stage = "answered"
  /\ call' = [stage |-> IF call.for = "analysis" /\ ~call.outcome.ok THEN "over" ELSE "posting",
              for |-> call.for]
  /\ message' \in IF call.for = "rendering"
                    THEN IF call.outcome.ok THEN Renderings ELSE {call.draft}
                  ELSE IF call.outcome.object # <<>> THEN {ReasonAndSuggestion}
                  ELSE {<<Line("text", "none", [i \in DOMAIN call.outcome.content |-> Han])>>}
  /\ UNCHANGED <<env, phase, providers, default, channels, posts>>

\* The lines a channel gets, and where they are cut.
Lines(c) == Adapted(c, Built(c))
CutOf(c) == TruncateBytes(Widths(Lines(c)), Limits[c])

\* sendMessage: an error unless the service answers with code zero.
Post(c) ==
  /\ call.stage = "posting"
  /\ c \in channels /\ posts[c] = "none"
  /\ \E result \in {"failed"} \cup (IF HasAddress(c) THEN {"sent"} ELSE {}) :
       posts' = [posts EXCEPT ![c] = result]
  /\ UNCHANGED <<env, phase, providers, default, channels, call, message>>

Finish ==
  /\ \/ call.stage = "over"
     \/ call.stage = "posting" /\ \A c \in channels : posts[c] # "none"
  /\ call' = NoCall /\ message' = <<>> /\ posts' = NoPosts
  /\ UNCHANGED <<env, phase, providers, default, channels>>

-----------------------------------------------------------------------------

\* The transport fails, the body is no JSON object, or it is one.
Replies ==
  [kind: {"down", "garbled"}]
  \cup [kind: {"json"},
        body: IF call.for = "rendering" THEN RenderingBodies ELSE AnalysisBodies]

Next ==
  \/ Start \/ Restart \/ TimeOut \/ Compose \/ Finish
  \/ \E name \in Names : AskAnalysis(name)
  \/ \E draft \in Reports : AskRendering(draft)
  \/ call # NoCall /\ \E reply \in Replies : Reply(reply)
  \/ \E c \in Channels : Post(c)

\* The clients' timers fire, and the process goes on with what it has.
Fairness ==
  WF_vars(Start) /\ WF_vars(TimeOut) /\ WF_vars(Compose) /\ WF_vars(Finish)
  /\ \A c \in Channels : WF_vars(Post(c))

Spec == Init /\ [][Next]_vars /\ Fairness

-----------------------------------------------------------------------------
(* Properties.                                                             *)

Answered == call.stage = "answered"

\* The variables keep their types.
TypeOK ==
  /\ env \in Environments
  /\ phase \in {"down", "running", "failed"}
  /\ \A n \in DOMAIN providers : /\ providers[n].type \in ProviderTypes
                                 /\ providers[n].seconds # 0
  /\ channels \subseteq Channels
  /\ call.stage \in {"idle", "waiting", "answered", "posting", "over"}
  /\ posts \in [Channels -> {"none", "sent", "failed"}]

\* A request that reached no API named a provider that has no key, or was for a
\* report whose default provider does not render: a process that runs always
\* serves requests that leave the choice to it, whatever it was started with.
NeverUnserved ==
  Answered /\ call.reply.kind = "none" =>
    IF call.for = "analysis"
      THEN call.name \notin env.keys \cap Configurable /\ call.name # env.default
    ELSE env.default # "deepseek"

\* The fields in which an API puts the model's answers.
AnswerFields(type) ==
  CASE type \in {"openai", "deepseek"} -> {"choices"}
    [] type = "claude" -> {"content"}
    [] type = "qwen"   -> {"output"}
    [] type = "ollama" -> {"message", "response"}

\* The first answer of each such field of a body.
FirstAnswers(type, body) ==
  {body[f].texts[1] : f \in {g \in AnswerFields(type) \cap DOMAIN body : body[g].texts # <<>>}}

\* Does a body report an error as an API does?  Qwen sends a code and a message.
ReportsError(type, body) ==
  CASE type \in {"openai", "deepseek", "claude"} ->
         "error" \in DOMAIN body /\ body["error"].type = "object"
    [] type = "ollama" ->
         "error" \in DOMAIN body /\ body["error"].type = "string" /\ body["error"].texts # <<>>
    [] type = "qwen" ->
         /\ {"code", "message"} \subseteq DOMAIN body
         /\ body["code"].type = "string" /\ body["code"].texts # <<>>
         /\ body["message"].type = "string"

\* An outage is no diagnosis: an analysis, which resolves the incident, is the
\* first answer in a body of the provider's API that reports no error, though
\* the provider's address be that of another API or of a proxy.  Ollama's
\* response has no list that could be missing: a body without an answer is an
\* empty analysis, but not if it reports an error as any of the APIs does.
OutageIsNoDiagnosis ==
  Answered /\ call.for = "analysis" /\ call.outcome.ok =>
    LET type == providers[call.name].type
        body == call.reply.body IN
    /\ call.reply.kind = "json"
    /\ ~ReportsError(type, body)
    /\ \/ call.outcome.content \in FirstAnswers(type, body)
       \/ /\ type = "ollama" /\ call.outcome.content = <<>>
          /\ \A other \in ProviderTypes : ~ReportsError(other, body)

\* An answer that is an object alone, or holds one alone in the first fence marked
\* as json, is understood, whatever other fences and prose are around the fence.
AnswerUnderstood ==
  Answered /\ call.for = "analysis" /\ call.reply.kind = "json" =>
    LET type == providers[call.name].type
        body == call.reply.body IN
    \A f \in AnswerFields(type) :
      /\ DOMAIN body = {f} /\ body[f].type = Response(type)[f] /\ body[f].texts # <<>>
      /\ LET c == body[f].texts[1]
             i == FirstAfter(c, {"jsonFence"}, 0) IN
         \/ c = <<"object">>
         \/ i \in 1..(Len(c) - 2) /\ c[i + 1] = "object" /\ c[i + 2] \in Fences
      => call.outcome.object = <<"object">>

\* What is posted keeps to the channel's limit, ends between two characters,
\* and gives up no character that would have fitted.
SentFits ==
  \A c \in Channels : posts[c] # "none" =>
    LET w   == Widths(Lines(c))
        cut == CutOf(c) IN
    /\ cut.length <= Limits[c]
    /\ cut.kept \in Boundaries(w)
    /\ \/ cut.kept = Bytes(w)
       \/ \A b \in Boundaries(w) : b > cut.kept => b + SuffixBytes > Limits[c]

\* Are the characters of v among those of s, one after the other?
Holds(v, s) == \E p \in 0..(Len(s) - Len(v)) : \A n \in DOMAIN v : s[p + n] = v[n]

\* The cells of a line that say something: its label, and what is no dash.
TextCells(l) ==
  {l.cells[n] : n \in {m \in DOMAIN l.cells : m = 1 \/ l.cells[m] \notin {<<>>, <<Dash>>}}}

\* Do some characters say what a line says?
Keeps(l, chars) ==
  \/ chars = l.chars
  \/ IsTableLine(l) /\ \A v \in TextCells(l) : Holds(v, chars)

\* Flattening tables loses no line but their titles and separators, each other
\* line is still there or its cells are in one line, unless they are empty or a
\* dash, and no table that begins with bars is left; WeChat gets no bullet and
\* only its three colors, DingTalk no font.
TextSurvives ==
  \A c \in Channels : posts[c] # "none" =>
    LET built == Built(c)
        lines == Lines(c)
        titles     == {i \in DOMAIN built : StartsTable(built, i)}
        separators == {i \in DOMAIN built : IsSeparator(built[i]) /\ i - 1 \in DOMAIN built
                                            /\ IsTableLine(built[i - 1])}
        texts(l)   == {i \in DOMAIN l : l[i].kind # "blank"}
        kept       == texts(built) \ (titles \cup separators) IN
    /\ Cardinality(texts(lines)) >= Cardinality(kept)
    /\ \A i \in kept : \E j \in texts(lines) : Keeps(built[i], lines[j].chars)
    /\ \A i \in 1..(Len(lines) - 1) : ~(lines[i].kind = "row" /\ lines[i + 1].kind = "separator")
    /\ \A i \in DOMAIN lines :
         IF c = "wechat"
           THEN lines[i].kind # "bullet" /\ lines[i].font \in {"none", "info", "comment", "warning"}
           ELSE lines[i].font = "none"

\* No variable asks for a client without a timeout.
Bounded(e) == GetEnvInt(e.timeout, 0) >= 0 /\ GetEnvInt(e.ollamaTimeout, 0) >= 0

\* Every request comes to an end, whether the API ever replies or not.
RequestsEnd == (call # NoCall /\ Bounded(env)) ~> (call = NoCall)

=============================================================================
