--------------------------------- MODULE Answers ---------------------------------
(***************************************************************************)
(* What the LLM providers (pkg/llm) make of the reply to a request.  An    *)
(* answer is a sequence of pieces: a JSON object, the head and the tail of *)
(* an object around a string that holds other pieces, an object that was   *)
(* cut off, prose, a fence of back ticks, or one marked as json.           *)
(***************************************************************************)
EXTENDS Sequences, Integers, SequencesExt

Pieces == {"object", "head", "tail", "cut", "prose", "fence", "jsonFence"}
Fences == {"fence", "jsonFence"}

\* encoding/json accepts the pieces as one object.
IsObject(c) ==
  \/ c = <<"object">>
  \/ /\ Len(c) >= 2 /\ Head(c) = "head" /\ Last(c) = "tail"
     /\ \A i \in 2..(Len(c) - 1) : c[i] \notin {"object", "head", "tail", "cut"}

\* The first piece of a set after position i; zero if there is none.
FirstAfter(c, S, i) == SelectInSubSeq(c, i + 1, Len(c), LAMBDA p : p \in S)

\* What stands between the first opening fence and the next fence.  The mark of
\* a fence that was looked for without it belongs to the text.
Fenced(c, openings) ==
  LET i == FirstAfter(c, openings, 0)
      j == IF i = 0 THEN 0 ELSE FirstAfter(c, Fences, i) IN
  IF j = 0 THEN <<>>
  ELSE (IF c[i] = "jsonFence" /\ "fence" \in openings THEN <<"prose">> ELSE <<>>)
       \o SubSeq(c, i + 1, j - 1)

\* Mutant: the first fence counts, whatever its mark.
FirstFence(c) == Fenced(c, Fences)

\* The fence marked as json, or the first one.
InFence(c) ==
  IF Fenced(c, {"jsonFence"}) # <<>> THEN Fenced(c, {"jsonFence"}) ELSE Fenced(c, Fences)

\* The object parseLLMJSONResponse reads; the empty sequence if it fails.
ParseLLMJSONResponse(c) ==
  IF IsObject(c) THEN c ELSE IF IsObject(InFence(c)) THEN InFence(c) ELSE <<>>

-----------------------------------------------------------------------------

(* The reply to a request: none came, or it is no JSON, or its kind is json  *)
(* and its body an object.  A body has some fields; of a field's value       *)
(* matter its JSON type and the texts in it: the one of a string that is not *)
(* blank, of a message its content, of a list one for each element; a code   *)
(* that is 200 counts as blank.                                              *)

Fields    == {"error", "code", "message", "response", "choices", "content", "output"}
JsonTypes == {"string", "number", "object", "array"}
Values    == [type: JsonTypes, texts: Seq(Seq(Pieces))]

ProviderTypes == {"openai", "deepseek", "qwen", "claude", "ollama"}

\* The fields of each API's response, and the JSON types of the structs' fields.
Response(type) ==
  CASE type \in {"openai", "deepseek"} -> [error |-> "object", choices |-> "array"]
    [] type = "claude" -> [error |-> "object", content |-> "array"]
    [] type = "qwen"   -> [code |-> "string", message |-> "string", output |-> "object"]
    [] type = "ollama" -> [error |-> "string", message |-> "object", response |-> "string"]

\* json.Unmarshal: a field of another type is an error, a field that the
\* response does not have is skipped.
Unmarshals(type, reply) ==
  /\ reply.kind = "json"
  /\ \A f \in DOMAIN reply.body \cap DOMAIN Response(type) :
       reply.body[f].type = Response(type)[f]

Has(reply, field) == field \in DOMAIN reply.body

\* The texts of a field; a missing one is as a blank string or an empty list.
TextsOf(reply, field) == IF Has(reply, field) THEN reply.body[field].texts ELSE <<>>

Failure == [ok |-> FALSE, object |-> <<>>, content |-> <<>>]

\* Without an object the whole answer is the reason, and the level Warning.
Diagnosis(c) == [ok |-> TRUE, object |-> ParseLLMJSONResponse(c), content |-> c]

AnalyzeOpenAI(reply) ==
  IF /\ Unmarshals("openai", reply)
     /\ ~Has(reply, "error")
     /\ TextsOf(reply, "choices") # <<>>
    THEN Diagnosis(TextsOf(reply, "choices")[1]) ELSE Failure

AnalyzeDeepSeek(reply) ==
  IF /\ Unmarshals("deepseek", reply)
     /\ ~Has(reply, "error")
     /\ TextsOf(reply, "choices") # <<>>
    THEN Diagnosis(TextsOf(reply, "choices")[1]) ELSE Failure

AnalyzeClaude(reply) ==
  IF /\ Unmarshals("claude", reply)
     /\ ~Has(reply, "error")
     /\ TextsOf(reply, "content") # <<>>
    THEN Diagnosis(TextsOf(reply, "content")[1]) ELSE Failure

AnalyzeQwen(reply) ==
  IF /\ Unmarshals("qwen", reply)
     /\ TextsOf(reply, "code") = <<>>
     /\ TextsOf(reply, "output") # <<>>
    THEN Diagnosis(TextsOf(reply, "output")[1]) ELSE Failure

\* The text of Ollama's response: the message's, if there is one.
OllamaText(reply) ==
  LET texts == TextsOf(reply, IF Has(reply, "message") THEN "message" ELSE "response") IN
  IF texts = <<>> THEN <<>> ELSE texts[1]

\* Mutant: the error field of Ollama's response is not looked at.
AnalyzeAnyOllama(reply) ==
  IF Unmarshals("ollama", reply) THEN Diagnosis(OllamaText(reply)) ELSE Failure

\* No list that could be empty: without a text the answer is the empty text.
AnalyzeOllama(reply) ==
  IF /\ Unmarshals("ollama", reply)
     /\ TextsOf(reply, "error") = <<>>
    THEN Diagnosis(OllamaText(reply)) ELSE Failure

Analyze(type, reply) ==
  CASE type = "openai"   -> AnalyzeOpenAI(reply)
    [] type = "deepseek" -> AnalyzeDeepSeek(reply)
    [] type = "qwen"     -> AnalyzeQwen(reply)
    [] type = "claude"   -> AnalyzeClaude(reply)
    [] type = "ollama"   -> AnalyzeOllama(reply)

\* DeepSeek's rendering of a report fails also if nothing is left of it.
RenderReport(reply) ==
  IF /\ Unmarshals("deepseek", reply)
     /\ ~Has(reply, "error")
     /\ TextsOf(reply, "choices") # <<>>
     /\ TextsOf(reply, "choices")[1] # <<>>
    THEN [ok |-> TRUE, object |-> <<>>, content |-> TextsOf(reply, "choices")[1]]
    ELSE Failure

=============================================================================
