------------------------------ MODULE MCDiagnosis ------------------------------
(* Instances of Diagnosis for TLC. *)
EXTENDS Diagnosis, TLC

CONSTANTS MaxPieces, MaxLines  \* bounds: the lengths of answers and of drafts

Unset == [ok |-> FALSE, n |-> 0]
Set(n) == [ok |-> TRUE, n |-> n]

Env(keys, name, timeout, wechat, dingtalk) ==
  [keys |-> keys, default |-> name, timeout |-> timeout, ollamaTimeout |-> timeout,
   wechat |-> [enabled |-> TRUE, url |-> wechat],
   dingtalk |-> [enabled |-> TRUE, url |-> FALSE, token |-> dingtalk]]

\* Both kinds of defaults; a default that cannot be configured; a client without timeout;
\* channels with and without an address.
SomeEnvironments ==
  {Env({"deepseek", "qwen"}, "deepseek", Unset, TRUE, TRUE),
   Env({"ollama", "openai"}, "ollama", Set(0), FALSE, TRUE),
   Env({"openai", "claude"}, "claude", Unset, TRUE, TRUE),
   Env({"qwen"}, "qwen", Set(-1), TRUE, FALSE)}

SomeNames == {"", "openai", "claude"}

\* A field with a value of a type and some texts.
Field(name, type, texts) == name :> [type |-> type, texts |-> texts]

Object == <<"object">>
Prose  == <<"prose">>
Silence == <<>>

\* What APIs send that fail, in each form, and values of no API.
Errors ==
  {<<>>, Field("error", "object", <<Prose>>), Field("error", "string", <<Prose>>),
   Field("error", "string", <<>>), Field("code", "string", <<>>), Field("code", "number", <<>>),
   Field("code", "string", <<Prose>>) @@ Field("message", "string", <<Prose>>)}

\* Answers in the form of each API, lists that are empty or of two, blank texts.
AnswerForms ==
  {<<>>,
   Field("choices", "array", <<Object, Prose>>), Field("choices", "array", <<>>),
   Field("choices", "array", <<Silence>>), Field("content", "array", <<Prose, Object>>),
   Field("content", "array", <<>>), Field("content", "string", <<Prose>>),
   Field("output", "object", <<Object>>), Field("output", "object", <<>>),
   Field("message", "object", <<Object>>),
   Field("message", "object", <<Prose>>) @@ Field("response", "string", <<Object>>),
   Field("response", "string", <<Object>>), Field("response", "string", <<>>)}

\* Each error with each answer; and every answer of some pieces by itself.
SomeAnalysisBodies ==
  {e @@ a : e \in Errors, a \in AnswerForms}
  \cup {Field("choices", "array", <<c>>) : c \in BoundedSeq(Pieces, MaxPieces)}

SomeRenderingBodies ==
  {Field("choices", "array", <<>>),
   Field("choices", "array", <<Silence>>),
   Field("choices", "array", <<Prose>>),
   Field("error", "object", <<Prose>>) @@ Field("choices", "array", <<Prose>>)}

\* Rows whose cells are a title of the other's, the same, a dash, empty, or
\* beyond the other's.
FirstRow  == TableLine("row", <<<<Latin>>, <<Han>>, <<Dash>>, <<>>>>)
SecondRow == TableLine("row", <<<<Dash>>, <<Han>>, <<Emoji>>, <<Latin>>, <<Latin, Dash>>>>)

DraftLines ==
  {Line("bullet", "red", <<Han, Latin>>), Blank,
   FirstRow, SecondRow, TableLine("separator", <<<<Dash, Dash>>, <<Dash>>>>),
   Line("bare", "none", <<Dash>>)}

SomeReports    == BoundedSeq(DraftLines, MaxLines)
SomeRenderings == {<<Line("text", "gray", <<Emoji>>),
                     Line("bullet", "none", <<Latin, Han, Han, Han, Han>>)>>}

SomeLimits  == [wechat |-> 14, dingtalk |-> 17]
SomeSeconds == [p \in ProviderTypes |-> IF p = "ollama" THEN 2 ELSE 1]

=============================================================================
