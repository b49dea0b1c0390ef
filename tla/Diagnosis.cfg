\* Answers of up to four pieces, drafts of up to four lines, messages of about
\* fifteen bytes.
SPECIFICATION Spec
CONSTANTS
  SuffixBytes = 4
  MaxPieces = 4
  MaxLines = 4
  Environments <- SomeEnvironments
  Names <- SomeNames
  AnalysisBodies <- SomeAnalysisBodies
  RenderingBodies <- SomeRenderingBodies
  Reports <- SomeReports
  Renderings <- SomeRenderings
  Limits <- SomeLimits
  DefaultSeconds <- SomeSeconds
INVARIANTS TypeOK NeverUnserved OutageIsNoDiagnosis AnswerUnderstood SentFits TextSurvives
PROPERTY RequestsEnd
CHECK_DEADLOCK FALSE
