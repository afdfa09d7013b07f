CONSTANTS
  m1 = m1
  m2 = m2
  think = think
  letMeThink = letMeThink
  iNeedTo = iNeedTo
  toSolveThis = toSolveThis
  Models <- MCModels
  Patterns <- MCPatterns
  TagPatterns = {think}
  Answers <- MCAnswers

SPECIFICATION Spec

INVARIANT StandardModelsAnswered
