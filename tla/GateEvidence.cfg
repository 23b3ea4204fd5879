SPECIFICATION Spec
CONSTANTS
  p = p
  g = g
  w = w
  NoJudge = NoJudge
  Analyzers <- MCAnalyzers
  Gates <- MCGates
  Primary = p
  Answers <- MCAnswers
  Spellings <- MCSpellings
  Judges <- MCJudges
  Tools = {w}
  Effect <- MCEffect
  Limit = 2
  Floors <- MCFloors
  Alpha <- MCAlpha
  MaxRate <- MCMaxRate
  MaxSessions <- MCMaxSessions
  MaxRefs = 6
INVARIANTS
  PromotionRestsOnBothArms
CHECK_DEADLOCK FALSE
