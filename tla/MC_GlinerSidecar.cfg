CONSTANTS
  Paris = Paris
  paris = paris
  Rome = Rome
  loc = loc
  Texts <- MCTexts
  Lower <- MCLower
  Labels = {loc}
  Scores = {1, 2}
  MaxRaw = 3

SPECIFICATION Spec

INVARIANT KeepsHighestScore
