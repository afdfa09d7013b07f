-------------------------- MODULE MC_ThinkingTest --------------------------
(* Model-checking instance of ThinkingTest: two models, four patterns (one *)
(* of them a tag), answers matching none, one, two or three patterns.     *)
EXTENDS ThinkingTest

CONSTANTS m1, m2, think, letMeThink, iNeedTo, toSolveThis

MCModels   == <<m1, m2>>
MCPatterns == {think, letMeThink, iNeedTo, toSolveThis}
MCAnswers  ==
  [found : {{}, {letMeThink}, {letMeThink, iNeedTo},
            {iNeedTo, toSolveThis, letMeThink}, {think}},
   verbose : BOOLEAN]
=============================================================================
