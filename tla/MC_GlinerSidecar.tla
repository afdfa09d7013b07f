-------------------------- MODULE MC_GlinerSidecar --------------------------
(* Model-checking instance of GlinerSidecar: a name spelt in two cases,   *)
(* one other name, one label, two scores, up to three entities.           *)
EXTENDS GlinerSidecar

CONSTANTS Paris, paris, Rome, loc

MCTexts  == {Paris, paris, Rome}
MCLower  == [t \in MCTexts |-> IF t = Paris THEN paris ELSE t]
=============================================================================
