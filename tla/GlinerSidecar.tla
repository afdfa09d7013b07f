---------------------------- MODULE GlinerSidecar ----------------------------
(***************************************************************************)
(* build/gliner/app.py: a FastAPI service.  Its lifespan loads the GLiNER *)
(* model once before serving; POST /extract runs predict_entities on the  *)
(* text and deduplicates the entities it returns by (lowercased text,     *)
(* label) before answering; shutdown ends the lifespan.                    *)
(*                                                                         *)
(* The GLiNER model is the environment: for a request it returns any list *)
(* of up to a few entities [text, label, score] from a small set.  The    *)
(* handler has no await between its reads and writes, so requests do not *)
(* interleave on the event loop and one action is one whole request.     *)
(* Scores are small naturals standing for the rounded floats; only their  *)
(* order matters.  start/end offsets are copied through and left out.    *)
(***************************************************************************)
EXTENDS Integers, Sequences

CONSTANTS
  Texts,     \* entity text spans the model may return
  Lower,     \* Lower[t]: t.lower()
  Labels,    \* the entity_types of requests
  Scores,    \* confidence scores, ordered as naturals
  MaxRaw     \* most entities one prediction returns

ASSUME Lower \in [Texts -> Texts] /\ Scores \subseteq Nat /\ MaxRaw \in Nat

RawEntity == [text : Texts, label : Labels, score : Scores]

\* The lists predict_entities may return.
RawLists == UNION {[1..n -> RawEntity] : n \in 0..MaxRaw}

VARIABLES
  phase,     \* "starting", "serving", "stopped" or "failed" (load raised)
  model,     \* the global model: "none" until the lifespan loaded it
  raw,       \* raw_entities of the last request
  response   \* the entities of the last response

vars == <<phase, model, raw, response>>

-----------------------------------------------------------------------------
\* key = (ent["text"].lower(), ent["label"])
Key(e) == <<Lower[e.text], e.label>>

\* The Entity built from a raw entity (score rounded to 4 places).
Entity(e) == [text |-> e.text, label |-> e.label, score |-> e.score]

\* The dedup loop: an entity is kept when its key was not seen before.
RECURSIVE DedupFrom(_, _)
DedupFrom(s, seen) ==
  IF s = <<>> THEN <<>>
  ELSE IF Key(Head(s)) \in seen THEN DedupFrom(Tail(s), seen)
  ELSE <<Entity(Head(s))>> \o DedupFrom(Tail(s), seen \cup {Key(Head(s))})

Dedup(s) == DedupFrom(s, {})

-----------------------------------------------------------------------------
Init ==
  /\ phase = "starting"
  /\ model = "none"
  /\ raw = <<>>
  /\ response = <<>>

\* lifespan: GLiNER.from_pretrained either loads the model or raises, and
\* then the application never starts serving.
Startup ==
  /\ phase = "starting"
  /\ \/ phase' = "serving" /\ model' = "loaded"
     \/ phase' = "failed" /\ UNCHANGED model
  /\ UNCHANGED <<raw, response>>

\* extract_entities: predict, deduplicate, answer.
Extract ==
  /\ phase = "serving"
  /\ \E r \in RawLists :
       /\ raw' = r
       /\ response' = Dedup(r)
  /\ UNCHANGED <<phase, model>>

\* The code after the lifespan's yield.
Shutdown ==
  /\ phase = "serving"
  /\ phase' = "stopped"
  /\ UNCHANGED <<model, raw, response>>

Terminated ==
  /\ phase \in {"stopped", "failed"}
  /\ UNCHANGED vars

Next == Startup \/ Extract \/ Shutdown \/ Terminated

Spec == Init /\ [][Next]_vars

-----------------------------------------------------------------------------
(* Properties.                                                             *)

\* The comment of the dedup loop: "keep highest-scoring span for
\* overlapping entities": no entity of the prediction with the same
\* lowercased text and label scored higher than the one answered.
KeepsHighestScore ==
  \A i \in DOMAIN response, j \in DOMAIN raw :
    /\ Lower[response[i].text] = Lower[raw[j].text]
    /\ response[i].label = raw[j].label
    => response[i].score >= raw[j].score

=============================================================================
