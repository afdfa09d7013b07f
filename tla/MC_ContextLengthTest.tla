------------------------ MODULE MC_ContextLengthTest ------------------------
(* Model-checking instance of ContextLengthTest: two models on the command *)
(* line, each meeting one of a few server profiles.                       *)
EXTENDS ContextLengthTest

CONSTANTS m1, m2

MCModels == <<m1, m2>>

\* Default window 2048 or 4096 (Ollama's defaults), a model that honours
\* 8K or 128K tokens, a GPU that loads up to 16K or 64K: each value of
\* each field occurs, and a window can be capped by the model or refused by
\* the hardware first.
MCServers ==
  { [default |-> 2048, native |-> 131072, hw |-> 65536],
    [default |-> 4096, native |-> 8192,   hw |-> 65536],
    [default |-> 4096, native |-> 131072, hw |-> 16384] }

\* A server whose default window is 8192 (OLLAMA_CONTEXT_LENGTH=8192).
MCServersLargeDefault ==
  [default : {8192}, native : {131072}, hw : {65536}]
=============================================================================
