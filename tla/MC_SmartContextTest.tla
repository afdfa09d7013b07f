------------------------- MODULE MC_SmartContextTest -------------------------
(* Model-checking instance of SmartContextTest: two models on the command  *)
(* line, each meeting one of a few server profiles.                       *)
EXTENDS SmartContextTest

CONSTANTS m1, m2

MCModels == <<m1, m2>>

\* A model that honours 32K, 40K (Qwen3) or 128K tokens, a GPU that loads
\* 64K (the 32K model's 128K probe fails) or 256K (the 40K model's 128K
\* probe is truncated above the previous reading), a model that ends its answer after 4200 or 4600 tokens or
\* writes past any budget.
MCServers ==
  { [default |-> 2048, native |-> 32768,  hw |-> 65536,  out |-> 20000],
    [default |-> 2048, native |-> 40960,  hw |-> 262144, out |-> 4200],
    [default |-> 2048, native |-> 131072, hw |-> 262144, out |-> 4600] }
=============================================================================
