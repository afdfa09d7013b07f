------------------------- MODULE MC_BatchContextTest -------------------------
(* Model-checking instance of BatchContextTest: two models, each meeting  *)
(* one of a few server profiles.                                          *)
EXTENDS BatchContextTest

CONSTANTS m1, m2

MCModels == <<m1, m2>>

\* A model that honours 32K tokens on a GPU that loads 64K (the 128K probe
\* fails), one that honours 128K on a GPU that loads 256K (the 512K probe
\* fails), and one that honours 1M on a GPU that loads every size of the
\* list (the search runs off its end).
MCServers ==
  { [default |-> 2048, native |-> 32768,   hw |-> 65536],
    [default |-> 2048, native |-> 131072,  hw |-> 262144],
    [default |-> 2048, native |-> 1048576, hw |-> 1048576] }
=============================================================================
