---------------------------- MODULE OllamaServer ----------------------------
(***************************************************************************)
(* The serving endpoint the probing scripts call: POST /api/generate of a  *)
(* local Ollama instance.  It is not code of this repository; it is the    *)
(* environment the scripts run against, and every probe action of the     *)
(* script modules asks this module what the endpoint may answer.          *)
(*                                                                         *)
(* A server is described, per model, by a profile record                   *)
(*   [default |-> window used when the request carries no num_ctx,        *)
(*    native  |-> most prompt tokens the loaded model will evaluate,      *)
(*    hw      |-> largest num_ctx the hardware can load]                  *)
(* and answers a prompt of n tokens with prompt_eval_count equal to the   *)
(* part of the prompt that fits the window it runs under.  A num_ctx above *)
(* hw fails (HTTP 500, out of memory).  Any call may also fail by a       *)
(* transport error or a timeout when TransientFaults is TRUE.              *)
(*                                                                         *)
(* The tokenizer is described by how many tokens the server counts for the *)
(* filler units the scripts repeat; the scripts themselves only estimate  *)
(* tokens as characters / 4, and the distance between the two is what     *)
(* their truncation thresholds must absorb.                                *)
(***************************************************************************)
EXTENDS Integers, FiniteSetsExt

CONSTANTS
  None,               \* Python None: the num_ctx option is left out
  TransientFaults,    \* TRUE: any call may fail (transport error, timeout)
  FoxSentenceTokens,  \* tokens of "The quick brown fox jumps over the lazy dog. "
  FoxFrameTokens,     \* tokens of the "Please summarize ..." header and "Summary:" tail
  TestWordTokens,     \* tokens of "test "
  SummarizeTokens     \* tokens of the "Summarize: " prefix and end of prompt

ASSUME TransientFaults \in BOOLEAN
ASSUME {FoxSentenceTokens, FoxFrameTokens, TestWordTokens, SummarizeTokens}
         \subseteq Nat

\* The window a request runs under.  num_ctx = 0 (which the comprehensive
\* phase of context_length_test.py can send) is not documented; the server
\* is taken to fall back to its default window.
Window(numCtx, s) == IF numCtx \in {None, 0} THEN s.default ELSE numCtx

\* The possible values of "the call returned HTTP 200".
CallSucceeds(numCtx, s) ==
  IF numCtx \notin {None, 0} /\ numCtx > s.hw THEN {FALSE}
  ELSE IF TransientFaults \/ numCtx = 0 THEN BOOLEAN
  ELSE {TRUE}

\* prompt_eval_count for a prompt of the given number of tokens.
Evaluated(tokens, numCtx, s) == Min({tokens, Window(numCtx, s), s.native})

=============================================================================
