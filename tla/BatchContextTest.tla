--------------------------- MODULE BatchContextTest ---------------------------
(***************************************************************************)
(* scripts/batch_context_test.py: for each model (the command line, or    *)
(* six defaults), find_max_context probes num_ctx 4K..512K with a prompt  *)
(* of num_ctx // 2 "test " words and num_predict 10, walking the list      *)
(* until the first failed call; it reports the last window that worked    *)
(* (max_num_ctx), the prompt_eval_count of that probe (max_tokens) and    *)
(* recommended_ctx = int(max_num_ctx * 0.85).  main then prints a summary *)
(* and writes the results under a hard-coded directory.                    *)
(* One action is one iteration of the probe loop, probe included.        *)
(***************************************************************************)
EXTENDS Integers, Sequences, OllamaServer

CONSTANTS
  Models,  \* the model names main tests, in order
  Servers  \* server profiles (OllamaServer)

ASSUME Len(Models) >= 1

VARIABLES
  srv,           \* srv[i]: the server as model Models[i] meets it
  pc,            \* where the script is
  m,             \* index of the model under test
  k,             \* index into context_sizes
  maxSuccessful, \* max_successful
  maxTokens,     \* max_tokens
  tests,         \* result["tests"]
  allResults     \* all_results

vars == <<srv, pc, m, k, maxSuccessful, maxTokens, tests, allResults>>

-----------------------------------------------------------------------------
ContextSizes ==
  <<4096, 8192, 16384, 32768, 65536, 131072, 196608, 262144, 524288>>

\* test_context: "Summarize: " followed by num_ctx // 2 words "test ".
PromptTokens(c) == SummarizeTokens + TestWordTokens * (c \div 2)

\* The record find_max_context appends for one call: HTTP 200 gives
\* prompt_eval_count; any other status or an exception gives an error.
TestContext(c, s) ==
  { IF ok THEN [num_ctx |-> c, success |-> TRUE,
                tokens |-> Evaluated(PromptTokens(c), c, s)]
          ELSE [num_ctx |-> c, success |-> FALSE, tokens |-> 0]
    : ok \in CallSucceeds(c, s) }

\* int(max_successful * 0.85), exact over the sizes of the list.
Recommended(ms) == (85 * ms) \div 100

-----------------------------------------------------------------------------
Init ==
  /\ srv \in [1..Len(Models) -> Servers]
  /\ pc = "begin"
  /\ m = 1
  /\ k = 1
  /\ maxSuccessful = 0
  /\ maxTokens = 0
  /\ tests = <<>>
  /\ allResults = <<>>

\* Head of main's loop and the start of find_max_context.
BeginModel ==
  /\ pc = "begin"
  /\ pc' = "probe"
  /\ k' = 1
  /\ maxSuccessful' = 0
  /\ maxTokens' = 0
  /\ tests' = <<>>
  /\ UNCHANGED <<srv, m, allResults>>

\* The end of find_max_context, and main appending its result.  (The
\* except branch of main is not reachable: test_context catches every
\* exception of the call.)
FinishModel(ms, mt, ts) ==
  /\ allResults' = Append(allResults,
                          [model |-> Models[m], tests |-> ts,
                           max_num_ctx |-> ms, max_tokens |-> mt,
                           recommended_ctx |-> Recommended(ms)])
  /\ pc' = "appended"
  /\ UNCHANGED <<m, k>>

\* One iteration of the loop of find_max_context.
BatchProbe ==
  /\ pc = "probe"
  /\ \E r \in TestContext(ContextSizes[k], srv[m]) :
       /\ tests' = Append(tests, r)
       /\ \/ /\ r.success
             /\ maxSuccessful' = r.num_ctx
             /\ maxTokens' = r.tokens
             /\ IF k < Len(ContextSizes)
                  THEN k' = k + 1 /\ UNCHANGED <<pc, m, allResults>>
                  ELSE FinishModel(r.num_ctx, r.tokens, tests')
          \/ /\ ~r.success
             /\ FinishModel(maxSuccessful, maxTokens, tests')
             /\ UNCHANGED <<maxSuccessful, maxTokens>>
  /\ UNCHANGED srv

\* main's loop moves on to the next model, or leaves the loop.
NextModel ==
  /\ pc = "appended"
  /\ IF m < Len(Models)
       THEN pc' = "begin" /\ m' = m + 1
       ELSE pc' = "summary" /\ m' = m
  /\ UNCHANGED <<srv, k, maxSuccessful, maxTokens, tests, allResults>>

\* The summary is printed and the results are written under a hard-coded
\* directory; when it does not exist the exception ends the script.
SaveResults ==
  /\ pc = "summary"
  /\ pc' \in {"saved", "crashed"}
  /\ UNCHANGED <<srv, m, k, maxSuccessful, maxTokens, tests, allResults>>

Terminated ==
  /\ pc \in {"saved", "crashed"}
  /\ UNCHANGED vars

Next == BeginModel \/ BatchProbe \/ NextModel \/ SaveResults \/ Terminated

Spec == Init /\ [][Next]_vars

-----------------------------------------------------------------------------
(* Properties.                                                             *)

\* The recommended context is one the model honours: recommended_ctx is at
\* most the tokens the model evaluates (spec 3: recommended_input <=
\* native_context).
RecommendedWithinNative ==
  \A j \in 1..Len(allResults) :
    allResults[j].recommended_ctx <= srv[j].native

=============================================================================
