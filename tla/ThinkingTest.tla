----------------------------- MODULE ThinkingTest -----------------------------
(***************************************************************************)
(* scripts/thinking_test.py: for each model, test_thinking_capability     *)
(* sends three prompts in raw mode, accumulates the thinking patterns its *)
(* answers match, whether any answer has explicit thinking tags and       *)
(* whether any answer ran past 200 tokens, then classifies the model.     *)
(* main lists thinking models, then standard models (neither thinking nor *)
(* an error), and writes the results under a hard-coded directory.        *)
(*                                                                         *)
(* An answer is abstracted to the set of patterns it matches and whether  *)
(* its eval_count exceeds 200.  A failed request (HTTP status other than  *)
(* 200, or an exception of the call) is recorded as an error test.        *)
(* One action is one iteration of the prompt loop, request included.     *)
(***************************************************************************)
EXTENDS Integers, Sequences, FiniteSets

CONSTANTS
  Models,       \* the models main tests, in order
  Patterns,     \* THINKING_PATTERNS
  TagPatterns,  \* the four tag patterns the explicit-tag regex alternates
  Answers       \* what an answer may match: [found : SUBSET Patterns,
                \*                            verbose : BOOLEAN]

ASSUME Len(Models) >= 1 /\ TagPatterns \subseteq Patterns

\* len(THINKING_PROMPTS)
NumPrompts == 3

VARIABLES
  pc,             \* where the script is
  m,              \* index of the model under test
  i,              \* index of the prompt under test
  patternsFound,  \* result["thinking_patterns_found"], as a set
  tagsFound,      \* result["thinking_tags_found"]
  verbose,        \* result["reasoning_verbose"]
  tests,          \* result["tests"]: [ok, found] per prompt
  allResults      \* all_results

vars == <<pc, m, i, patternsFound, tagsFound, verbose, tests, allResults>>

-----------------------------------------------------------------------------
\* The classification after the prompt loop.
ThinkingType(tags, found, verb) ==
  CASE tags                                -> "explicit_tags"
    [] Cardinality(found) >= 3             -> "pattern_based"
    [] verb /\ Cardinality(found) >= 2     -> "verbose_reasoning"
    [] OTHER                               -> "none"

\* The models main lists under "Standard Models".
Standard(r) == ~r.is_thinking_model /\ ~r.error

-----------------------------------------------------------------------------
Init ==
  /\ pc = "begin"
  /\ m = 1
  /\ i = 1
  /\ patternsFound = {}
  /\ tagsFound = FALSE
  /\ verbose = FALSE
  /\ tests = <<>>
  /\ allResults = <<>>

\* Head of main's loop; test_thinking_capability builds its result.
BeginModel ==
  /\ pc = "begin"
  /\ pc' = "prompt"
  /\ i' = 1
  /\ patternsFound' = {}
  /\ tagsFound' = FALSE
  /\ verbose' = FALSE
  /\ tests' = <<>>
  /\ UNCHANGED <<m, allResults>>

\* One iteration of the prompt loop: an answer adds its evidence, a
\* failed request only its error record.
Prompt ==
  /\ pc = "prompt"
  /\ \/ \E a \in Answers :
          /\ tests' = Append(tests, [ok |-> TRUE, found |-> a.found])
          /\ patternsFound' = patternsFound \cup a.found
          /\ tagsFound' = (tagsFound \/ a.found \cap TagPatterns # {})
          /\ verbose' = (verbose \/ a.verbose)
     \/ /\ tests' = Append(tests, [ok |-> FALSE, found |-> {}])
        /\ UNCHANGED <<patternsFound, tagsFound, verbose>>
  /\ IF i < NumPrompts THEN i' = i + 1 /\ UNCHANGED pc
                       ELSE pc' = "classify" /\ UNCHANGED i
  /\ UNCHANGED <<m, allResults>>

\* The classification, and main appending the result.  (main's except
\* branch is not reachable: every request is inside try/except.)
Classify ==
  /\ pc = "classify"
  /\ LET t == ThinkingType(tagsFound, patternsFound, verbose) IN
     allResults' = Append(allResults,
                          [model |-> Models[m], is_thinking_model |-> t # "none",
                           thinking_type |-> t, error |-> FALSE, tests |-> tests])
  /\ pc' = "appended"
  /\ UNCHANGED <<m, i, patternsFound, tagsFound, verbose, tests>>

NextModel ==
  /\ pc = "appended"
  /\ IF m < Len(Models)
       THEN pc' = "begin" /\ m' = m + 1
       ELSE pc' = "summary" /\ m' = m
  /\ UNCHANGED <<i, patternsFound, tagsFound, verbose, tests, allResults>>

\* The summary is printed and the results are written under a hard-coded
\* directory; when it does not exist the exception ends the script.
SaveResults ==
  /\ pc = "summary"
  /\ pc' \in {"saved", "crashed"}
  /\ UNCHANGED <<m, i, patternsFound, tagsFound, verbose, tests, allResults>>

Terminated ==
  /\ pc \in {"saved", "crashed"}
  /\ UNCHANGED vars

Next == BeginModel \/ Prompt \/ Classify \/ NextModel \/ SaveResults \/ Terminated

Spec == Init /\ [][Next]_vars

-----------------------------------------------------------------------------
(* Properties.                                                             *)

\* A model main lists as a standard model answered at least one prompt:
\* the summary keeps models with an error out of that list (line 200), so
\* a model nothing was learnt about should not be in it.
StandardModelsAnswered ==
  \A j \in 1..Len(allResults) :
    Standard(allResults[j]) =>
      \E t \in 1..Len(allResults[j].tests) : allResults[j].tests[t].ok

=============================================================================
