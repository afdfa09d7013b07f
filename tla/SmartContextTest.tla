--------------------------- MODULE SmartContextTest ---------------------------
(***************************************************************************)
(* scripts/smart_context_test.py: for each model on the command line,     *)
(* test_model_complete runs                                                *)
(*   find_native_limit  num_ctx 4K..192K with a prompt of "test " words,   *)
(*                      stopping at the first failure (hardware limit),    *)
(*                      truncation (native limit) or plateau (< 10% more   *)
(*                      tokens than the previous probe);                   *)
(*   test_output_limit  num_predict 1K..16K under num_ctx = the native     *)
(*                      limit found, stopping when the output falls short  *)
(*                      of the budget and does not grow by 10%.            *)
(* One action is one iteration of one of these loops, probe included.     *)
(***************************************************************************)
EXTENDS Integers, Sequences, SequencesExt, OllamaServer

CONSTANTS
  Models,     \* the model names given on the command line, in order
  Servers,    \* server profiles, with out |-> tokens the model writes
              \* before it stops by itself
  NotReached  \* the string "not reached"

ASSUME Len(Models) >= 1

VARIABLES
  srv,           \* srv[i]: the server as model Models[i] meets it
  pc,            \* where the script is
  m,             \* index of the model under test
  k,             \* index into the list the current loop walks
  prevTokens,    \* prev_tokens
  nativeLimit,   \* native_limit
  hardwareLimit, \* hardware_limit
  tests,         \* result["tests"] of find_native_limit
  outCtx,        \* the num_ctx test_output_limit runs under
  maxOutput,     \* max_output
  outTests,      \* result["tests"] of test_output_limit
  allResults     \* all_results

vars == <<srv, pc, m, k, prevTokens, nativeLimit, hardwareLimit, tests,
          outCtx, maxOutput, outTests, allResults>>

-----------------------------------------------------------------------------
\* Mutant: an intermediate size added to the list.
TestSizesFine == <<4096, 4300, 8192, 16384, 32768, 65536, 131072, 196608>>

\* Mutant: two entries of the list in the wrong order.
TestSizesUnsorted == <<4096, 8192, 16384, 65536, 32768, 131072, 196608>>

TestSizes  == <<4096, 8192, 16384, 32768, 65536, 131072, 196608>>
NumPredict == <<1024, 2048, 4096, 8192, 16384>>

\* test_context: prompt = "test " * (num_ctx // 2), estimated at len // 4
\* tokens and sent after "Summarize: "; truncated when more than 20% of
\* the estimate is lost.
InputApprox(c) == (5 * (c \div 2)) \div 4
PromptTokens(c) == SummarizeTokens + TestWordTokens * (c \div 2)
Truncated(tokens, approx) == 10 * tokens < 8 * approx

TestContext(c, s) ==
  LET tokens == Evaluated(PromptTokens(c), c, s) IN
  { IF ok
    THEN [numCtx |-> c, success |-> TRUE, tokens |-> tokens,
          truncated |-> Truncated(tokens, InputApprox(c))]
    ELSE [numCtx |-> c, success |-> FALSE, tokens |-> 0, truncated |-> FALSE]
    : ok \in CallSucceeds(c, s) }

\* tokens <= prev_tokens * 1.1 and prev_tokens > 0
Plateau(tokens, prev) == 10 * tokens <= 11 * prev /\ prev > 0

\* The stop rule of test_output_limit, checked before max_output is updated.
OutputLimitFound(out, np, mo) == out < np /\ 10 * out <= 11 * mo

-----------------------------------------------------------------------------
Init ==
  /\ srv \in [1..Len(Models) -> Servers]
  /\ pc = "begin"
  /\ m = 1
  /\ k = 1
  /\ prevTokens = 0
  /\ nativeLimit = 0
  /\ hardwareLimit = 0
  /\ tests = <<>>
  /\ outCtx = 0
  /\ maxOutput = 0
  /\ outTests = <<>>
  /\ allResults = <<>>

\* Head of main's loop, and the start of find_native_limit (the model
\* information it fetches first is printed, never used).
BeginModel ==
  /\ pc = "begin"
  /\ pc' = "native"
  /\ k' = 1
  /\ prevTokens' = 0
  /\ nativeLimit' = 0
  /\ hardwareLimit' = 0
  /\ tests' = <<>>
  /\ UNCHANGED <<srv, m, outCtx, maxOutput, outTests, allResults>>

\* End of find_native_limit, and test_model_complete starting
\* test_output_limit with num_ctx = min(native_context, 131072).
StartOutputTest(native) ==
  /\ pc' = "output"
  /\ k' = 1
  /\ outCtx' = Min({native, 131072})
  /\ maxOutput' = 0
  /\ outTests' = <<>>

\* A truncated probe and a plateau end the search the same way:
\* native_limit = tokens, break.
StopAtReading(r) ==
  /\ nativeLimit' = r.tokens
  /\ StartOutputTest(r.tokens)
  /\ UNCHANGED <<prevTokens, hardwareLimit>>

\* One iteration of the loop of find_native_limit.
NativeProbe ==
  /\ pc = "native"
  /\ \E r \in TestContext(TestSizes[k], srv[m]) :
       /\ tests' = Append(tests, r)
       /\ \/ /\ ~r.success
             /\ hardwareLimit' = prevTokens
             /\ StartOutputTest(nativeLimit)
             /\ UNCHANGED <<prevTokens, nativeLimit>>
          \/ /\ r.success /\ (r.truncated \/ Plateau(r.tokens, prevTokens))
             /\ StopAtReading(r)
          \/ /\ r.success /\ ~r.truncated /\ ~Plateau(r.tokens, prevTokens)
             /\ prevTokens' = r.tokens
             /\ nativeLimit' = r.tokens
             /\ UNCHANGED hardwareLimit
             /\ IF k < Len(TestSizes)
                  THEN k' = k + 1 /\ UNCHANGED <<pc, outCtx, maxOutput, outTests>>
                  ELSE StartOutputTest(r.tokens)
  /\ UNCHANGED <<srv, m, allResults>>

\* Mutant: hardware_limit written as None when it is 0.
ResultNone(mo, outSeq) ==
  [model |-> Models[m], native_context |-> nativeLimit,
   hardware_limit |-> IF hardwareLimit # 0 THEN hardwareLimit ELSE None,
   recommended_input |-> (nativeLimit * 9) \div 10,
   tests |-> tests, max_output |-> mo, output_tests |-> outSeq]

\* The record main appends for the model.
Result(mo, outSeq) ==
  [model |-> Models[m], native_context |-> nativeLimit,
   hardware_limit |-> IF hardwareLimit # 0 THEN hardwareLimit ELSE NotReached,
   recommended_input |-> (nativeLimit * 9) \div 10,
   tests |-> tests, max_output |-> mo, output_tests |-> outSeq]

FinishModel(mo, outSeq) ==
  /\ allResults' = Append(allResults, Result(mo, outSeq))
  /\ IF m < Len(Models)
       THEN pc' = "begin" /\ m' = m + 1
       ELSE pc' = "summary" /\ m' = m
  /\ UNCHANGED k

\* One iteration of the loop of test_output_limit.  The model writes until
\* the budget or its own end of text, whichever comes first.
OutputProbe ==
  /\ pc = "output"
  /\ LET np == NumPredict[k] IN
     \E ok \in CallSucceeds(outCtx, srv[m]) :
       LET out  == Min({np, srv[m].out})
           outs == Append(outTests, [num_predict |-> np, actual_output |-> out])
       IN  \/ /\ ~ok
              /\ FinishModel(maxOutput, outTests)
              /\ UNCHANGED <<maxOutput, outTests>>
           \/ /\ ok /\ OutputLimitFound(out, np, maxOutput)
              /\ outTests' = outs
              /\ FinishModel(maxOutput, outs)
              /\ UNCHANGED maxOutput
           \/ /\ ok /\ ~OutputLimitFound(out, np, maxOutput)
              /\ outTests' = outs
              /\ maxOutput' = Max({maxOutput, out})
              /\ IF k < Len(NumPredict)
                   THEN k' = k + 1 /\ UNCHANGED <<pc, m, allResults>>
                   ELSE FinishModel(maxOutput', outs)
  /\ UNCHANGED <<srv, prevTokens, nativeLimit, hardwareLimit, tests, outCtx>>

\* The summary is printed and the results are written under a hard-coded
\* directory; when it does not exist the exception ends the script.
SaveResults ==
  /\ pc = "summary"
  /\ pc' \in {"saved", "crashed"}
  /\ UNCHANGED <<srv, m, k, prevTokens, nativeLimit, hardwareLimit, tests,
                 outCtx, maxOutput, outTests, allResults>>

Terminated ==
  /\ pc \in {"saved", "crashed"}
  /\ UNCHANGED vars

Next ==
  \/ BeginModel
  \/ NativeProbe
  \/ OutputProbe
  \/ SaveResults
  \/ Terminated

Spec == Init /\ [][Next]_vars

\* The script is one process; each call returns or times out (300 s or
\* 600 s), so the next statement is always eventually executed.
FairSpec == Spec /\ WF_vars(Next)

-----------------------------------------------------------------------------
(* Properties.                                                             *)

ContextTest == [numCtx : Nat, success : BOOLEAN, tokens : Nat,
                truncated : BOOLEAN]

TypeOK ==
  /\ srv \in [1..Len(Models) -> Servers]
  /\ pc \in {"begin", "native", "output", "summary", "saved", "crashed"}
  /\ m \in 1..Len(Models)
  /\ k \in 1..Len(TestSizes)
  /\ {prevTokens, nativeLimit, hardwareLimit, outCtx, maxOutput} \subseteq Nat
  /\ tests \in Seq(ContextTest)
  /\ outTests \in Seq([num_predict : Nat, actual_output : Nat])
  /\ Len(allResults) <= Len(Models)
  /\ \A j \in 1..Len(allResults) :
       allResults[j].hardware_limit \in Nat \cup {NotReached}

\* The plateau rule of find_native_limit never ends a search: a probe that
\* is not truncated evaluated at least 80% of the estimate of a prompt at
\* least 1.5 times as long as the previous one, so it is never within 10%
\* of the previous reading.  Every stop is a failure, a truncation or the
\* end of the list.
PlateauNeverStops ==
  \A j \in 1..Len(allResults) :
    LET t == allResults[j].tests IN
    \A i \in 2..Len(t) :
      t[i].success /\ ~t[i].truncated
        => 10 * t[i].tokens > 11 * t[i-1].tokens

\* find_native_limit seen as a ForwardSearch: the model under test is the
\* search, the last record of result["tests"] the last probe, native_limit
\* the best reading; the search ends when its loop is left.
FS == INSTANCE ForwardSearch
        WITH Sizes    <- Range(TestSizes),
             Searches <- Len(Models),
             search   <- m,
             last     <- IF pc = "begin" \/ tests = <<>> THEN 0
                         ELSE Last(tests).numCtx,
             lastOk   <- IF pc = "begin" \/ tests = <<>> THEN TRUE
                         ELSE Last(tests).success,
             best     <- IF pc = "begin" THEN 0 ELSE nativeLimit,
             stopped  <- pc \notin {"begin", "native"}

\* find_native_limit walks test_sizes forward, stops at the first failed
\* call and never resumes, native_limit never decreases while it runs
\* (spec 8), and every model is searched to its end (spec 4.4:
\* forward-only escalation).
SearchRefined == FS!Spec

=============================================================================
