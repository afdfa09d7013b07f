-------------------------- MODULE ContextLengthTest --------------------------
(***************************************************************************)
(* scripts/context_length_test.py: for each model on the command line,     *)
(* find_max_context runs                                                   *)
(*   Phase 1  prompts of ~2K..16K tokens with the server's default window, *)
(*            stopping at the first truncated or failed probe;            *)
(*   Phase 2  num_ctx 8K..128K with a prompt of 90% of the window,        *)
(*            stopping at the first failure or the first probe that does   *)
(*            not beat the best so far;                                    *)
(* and, with --comprehensive, test_model_comprehensive adds               *)
(*   Phase 3  performance probes of 2K..32K tokens under the window found. *)
(* main then prints a summary and writes every result to a JSON file.     *)
(*                                                                         *)
(* One action is one iteration of a loop of the script, with the probe    *)
(* call, the append to results["tests"], the classification and the       *)
(* break or continue that follows it.  Probing is sequential: one call in *)
(* flight, one model at a time.                                            *)
(***************************************************************************)
EXTENDS Integers, Sequences, FiniteSetsExt, OllamaServer

CONSTANTS
  Models,   \* the model names given on the command line, in order
  Servers   \* the server profiles a model may meet (see OllamaServer)

ASSUME Len(Models) >= 1

VARIABLES
  comprehensive, \* "--comprehensive" in sys.argv
  srv,           \* srv[i]: the server as model Models[i] meets it
  pc,            \* where the script is
  m,             \* index of the model under test
  k,             \* index into the list the current phase walks
  defaultMax,    \* default_max
  maxCtx,        \* max_with_numctx
  bestNumCtx,    \* best_numctx
  tests,         \* results["tests"] of the model under test
  perf,          \* perf_tests
  allResults     \* all_results

vars == <<comprehensive, srv, pc, m, k, defaultMax, maxCtx, bestNumCtx,
          tests, perf, allResults>>

-----------------------------------------------------------------------------
(* Prompt synthesis, the probe and its classification.                     *)

Phase1Sizes  == <<2000, 4000, 8000, 16000>>
NumCtxValues == <<8192, 16384, 32768, 65536, 131072>>

\* count_tokens_approx: characters / 4.
CountTokensApprox(chars) == chars \div 4

\* generate_test_prompt: the filler sentence (45 characters) repeated
\* max(1, target // 12) times between a 55-character header and a
\* 10-character tail.
Repeats(target) == Max({1, target \div 12})
PromptChars(target) == 55 + 45 * Repeats(target) + 10
PromptTokens(target) == FoxFrameTokens + FoxSentenceTokens * Repeats(target)

\* truncated = prompt_eval < actual_tokens * 0.9
Truncated(eval, approx) == 10 * eval < 9 * approx

\* The results test_single_context(model, target, numCtx) may return.  A
\* failed call (HTTP error, timeout, exception) carries no token counts.
TestSingleContext(target, numCtx, s) ==
  LET approx == CountTokensApprox(PromptChars(target))
      eval   == Evaluated(PromptTokens(target), numCtx, s)
  IN  { IF ok
        THEN [target |-> target, numCtx |-> numCtx, success |-> TRUE,
              eval |-> eval, truncated |-> Truncated(eval, approx)]
        ELSE [target |-> target, numCtx |-> numCtx, success |-> FALSE,
              eval |-> 0, truncated |-> FALSE]
        : ok \in CallSucceeds(numCtx, s) }

\* test_size = int(num_ctx * 0.9)
Phase2Size(ctx) == (ctx * 9) \div 10

\* test_contexts of Phase 3
PerfContexts(mx) ==
  <<2000, 4000, 8000>> \o (IF mx > 16000 THEN <<16000>> ELSE <<>>)
                       \o (IF mx > 32000 THEN <<32000>> ELSE <<>>)

-----------------------------------------------------------------------------
Init ==
  /\ comprehensive \in BOOLEAN
  /\ srv \in [1..Len(Models) -> Servers]
  /\ pc = "begin"
  /\ m = 1
  /\ k = 1
  /\ defaultMax = 0
  /\ maxCtx = 0
  /\ bestNumCtx = None
  /\ tests = <<>>
  /\ perf = <<>>
  /\ allResults = <<>>

\* Head of main's loop over the models, and the start of find_max_context.
BeginModel ==
  /\ pc = "begin"
  /\ pc' = "phase1"
  /\ k' = 1
  /\ defaultMax' = 0
  /\ tests' = <<>>
  /\ perf' = <<>>
  /\ UNCHANGED <<comprehensive, srv, m, maxCtx, bestNumCtx, allResults>>

\* Mutant: a model whose search found nothing is left out of the report.
FinishModelIfFound(profile) ==
  /\ allResults' = IF profile.max_context > 0
                      THEN Append(allResults, profile) ELSE allResults
  /\ IF m < Len(Models)
       THEN pc' = "begin" /\ m' = m + 1
       ELSE pc' = "summary" /\ m' = m

\* The result find_max_context returns, with the Phase 3 samples when the
\* run is comprehensive, appended to all_results; main moves to the next
\* model or to the summary.
FinishModel(profile) ==
  /\ allResults' = Append(allResults, profile)
  /\ IF m < Len(Models)
       THEN pc' = "begin" /\ m' = m + 1
       ELSE pc' = "summary" /\ m' = m

Profile(mx, best, perfSeq, testSeq) ==
  [model |-> Models[m], default_context |-> defaultMax, max_context |-> mx,
   optimal |-> best, recommended |-> (mx * 8) \div 10,
   performance |-> perfSeq, tests |-> testSeq]

\* End of find_max_context: record the Phase 2 result, then either run
\* Phase 3 or hand the result back to main.
EndSearch(mx, best, testSeq) ==
  IF comprehensive
    THEN /\ pc' = "phase3"
         /\ k' = 1
         /\ UNCHANGED <<m, allResults>>
    ELSE /\ FinishModel(Profile(mx, best, <<>>, testSeq))
         /\ UNCHANGED k

\* Phase 2 starts with max_with_numctx = default_max and no best num_ctx.
StartPhase2(dm) ==
  /\ pc' = "phase2"
  /\ k' = 1
  /\ maxCtx' = dm
  /\ bestNumCtx' = None

\* One iteration of the Phase 1 loop.  A success that is not truncated
\* becomes default_max and the loop goes on; a truncated or failed probe,
\* or the end of the list, starts Phase 2 with max_with_numctx = default_max.
Phase1Probe ==
  /\ pc = "phase1"
  /\ \E r \in TestSingleContext(Phase1Sizes[k], None, srv[m]) :
       LET ok == r.success /\ ~r.truncated
           dm == IF ok THEN r.eval ELSE defaultMax
       IN  /\ tests' = Append(tests, r)
           /\ defaultMax' = dm
           /\ \/ /\ ok /\ k < Len(Phase1Sizes)
                 /\ k' = k + 1
                 /\ UNCHANGED <<pc, maxCtx, bestNumCtx>>
              \/ /\ ~ok \/ k = Len(Phase1Sizes)
                 /\ StartPhase2(dm)
  /\ UNCHANGED <<comprehensive, srv, m, perf, allResults>>

\* Mutants: best_numctx assigned outside the improvement test; the new
\* maximum never stored; the list index stored instead of the num_ctx.
Phase2UpdateBestAlways(r, ctx) ==
  /\ maxCtx' = IF r.success /\ r.eval > maxCtx THEN r.eval ELSE maxCtx
  /\ bestNumCtx' = ctx
Phase2UpdateNoMax(r, ctx) ==
  /\ UNCHANGED maxCtx
  /\ bestNumCtx' = IF r.success /\ r.eval > maxCtx THEN ctx ELSE bestNumCtx
Phase2UpdateIndex(r, ctx) ==
  IF r.success /\ r.eval > maxCtx
    THEN maxCtx' = r.eval /\ bestNumCtx' = k
    ELSE UNCHANGED <<maxCtx, bestNumCtx>>

\* The new best of Phase 2 after result r of the probe at num_ctx = ctx.
Phase2Update(r, ctx) ==
  IF r.success /\ r.eval > maxCtx
    THEN maxCtx' = r.eval /\ bestNumCtx' = ctx
    ELSE UNCHANGED <<maxCtx, bestNumCtx>>

\* The Phase 2 loop goes on after an improvement, and after a success that
\* is not an improvement only when it is more than 10% above the best, which
\* an eval <= max_with_numctx never is.
Phase2Continues(r) ==
  /\ r.success
  /\ r.eval > maxCtx \/ ~(10 * r.eval <= 11 * maxCtx)

\* One iteration of the Phase 2 loop.
Phase2Probe ==
  /\ pc = "phase2"
  /\ LET ctx == NumCtxValues[k] IN
     \E r \in TestSingleContext(Phase2Size(ctx), ctx, srv[m]) :
       /\ tests' = Append(tests, r)
       /\ Phase2Update(r, ctx)
       /\ \/ /\ Phase2Continues(r) /\ k < Len(NumCtxValues)
             /\ k' = k + 1
             /\ UNCHANGED <<pc, m, allResults>>
          \/ /\ ~Phase2Continues(r) \/ k = Len(NumCtxValues)
             /\ EndSearch(maxCtx', bestNumCtx', tests')
  /\ UNCHANGED <<comprehensive, srv, defaultMax, perf>>

\* optimal_ctx = results.get("optimal_num_ctx") or max_context_with_num_ctx
OptimalCtx == IF bestNumCtx # None THEN bestNumCtx ELSE maxCtx

\* One iteration of the Phase 3 loop: every successful probe becomes a
\* performance sample; nothing is checked for truncation and nothing stops
\* the loop early.
Phase3Probe ==
  /\ pc = "phase3"
  /\ LET ctxs == PerfContexts(maxCtx) IN
     \E r \in TestSingleContext(ctxs[k], OptimalCtx, srv[m]) :
       LET perf1 == IF r.success
                      THEN Append(perf, [context_size |-> ctxs[k],
                                         eval |-> r.eval])
                      ELSE perf
       IN  /\ perf' = perf1
           /\ \/ /\ k < Len(ctxs)
                 /\ k' = k + 1
                 /\ UNCHANGED <<pc, m, allResults>>
              \/ /\ k = Len(ctxs)
                 /\ FinishModel(Profile(maxCtx, bestNumCtx, perf1, tests))
                 /\ UNCHANGED k
  /\ UNCHANGED <<comprehensive, srv, defaultMax, maxCtx, bestNumCtx, tests>>

\* The summary is printed and the results are written to a file under a
\* hard-coded absolute directory; open() raises when it does not exist, and
\* the exception leaves main with nothing saved.
SaveResults ==
  /\ pc = "summary"
  /\ pc' \in {"saved", "crashed"}
  /\ UNCHANGED <<comprehensive, srv, m, k, defaultMax, maxCtx, bestNumCtx,
                 tests, perf, allResults>>

\* The script has exited.
Terminated ==
  /\ pc \in {"saved", "crashed"}
  /\ UNCHANGED vars

Next ==
  \/ BeginModel
  \/ Phase1Probe
  \/ Phase2Probe
  \/ Phase3Probe
  \/ SaveResults
  \/ Terminated

Spec == Init /\ [][Next]_vars

-----------------------------------------------------------------------------
(* Properties.                                                             *)

Probe == [target : Nat, numCtx : Nat \cup {None}, success : BOOLEAN,
          eval : Nat, truncated : BOOLEAN]

TypeOK ==
  /\ comprehensive \in BOOLEAN
  /\ srv \in [1..Len(Models) -> Servers]
  /\ pc \in {"begin", "phase1", "phase2", "phase3", "summary", "saved",
             "crashed"}
  /\ m \in 1..Len(Models)
  /\ k \in 1..5
  /\ {defaultMax, maxCtx} \subseteq Nat
  /\ bestNumCtx \in {None} \cup {NumCtxValues[i] : i \in 1..5}
  /\ tests \in Seq(Probe)
  /\ perf \in Seq([context_size : Nat, eval : Nat])
  /\ Len(allResults) <= Len(Models)

\* Every probe of the model under test and of every finished model.
AllTests ==
  {tests[i] : i \in 1..Len(tests)}
    \cup UNION {{allResults[j].tests[i] : i \in 1..Len(allResults[j].tests)}
                : j \in 1..Len(allResults)}

\* A probe the script classifies as truncated was truncated by the server:
\* it evaluated fewer tokens than the prompt has (spec, glossary
\* "Truncation"; 4.1: the estimator's error is absorbed by the threshold).
NoFalseTruncation ==
  \A t \in AllTests : t.truncated => t.eval < PromptTokens(t.target)

\* optimal_num_ctx names a probe of the model that succeeded and evaluated
\* exactly max_context tokens; it is None exactly when Phase 2 never beat
\* the default context.
OptimalWindowWitnessed ==
  \A j \in 1..Len(allResults) :
    LET p == allResults[j] IN
    /\ p.optimal = None <=> p.max_context = p.default_context
    /\ p.optimal # None =>
         \E i \in 1..Len(p.tests) :
           /\ p.tests[i].numCtx = p.optimal
           /\ p.tests[i].success
           /\ p.tests[i].eval = p.max_context

\* The most tokens the server honours for a Phase 2 probe at window ctx.
HonouredAt(ctx, s) == Evaluated(PromptTokens((ctx * 9) \div 10), ctx, s)

\* When no probe failed except for a window the hardware cannot load, the
\* forward-only search loses nothing: max_context is the best the default
\* phase or any loadable window of the list can reach (spec 4.4, regime B:
\* "native_context = best achieved").
MaxReachesListCapacity ==
  \A j \in 1..Len(allResults) :
    LET p == allResults[j]
        s == srv[j]
    IN  (\A i \in 1..Len(p.tests) :
           ~p.tests[i].success => p.tests[i].numCtx # None
                                  /\ p.tests[i].numCtx > s.hw)
        => p.max_context =
             Max({p.default_context}
                 \cup {HonouredAt(NumCtxValues[i], s) :
                         i \in {i \in 1..5 : NumCtxValues[i] <= s.hw}})

\* Once the results are written, there is one entry per requested model, in
\* order, whatever its probes did (spec 8: a model with no successful probe
\* still has its entry).
EveryModelReported ==
  pc = "saved" =>
    /\ Len(allResults) = Len(Models)
    /\ \A j \in 1..Len(Models) : allResults[j].model = Models[j]

\* Every performance sample comes from a probe that was not truncated
\* (spec 4.5: the curve is built from the `ok` outcomes).
PerfFromOkProbes ==
  \A j \in 1..Len(allResults) :
    \A i \in 1..Len(allResults[j].performance) :
      LET q == allResults[j].performance[i] IN
      ~Truncated(q.eval, CountTokensApprox(PromptChars(q.context_size)))


=============================================================================
