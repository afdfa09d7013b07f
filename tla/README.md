# TLA+ models of the Fortemi capacity-probing scripts

This directory models the Python scripts of this repository in TLA+ and checks them with
TLC. The most important part is the **capacity discovery engine** described in `spec.md`.
It is three scripts that probe a local Ollama server to find the context window and output
length a model really honours. The other components are smaller utilities (see the
inventory).

## 1. Inventory

| Component | Source | State it keeps | Operations |
|---|---|---|---|
| Context-length prober | `src/scripts/context_length_test.py` | per model: `default_max`, `max_with_numctx`, `best_numctx`, `results["tests"]`, `perf_tests`. Per run: `all_results` | `generate_test_prompt`, `test_single_context` (probe + truncation test), `find_max_context` (Phase 1, Phase 2), `test_model_comprehensive` (Phase 3), `main` (model loop, summary, save) |
| Smart prober | `src/scripts/smart_context_test.py` | `prev_tokens`, `native_limit`, `hardware_limit`, `tests`. Output phase: `max_output`, its tests. Per run: `all_results` | `test_context`, `find_native_limit`, `test_output_limit`, `test_model_complete`, `main` |
| Batch prober | `src/scripts/batch_context_test.py` | `max_successful`, `max_tokens`, `tests` | `test_context`, `find_max_context`, `main` |
| Thinking-model detector | `src/scripts/thinking_test.py` | `thinking_patterns_found`, `thinking_tags_found`, `reasoning_verbose`, tests | `test_thinking_capability` (3 prompts, pattern scan, classification), `main` |
| GLiNER sidecar | `src/build/gliner/app.py` | global `model` (None until loaded) | `lifespan` (load), `extract_entities` (truncate, predict, dedup), `health` |
| MCP patcher | `src/mcp-server/apply-chunk-updates.py` | the text of `index.js`, a timestamped backup | six regex edits, backup, write |
| 3D metadata extractor | `src/scripts/process_3d.py` | none (one call) | `process_3d_file` error paths, optional thumbnail |
| UAT data generators | `src/tests/uat/data/...` | files written once | straight-line writers (not modelled) |
| Ollama server (external) | none | loaded model, window | `/api/generate`, `/api/show` |

**How they interact.** Each prober is a single-threaded loop. For every model on the
command line it issues one blocking HTTP call at a time to the Ollama server. It reads the
`prompt_eval_count` or `eval_count` from the answer, classifies the answer, and decides
whether to escalate or stop. Results accumulate in a list that is written to a JSON file at
the end. Nothing runs concurrently. The only shared thing is the server, which is external.
So the hard behaviours are not interleavings. They are these:

- **Estimator error.** The scripts estimate tokens as characters/4, but the server counts
  with its tokenizer. Every truncation threshold (0.9, 0.8) has to absorb that difference.
- **Server behaviour.** There are three separate limits: the default window, the model's
  honoured maximum, and the largest window the GPU can load. The searches read them only
  through counts.
- **Failures without retry.** A timeout or transport error ends a phase as if a limit had
  been found.
- **Order of checks.** These are truncation before plateau, the stop rule before the
  max update, and a comparison against the previous phase's best.
- **Numeric edges.** These are `0` used as "not found" and then passed as `num_ctx`, and
  falsy `0` printed as "not reached".

**What makes each component correct.** The spec's section 3 and section 8 give most of it:

- `native_context >= default_context`.
- Recommendations stay within the discovered maximum.
- The best-so-far never decreases.
- A truncation verdict means the server really dropped tokens.
- The forward-only search loses nothing the list could reach.
- Every requested model gets a report entry.
- The performance curve uses `ok` probes only.
- The output limit is the best observed.

## 2. Plan

Modules, most important first:

1. `OllamaServer`: the environment. It holds the server profiles, the tokenizer ratio and
   transient failures. *(done)*
2. `ContextLengthTest` + `MC_ContextLengthTest`: all three phases and main. *(done)*
3. `SmartContextTest` + `MC_SmartContextTest`: native-limit and output-limit search.
   *(done)*
4. `ForwardSearch`: an abstract spec of a forward-only escalation over an ascending list.
   Probes are strictly increasing and issued at most once, the search stops for good, and
   the best is monotone. The smart prober is shown to refine it through
   `INSTANCE ForwardSearch WITH ...`, with the abstract `Spec` as a PROPERTY. *(done)*
5. `BatchContextTest`: escalation to the first failure, with no truncation check. Its
   property compares the reported window with what the server honours. *(done)*
6. `ThinkingTest`: evidence accumulation and classification. An answer is abstracted to
   the set of patterns it matches, and a failed request is a distinct outcome. *(done)*
7. `GlinerSidecar`: the dedup loop as a RECURSIVE operator, checked against its comment's
   claim ("highest score per key") over bounded entity lists, inside the service's
   lifespan. *(done)*
8. `ApplyChunkUpdates` + `MC_ApplyChunkUpdates`: the six edits over an abstract `index.js`,
   the backup, repeated runs, and kills while a file is open for writing. *(done)*
8a. `Process3D` + `MC_Process3D`: the error paths of `process_3d_file` and the thumbnail
   block. *(done)*
9. `ProbeCache`, as an optional server feature: Ollama's prompt-prefix cache makes
   `prompt_eval_count` count only uncached tokens, which would make Phase 1's
   growing prompts look truncated. *(not done: an assumption about the server, see §5)*

The suite is kept to 12 runs, and all 12 are used. The refinement of `ForwardSearch` is
a PROPERTY of `smart_safety`. The thinking detector, the GLiNER sidecar and the batch
prober each have one violation run, so no passing run checks their actions.
Three disagreements are kept as text only:
- `smart_context_test.py` loses the output reading that ends its search, so
  `max_output = 4096` is reported for a model that wrote 4200 tokens. The model has
  this behaviour (`OutputProbe`), but no run checks it.
- The comment at `smart_context_test.py:104` says the native limit is "capped at
  previous token count", while the code assigns `native_limit = tokens`. The modelled
  server's readings never decrease as the window grows, so the two cannot differ in a
  state the model reaches.
- The docstring of `find_max_context` (`batch_context_test.py:36`) says "Binary
  search", while the code walks the list forward until the first failure. The model
  follows the code.

## 3. What is modelled, and how it corresponds to the code

### OllamaServer (environment, not repository code)
A server is a record `[default, native, hw]` (the smart prober adds `out`). The model
under test meets it per model; `srv` is chosen in `Init` and never changes. The fields are:

- `default`: the window used when a request has no `num_ctx`.
- `native`: the most prompt tokens the model evaluates.
- `hw`: the largest loadable `num_ctx`. A larger `num_ctx` fails with HTTP 500.
- `out`: how many tokens the model writes before it stops by itself.

`prompt_eval_count` is `min(prompt tokens, window, native)`. When `TransientFaults` is
TRUE, any call may also fail (a transport error or a timeout). The tokenizer is given
by constants: the tokens counted for the fox sentence, for `"test "`, and for the fixed
frame of each prompt.

### ContextLengthTest (`context_length_test.py`)
`pc` is where the script is. Each action is one iteration of a loop, including the probe,
the append to `results["tests"]`, the classification, and the `break` or `continue`:

- `BeginModel`: main's loop head and the start of `find_max_context`.
- `Phase1Probe`: lines 133–149. A failure or truncation, or the end of the list, enters
  Phase 2 through `StartPhase2` (lines 151–156).
- `Phase2Probe`: lines 158–178. `Phase2Update` is the improvement branch.
  `Phase2Continues` is the continue/break logic, with its 10% test kept exactly as written.
- `EndSearch`: the comprehensive branch.
- `Phase3Probe`: lines 208–220, with `OptimalCtx` for line 206.
- `FinishModel`: the append to `all_results`.
- `SaveResults`: ends in `saved` or `crashed`. The path is hard-coded, and `open()` may
  raise.
- `Terminated`: stuttering once the script has exited.

Prompt size: `Repeats` and `PromptChars` reproduce `generate_test_prompt` character for
character. The header is 55 characters, the sentence 45 and the tail 10. The estimate is
`CountTokensApprox` = `len // 4`.

### SmartContextTest (`smart_context_test.py`)
- `NativeProbe` is one iteration of `find_native_limit`'s loop. It has three outcomes: a
  failure, `StopAtReading`, or a continue. `StopAtReading` covers truncation and plateau
  together, because both do `native_limit = tokens; break`.
- `StartOutputTest` is `test_model_complete`'s `min(native, 131072)`.
- `OutputProbe` is one iteration of `test_output_limit`. It has three outcomes: a failure,
  the stop rule, or a continue.
- `Result` is the result dictionary, including the `"not reached"` rendering of
  `hardware_limit`. A failure at the very first probe leaves `hardware_limit = 0`, which
  is then reported as "not reached". This is modelled, and listed as a hazard, but no run
  checks it.
- `FS` maps the script onto `ForwardSearch`. The search number is `m`. The last probe is
  the last record of `tests`, and the best reading is `native_limit`. The search has
  ended once `pc` is past `"native"`. At `pc = "begin"` the mapping gives the fresh
  search, because `BeginModel` resets the state of the previous model.

### BatchContextTest (`batch_context_test.py`)
- `TestContext` is `test_context`. HTTP 200 yields `prompt_eval_count`. Any other status,
  or an exception, yields an error record.
- `BatchProbe` is one iteration of `find_max_context`'s loop. It either records a
  success (`max_successful = ctx`) and goes on to the next size, or ends at the last
  size, or records a failure and breaks.
- `FinishModel` is the result record with `recommended_ctx = int(max_successful * 0.85)`,
  written as `Recommended`.
- `NextModel` is the head of main's loop. It is a step of its own, because a failed last
  probe ends one search and the next model's search starts afterwards. The `except`
  branch of main is left out: `test_context` catches every exception, so it cannot be
  reached.
- `SaveResults` writes to a hard-coded path and may crash.

### ForwardSearch (abstract, from spec §4.4 and §8)
This is what a prober promises about its search:
- Models are searched one after another.
- Each search probes the *next* entry of an ascending list.
- A failed probe or the end of the list ends the search, and an ended search never
  resumes.
- The best reading does not decrease, and stays below the largest window.
- Every search ends. The module's weak fairness on `Probe` and `NewSearch` makes this
  part of `Spec`.

The module does not know why a probe stops, so truncation and plateau stops are allowed.

### ApplyChunkUpdates (`mcp-server/apply-chunk-updates.py`)
The text of `index.js` is a record of what the six patterns can see:
- the form of the `get_note` case and of the two tool schemas: `plain` (the exact text a
  pattern spells out), `chunked` (what the edit writes) or `absent`;
- whether the `search_notes` case holds the `set` line;
- how many copies of the inserted chain lines, chain case and chain tool there are;
- the `tools` array literal as a sequence of objects, each with whether `},` ends it, and
  holes (a bare `,`).

Each edit is an operator named after what it updates (`UpdateGetNoteHandler` …
`AddChainTool`), and `Patch` applies them in the script's order. `LinksToolEnd` is where
the lazy `.*?\},` of edit 6 stops: the first object, from `get_note_links` on, that ends
in `},` and is followed by another object. The run itself has three actions:
- `StartRun`: the backup name is taken from the clock and `index.js` is read.
- `WriteBackup`: the backup is written. A kill mid-write leaves it cut short.
- `WriteIndex`: `index.js` gets the patched text. It is emptied first, so a kill leaves it
  empty.

The clock counts tenths of a second. `BackupSecond` is the name's resolution.

### Process3D (`scripts/process_3d.py`)
trimesh is the environment. What `load` returns is a geometry record (mesh, scene of
parts, point cloud), and `concatenate` takes every outcome its versions give. The actions
are `Load`, `Merge`, `Extract`, `Thumbnail` and `PrintResult`, each one block of
`process_3d_file` or `main`:
- `Extract` crashes on a mesh with no vertices, where `bounds` is `None`.
- `Thumbnail` takes each outcome: the render raises or gives `None`, `open` fails, `write`
  fails after `open` emptied the file, or the image is written.
- A file left at the thumbnail path by an earlier run is part of `Init`.

### ThinkingTest (`thinking_test.py`)
- `Prompt` is one iteration of the prompt loop. An answer is a record
  `[found, verbose]`. `found` is the set of `THINKING_PATTERNS` it matches, and `verbose`
  means `eval_count > 200`. The answer adds `found` to `thinking_patterns_found`, and sets
  the tag flag when `found` meets the four tag patterns. The explicit-tag regex is exactly
  their alternation. A failed request (a non-200 status or an exception) adds an error
  record only.
- `Classify` is the `if/elif` chain of lines 129-140 (`ThinkingType`), plus main's
  append. `Standard` is the filter of line 200.
- The pattern order and the response previews are left out. No decision reads them.

### GlinerSidecar (`build/gliner/app.py`)
- `Startup` is the lifespan, which either loads the model or raises (the application
  then never serves). `Shutdown` is the code after `yield`.
- `Extract` is a whole request. It has no `await`, so requests do not interleave on the
  event loop. GLiNER is the environment: `RawLists` is any list of up to `MaxRaw`
  entities. `Dedup` / `DedupFrom` translate the loop of lines 86-101 as a RECURSIVE
  fold with `seen`. `Key` is `(text.lower(), label)`, with `Lower` a constant function
  over the model-value texts.
- `/health` reads `model` and changes nothing. Truncation to `MAX_LENGTH` and the
  start/end offsets are data that no decision reads.

### Arithmetic
The code computes its thresholds in floating point (`x * 0.9`, `x * 1.1`, `int(x * 0.8)`).
The model uses exact integers (`10*e < 9*a`, `10*e <= 11*p`, `(8*x) \div 10`). For every
value the model can produce (all counts up to 250 000), the float and integer forms agree.
This was checked exhaustively in Python. Sizes and windows are the literal values of the
code, so the prompt sizes, estimates and thresholds are the ones the scripts really use.

## 4. Runs

| Run | Expect | What it shows |
|---|---|---|
| `cl_safety` | pass | Two models, three server profiles each (default 2K/4K, honoured 8K/128K, loadable 16K/64K), transient failures on. `OptimalWindowWitnessed`: `optimal_num_ctx` names a real probe that reached the max, or is None exactly when Phase 2 never improved. `MaxReachesListCapacity`: with no transient failure, the forward-only search reaches the best any loadable listed window gives. `EveryModelReported`. About 790K states, 25 s. |
| `cl_tokenizer_false_truncation` | violation | The `cl_safety` constants, but the filler sentence counts as 10 tokens, as it does under common BPE tokenizers (cl100k, o200k, Llama 3). The first Phase 1 probe evaluates the whole prompt (1676 tokens) but is judged truncated, because 1676 < 0.9 × 1883 (the estimate of 4 characters per token). Phase 1 then breaks with `default_context = 0`. `NoFalseTruncation` is violated. |
| `cl_large_default_window` | violation | With an 8K default window, Phase 2 stops at its first probe against Phase 1's best. The windows from 16K to 64K, which the server loads and honours, are never tried (128K is above the 64K the hardware loads). |
| `cl_perf_truncated_samples` | violation | Phase 3 stores truncated probes as performance samples, including runs under `num_ctx = 0`. |
| `smart_safety` | pass | Three profiles (honoured 32K with 64K loadable, so its 128K probe fails; honoured 40K with 256K loadable, so its 128K probe is truncated above the previous reading; honoured 128K; outputs 4200 / 4600 / unbounded), transient failures on. `PlateauNeverStops`: the plateau stop is dead code for any server that never counts more than the prompt. `SearchRefined`: `find_native_limit` implements `ForwardSearch`, liveness included. About 58K states. |
| `batch_recommended_exceeds_native` | violation | A model that honours 32K on a GPU that loads 64K gets `recommended_ctx = 55705`. The batch prober never compares `prompt_eval_count` with the prompt. |
| `apply_safety` | pass | Two layouts of the pre-#113 `index.js` (the `get_note_links` tool followed by another tool, or last), three runs at least a second apart, a kill possible while each file is open. `OriginalRecoverable`: the original survives in `index.js` or a backup. `BackupBeforeWrite` (action property): `index.js` never changes unless its content is in a backup. 332 states. |
| `apply_tools_array_broken` | violation | One run leaves `},,` and then the new tool with no comma before the next: `index.js` no longer parses. |
| `apply_backup_same_second` | violation | A second run 0.3 s after the first writes the same backup name, and the original is lost. |
| `p3d_thumbnail` | pass | Eight inputs: closed, open and empty meshes, a point cloud, and scenes of no parts, of meshes, of a mesh and a point cloud, and of a point cloud. Each runs with and without `--thumbnail`, and with and without an old file at the path. `ThumbnailAccounted`: `thumbnail_generated` is printed exactly when the whole image was written, and a cut-short file always comes with `thumbnail_error`. 204 states. |

| `thinking_standard_without_answers` | violation | Two models, answers matching zero to three of four patterns (one of them a tag), failures possible. A model whose three requests all fail is classified `none` with no `error` key. The summary then lists it as a standard model. |
| `gliner_dedup_keeps_first` | violation | Texts `Paris`, `paris` and `Rome`, one label, scores 1 and 2, and up to three entities. For `[Paris 1, Paris 2]` the answer keeps `Paris 1`, although the comment says the highest-scoring span is kept. |

Every property of a passing run has a mutant in `PROJECT.json`: a plausible bug in the
mapped definition, such as a dropped tolerance, a start from zero, an assignment moved out
of its `if`, a lost update, a looser threshold, or an extra list entry. TLC must find the
property violated under the mutant.

**Why the bounds are enough.** The search lists are the code's own literal lists, and each
run walks them to the end. The server profiles are chosen so that each stop reason happens:
truncation by the default window, capping by the honoured maximum, refusal by the hardware
(below and above 16K/64K), a transient failure at any probe, exhaustion of the list, and
outputs just under and just over 10% past a budget. Two models check that per-model state
is reset between models and that the report keeps one entry per model, in order.

**Fairness.** The smart run checks `FairSpec == Spec /\ WF_vars(Next)`. The
script is a single process that always executes its next statement. Every HTTP call
returns or times out (`timeout=300`, or 600 for the output probe), so no step is
postponed forever. No other fairness is assumed. Under this assumption `SearchRefined`
shows that every search ends and every model is searched. The other runs check safety
only. Their termination is structural, because every loop walks a finite literal list. Deadlock checking is on. The only
states with no successor other than stuttering are `saved` and `crashed`, where the script
has exited.

## 5. Not modelled, and why
- Printing, timestamps, JSON layout and `get_model_info` / `get_models`: they only feed
  output.
- Latency and throughput values: they are not compared by any decision of the code, so
  only which probes become samples is modelled.
- The UAT data generators: straight-line file writers.
- `apply-chunk-updates.py`'s progress and summary prints. The summary lists all six
  changes even when an edit's pattern missed. This is listed as a hazard, not checked.
- `process_3d.py`'s import guard (print a JSON error and exit), the metadata values, and
  the `has_*` keys of the visual: no decision of the script reads them.
- Ollama's prompt-prefix cache (plan item 9): it is an assumption about the server, not
  code of this repository.
