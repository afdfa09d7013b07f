---------------------------- MODULE ForwardSearch ----------------------------
(***************************************************************************)
(* What a context prober promises about its search, whatever its stop     *)
(* rules (spec 4.4, "Controller" and regime B):                            *)
(*   - the models are searched one after another, each exactly once;      *)
(*   - a search walks a fixed ascending list of sizes forward, one entry  *)
(*     after the other, never repeating or re-probing a smaller size;     *)
(*   - a failed probe ends the search, and so does the end of the list;   *)
(*     once ended, a search is never resumed;                              *)
(*   - the best reading so far never decreases while a search goes on;    *)
(*   - every search ends, and every model gets its search.                *)
(* The detailed prober modules are shown to implement this specification *)
(* under a refinement mapping.                                             *)
(***************************************************************************)
EXTENDS Naturals, FiniteSetsExt

CONSTANTS
  Sizes,    \* the sizes a search may probe (a finite set of positive naturals)
  Searches  \* how many searches are made (one per model)

ASSUME Sizes \subseteq Nat \ {0} /\ Sizes # {} /\ Searches \in Nat \ {0}

VARIABLES
  search,  \* which search is under way, 1..Searches
  last,    \* the size probed last in this search (0: none yet)
  lastOk,  \* the probe of size last succeeded
  best,    \* the best reading of this search so far
  stopped  \* this search has ended

fsvars == <<search, last, lastOk, best, stopped>>

\* The entry of the list after size s.
NextSize(s) == Min({z \in Sizes : z > s})

Init ==
  /\ search = 1
  /\ last = 0
  /\ lastOk = TRUE
  /\ best = 0
  /\ stopped = FALSE

\* One probe: the next size of the list, a reading no worse than the best
\* so far (and no larger than the largest window), and the search ends
\* when it failed or the list is exhausted.
Probe ==
  /\ ~stopped
  /\ last' = NextSize(last)
  /\ lastOk' \in BOOLEAN
  /\ best' \in best..Max(Sizes)
  /\ stopped' \in BOOLEAN
  /\ (~lastOk' \/ last' = Max(Sizes)) => stopped'
  /\ UNCHANGED search

\* The search of the next model starts afresh.
NewSearch ==
  /\ stopped
  /\ search < Searches
  /\ search' = search + 1
  /\ last' = 0
  /\ lastOk' = TRUE
  /\ best' = 0
  /\ stopped' = FALSE

Next == Probe \/ NewSearch

\* A prober is one process that always takes its next step (every HTTP
\* call returns or times out), so both actions are weakly fair.
Spec == Init /\ [][Next]_fsvars /\ WF_fsvars(Probe) /\ WF_fsvars(NewSearch)

=============================================================================
