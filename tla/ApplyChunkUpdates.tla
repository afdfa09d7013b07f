------------------------- MODULE ApplyChunkUpdates -------------------------
(***************************************************************************)
(* mcp-server/apply-chunk-updates.py: run in the directory of the MCP     *)
(* server, it reads index.js, writes it to index.js.backup-<second>, then *)
(* applies six regular-expression edits to the text in memory and writes  *)
(* the result back over index.js.  The user may run it more than once,    *)
(* and may kill it (or lose power) at any point.                           *)
(*                                                                         *)
(* The text of index.js is abstracted to what the six patterns can see:  *)
(*   getNoteCase    form of the get_note case of the request handler:     *)
(*                  "plain" (matches edit 1), "chunked" (its output) or   *)
(*                  "absent";                                              *)
(*   searchSetLine  the search_notes case holds                            *)
(*                  if (args.set) params.set("set", args.set);             *)
(*   chainParams    copies of the two chain lines edit 2 inserts there;   *)
(*   linksCase      a  case "get_note_links":  label exists;              *)
(*   chainCases     copies of the get_document_chain case (edit 3);       *)
(*   getNoteTool,   form of the two tool schemas (edits 4, 5): "plain"    *)
(*   searchTool     (the exact text the patterns spell out), "chunked"    *)
(*                  or "absent";                                           *)
(*   tools          the elements of the tools array literal, in order:   *)
(*                  an object with its name and whether "}," ends it, or  *)
(*                  a hole (a bare ",").                                   *)
(* A file cut short by a kill is Empty: no pattern matches in it.        *)
(***************************************************************************)
EXTENDS Integers, Sequences, FiniteSetsExt, Functions, TLC

CONSTANTS
  Originals, \* the index.js the first run may find
  MaxRuns,   \* how many times the user runs the script
  Gaps,      \* times between the starts of two runs, in tenths of a second
  Hole,      \* an element of the tools array that is only a comma
  ToolNames  \* names of the tools index.js may define

ASSUME MaxRuns \in Nat /\ Gaps \subseteq Nat \ {0}

VARIABLES
  original, \* the index.js before the first run (not changed by any step)
  index,    \* the content of index.js
  backups,  \* backups[s]: the content of index.js.backup-<second s>
  pc,       \* where the current run is: "idle", "read" or "backed_up"
  now,      \* the clock, in tenths of a second
  stamp,    \* the second the current run named its backup after
  content,  \* the text the current run read
  runs      \* runs started so far

vars == <<original, index, backups, pc, now, stamp, content, runs>>

Empty == [getNoteCase |-> "absent", searchSetLine |-> FALSE, chainParams |-> 0,
          linksCase |-> FALSE, chainCases |-> 0, getNoteTool |-> "absent",
          searchTool |-> "absent", tools |-> <<>>]

-----------------------------------------------------------------------------
\* Mutant: a backup name without the time stamp.
BackupSecondFixed(t) == 0

\* Mutant: the time rounded up to a second rather than truncated.
BackupSecondRounded(t) == (t + 9) \div 10

\* datetime.now().strftime("%Y%m%d%H%M%S"): the name tells seconds apart,
\* nothing finer.
BackupSecond(t) == t \div 10

\* Edit 1: the one-line get_note case becomes a block reading full_document.
UpdateGetNoteHandler(c) ==
  IF c.getNoteCase = "plain" THEN [c EXCEPT !.getNoteCase = "chunked"] ELSE c

\* Edit 2: the lazy DOTALL pattern ends at the set line of the search_notes
\* case and puts the two chain lines after it, whether or not an earlier run
\* already did.
UpdateSearchHandler(c) ==
  IF c.searchSetLine THEN [c EXCEPT !.chainParams = @ + 1] ELSE c

\* Edit 3: a get_document_chain case before the first get_note_links case
\* (count=1), whether or not one is there already.
AddChainHandler(c) ==
  IF c.linksCase THEN [c EXCEPT !.chainCases = @ + 1] ELSE c

\* Edits 4 and 5: the exact schema text is replaced by its chunk-aware form.
UpdateGetNoteTool(c) ==
  IF c.getNoteTool = "plain" THEN [c EXCEPT !.getNoteTool = "chunked"] ELSE c

UpdateSearchTool(c) ==
  IF c.searchTool = "plain" THEN [c EXCEPT !.searchTool = "chunked"] ELSE c

HoleElem  == [name |-> Hole, comma |-> TRUE]
ChainTool == [name |-> "get_document_chain", comma |-> FALSE]

\* Where  (  \{\s+name: "get_note_links",.*?\},)\s+(  \{)  matches: the lazy
\* group ends at the first element, from the get_note_links tool on, that
\* ends in "}," and is followed by another object.
LinksToolEnd(s) ==
  { j \in 1..Len(s) - 1 :
      /\ \E i \in 1..j : s[i].name = "get_note_links"
      /\ s[j].name # Hole /\ s[j].comma
      /\ s[j + 1].name # Hole }

\* Edit 6: \1 (ending in "},") + the tool text (starting with "," and
\* ending in "}" with no comma) + "\n" + \2 (the next "  {").
AddChainTool(c) ==
  IF LinksToolEnd(c.tools) = {} THEN c
  ELSE LET j == Min(LinksToolEnd(c.tools)) IN
       [c EXCEPT !.tools = SubSeq(@, 1, j) \o <<HoleElem, ChainTool>>
                             \o SubSeq(@, j + 1, Len(@))]

\* The six edits, in the order main applies them to the text it read.
Patch(c) ==
  AddChainTool(UpdateSearchTool(UpdateGetNoteTool(
    AddChainHandler(UpdateSearchHandler(UpdateGetNoteHandler(c))))))

-----------------------------------------------------------------------------
Init ==
  /\ index \in Originals
  /\ original = index
  /\ backups = [s \in {} |-> Empty]
  /\ pc = "idle"
  /\ now = 0
  /\ stamp = 0
  /\ content = Empty
  /\ runs = 0

\* main: the backup name is taken from the clock, then index.js is read.
StartRun ==
  /\ pc = "idle"
  /\ runs < MaxRuns
  /\ \E g \in Gaps : now' = now + g
  /\ stamp' = BackupSecond(now')
  /\ content' = index
  /\ runs' = runs + 1
  /\ pc' = "read"
  /\ UNCHANGED <<original, index, backups>>

\* Mutant: the backup is written from the edited text.
WriteBackupPatched ==
  /\ pc = "read"
  /\ backups' = (stamp :> Patch(content)) @@ backups
  /\ pc' = "backed_up"
  /\ UNCHANGED <<original, index, now, stamp, content, runs>>

\* The backup is opened for writing (which empties a file of the same name)
\* and written; a kill in between leaves it cut short and ends the run.
WriteBackup ==
  /\ pc = "read"
  /\ \/ /\ backups' = (stamp :> content) @@ backups
        /\ pc' = "backed_up"
     \/ /\ backups' = (stamp :> Empty) @@ backups
        /\ pc' = "idle"
  /\ UNCHANGED <<original, index, now, stamp, content, runs>>

\* The edited text is written over index.js; open(input_file, 'w') empties
\* the file first, so a kill before the write leaves it empty.
WriteIndex ==
  /\ pc = "backed_up"
  /\ index' \in {Patch(content), Empty}
  /\ pc' = "idle"
  /\ UNCHANGED <<original, backups, now, stamp, content, runs>>

\* The user has stopped running the script.
Done ==
  /\ pc = "idle"
  /\ runs = MaxRuns
  /\ UNCHANGED vars

Next == StartRun \/ WriteBackup \/ WriteIndex \/ Done

Spec == Init /\ [][Next]_vars

-----------------------------------------------------------------------------
(* Properties.                                                             *)

Element == [name : ToolNames \cup {Hole}, comma : BOOLEAN]
Form    == {"plain", "chunked", "absent"}

Content ==
  [getNoteCase : Form, searchSetLine : BOOLEAN, chainParams : Nat,
   linksCase : BOOLEAN, chainCases : Nat, getNoteTool : Form,
   searchTool : Form, tools : Seq(Element)]

TypeOK ==
  /\ {original, index, content} \subseteq Content
  /\ backups \in [DOMAIN backups -> Content]
  /\ \A s \in DOMAIN backups : 10 * s <= now
  /\ pc \in {"idle", "read", "backed_up"}
  /\ {now, stamp} \subseteq Nat
  /\ runs \in 0..MaxRuns

\* The index.js the user started from can always be restored: it is still
\* in index.js or in one of the backups, whatever runs were made and
\* wherever one was killed (the backup is written before index.js is
\* opened, and each run names its backup after its own second).
OriginalRecoverable ==
  \/ index = original
  \/ \E s \in DOMAIN backups : backups[s] = original

\* No step changes index.js unless what it held is in a backup: the backup
\* is complete before index.js is opened for writing.
BackupBeforeWrite ==
  [][index' # index => \E s \in DOMAIN backups : backups[s] = index]_vars

\* After the script has run, index.js still parses and its tools array
\* lists tools only: every element but the last ends in a comma, and no
\* element is a hole.
ToolsArrayValid ==
  \A i \in DOMAIN index.tools :
    /\ index.tools[i].name # Hole
    /\ i < Len(index.tools) => index.tools[i].comma

=============================================================================
