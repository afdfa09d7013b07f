------------------------ MODULE MC_ApplyChunkUpdates ------------------------
(* Model-checking instance of ApplyChunkUpdates: the index.js the script  *)
(* was written for, in two layouts of its tools array, run three times.   *)
EXTENDS ApplyChunkUpdates

Tool(n) == [name |-> n, comma |-> TRUE]

\* index.js before issue #113: both handlers and both schemas in the form
\* the patterns spell out, and the get_note_links tool followed by another.
Pre113 ==
  [getNoteCase |-> "plain", searchSetLine |-> TRUE, chainParams |-> 0,
   linksCase |-> TRUE, chainCases |-> 0, getNoteTool |-> "plain",
   searchTool |-> "plain",
   tools |-> <<Tool("search_notes"), Tool("get_note"),
               Tool("get_note_links"), Tool("list_tags")>>]

\* The same file with get_note_links as the last tool of the array.
Pre113LinksLast ==
  [Pre113 EXCEPT !.tools = <<Tool("search_notes"), Tool("get_note"),
                             Tool("get_note_links")>>]

MCOriginals == {Pre113, Pre113LinksLast}

MCToolNames ==
  {"search_notes", "get_note", "get_note_links", "list_tags",
   "get_document_chain"}
=============================================================================
