---------------------------- MODULE MCDocuments ----------------------------
(***************************************************************************)
(* One document (documents share nothing but the list of a backfill        *)
(* request) of no chunk, of one, or of one more than the embedding limit;  *)
(* three attempts. Users archive, restore and backfill while files are     *)
(* unreadable; or one thing goes wrong, or everything, and nobody restores.*)
(***************************************************************************)
EXTENDS Documents, TLC

CONSTANTS d1, a, b

MCDocs == {d1}
MCParts == {a, b}
MCTexts == {{}, {a}, {a, b}}
MCSettings == {{"unreadable", "archive", "restore", "backfill"},
               {"noVector", "archive", "backfill"},
               {"lostAck", "archive", "backfill"},
               DocumentFaults \cup {"archive", "backfill"}}
MCRestore == {{"unreadable", "restore"}}
=============================================================================
