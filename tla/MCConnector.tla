----------------------------- MODULE MCConnector -----------------------------
(***************************************************************************)
(* Two files and two overlapping syncs of one connection, in three         *)
(* environments: the process or a statement fails, items fail, the source  *)
(* fails.                                                                  *)
(***************************************************************************)
EXTENDS Connector, TLC
CONSTANTS f1, f2, s1, s2
MCFiles == {f1, f2}
MCOneFile == {f1}
MCSyncs == {s1, s2}
MCOneSync == {s1}
MCSettings == {{"crash", "dbError", "sourceError"}, {"itemError", "sourceError"}}
MCNoFaults == {{}}
Symmetry == Permutations(Files) \cup Permutations(Syncs)
=============================================================================
