----------------------------- MODULE MCSelection -----------------------------
(* Selection where a book may have no spread and no total. *)
EXTENDS Selection
INSTANCE SelectionCases
=============================================================================
