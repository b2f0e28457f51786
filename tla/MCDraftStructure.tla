--------------------------- MODULE MCDraftStructure ---------------------------
(* DraftStructure on a small instance.                                      *)
EXTENDS DraftStructure, TLC

\* The identifiers carry no order.
Interchangeable == Permutations(Modules) \cup Permutations(Lessons)

=============================================================================
