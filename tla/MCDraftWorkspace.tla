--------------------------- MODULE MCDraftWorkspace ---------------------------
(* DraftWorkspace on a small instance.                                      *)
EXTENDS DraftWorkspace, TLC

\* Slots of requests are interchangeable.
Interchangeable == Permutations(Requests)

=============================================================================
