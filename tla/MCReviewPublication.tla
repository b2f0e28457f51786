-------------------------- MODULE MCReviewPublication --------------------------
(* ReviewPublication on a small instance.                                   *)
EXTENDS ReviewPublication, TLC

\* Identifiers of Reviews, and slots of requests, are interchangeable.
Interchangeable == Permutations(Requests) \cup Permutations(Reviews)

=============================================================================
