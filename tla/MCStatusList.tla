----------------------------- MODULE MCStatusList -----------------------------
(* StatusList on a small instance.                                          *)
EXTENDS StatusList, TLC

\* Identifiers carry no order.
Interchangeable ==
    Permutations(Requests) \cup Permutations(Certificates) \cup Permutations(Lists)

=============================================================================
