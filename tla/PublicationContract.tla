-------------------------- MODULE PublicationContract --------------------------
(***************************************************************************)
(* What review and publication promise to the readers of a Course, with no  *)
(* requests and no databases: each Review goes through its stages once, in  *)
(* order, and a semantic version belongs to one approved Review for ever.   *)
(***************************************************************************)
CONSTANTS Reviews, Targets, None

VARIABLES
    stage,   \* how far each Review has come
    target   \* the semantic version each submitted Review has frozen

vars == <<stage, target>>

Init ==
    /\ stage = [r \in Reviews |-> "NONE"]
    /\ target = [r \in Reviews |-> None]

Advance(r, from, to) ==
    /\ stage[r] = from
    /\ stage' = [stage EXCEPT ![r] = to]

\* One Review of the Draft is open at a time.
Submit(r) ==
    /\ \A s \in Reviews : stage[s] # "IN_REVIEW"
    /\ Advance(r, "NONE", "IN_REVIEW")
    /\ \E t \in Targets : target' = [target EXCEPT ![r] = t]

Decide(r) ==
    /\ Advance(r, "IN_REVIEW", "APPROVED") \/ Advance(r, "IN_REVIEW", "CHANGES_REQUESTED")
    /\ UNCHANGED target

\* The version becomes readable: its number is claimed.
Claim(r) ==
    /\ \A s \in Reviews :
          stage[s] \in {"VERSIONED", "PUBLISHED"} => target[s] # target[r]
    /\ Advance(r, "APPROVED", "VERSIONED")
    /\ UNCHANGED target

\* The authors' side learns of the version.
Record(r) ==
    /\ Advance(r, "VERSIONED", "PUBLISHED")
    /\ UNCHANGED target

Next == \E r \in Reviews : Submit(r) \/ Decide(r) \/ Claim(r) \/ Record(r)

Spec == Init /\ [][Next]_vars

=============================================================================
