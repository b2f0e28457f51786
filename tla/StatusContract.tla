----------------------------- MODULE StatusContract -----------------------------
(***************************************************************************)
(* What the public status of badges promises, without requests, revisions   *)
(* or signed documents: a status list is either unavailable or shows, for   *)
(* every badge placed in it, whether its certificate is revoked.            *)
(***************************************************************************)
EXTENDS Naturals

CONSTANTS Certificates, Lists, Capacity, None

VARIABLES
    revoked,  \* revoked certificates
    entry,    \* the position of each certificate that has one
    visible   \* the bitstrings that may be served for a list: one, or none

vars == <<revoked, entry, visible>>

Placed(l) == {c \in Certificates : entry[c] # None /\ entry[c].list = l}

\* The bits that are set when the list shows the truth.
Truth(l) == {entry[c].index : c \in Placed(l) \cap revoked}

Unavailable == {}

Init ==
    /\ revoked = {}
    /\ entry = [c \in Certificates |-> None]
    /\ visible = [l \in Lists |-> Unavailable]

\* A certificate gets a position of its own, for good.
Allocate ==
    /\ \E c \in Certificates, l \in Lists, i \in 0..(Capacity - 1) :
          /\ entry[c] = None
          /\ \A d \in Placed(l) : entry[d].index # i
          /\ entry' = [entry EXCEPT ![c] = [list |-> l, index |-> i]]
          /\ visible' = [visible EXCEPT ![l] = Unavailable]
    /\ UNCHANGED revoked

\* A revocation takes the list that shows the badge as valid out of service.
Revoke ==
    /\ \E c \in Certificates \ revoked :
          /\ entry[c] # None
          /\ revoked' = revoked \cup {c}
          /\ visible' = [visible EXCEPT ![entry[c].list] = Unavailable]
    /\ UNCHANGED entry

Publish ==
    /\ \E l \in Lists :
          /\ visible[l] = Unavailable
          /\ visible' = [visible EXCEPT ![l] = {Truth(l)}]
    /\ UNCHANGED <<revoked, entry>>

Next == Allocate \/ Revoke \/ Publish

Spec == Init /\ [][Next]_vars

=============================================================================
