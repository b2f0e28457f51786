--------------------------- MODULE WorkspaceContract ---------------------------
(***************************************************************************)
(* What a Draft workspace promises, with no requests in flight: each write  *)
(* is one atomic step, taken by a member who holds the capability at that   *)
(* moment, on an ACTIVE Draft, advancing its revision by exactly one.       *)
(***************************************************************************)
EXTENDS Naturals

CONSTANTS Users, Creator, Fields, Values, InitialValue

VARIABLES status, revision, metadata, role

vars == <<status, revision, metadata, role>>

Init ==
    /\ status = "ACTIVE"
    /\ revision = 1
    /\ metadata = [f \in Fields |-> InitialValue]
    /\ role = [u \in Users |-> IF u = Creator THEN "MAINTAINER" ELSE "NONE"]

\* The maintainers decide who is a member, and one of them always remains.
ManageMembers ==
    /\ \E u \in Users : role[u] = "MAINTAINER"
    /\ \E t \in Users, r \in {"AUTHOR", "MAINTAINER", "NONE"} :
          r # role[t] /\ role' = [role EXCEPT ![t] = r]
    /\ \E u \in Users : role'[u] = "MAINTAINER"
    /\ UNCHANGED <<status, metadata>>

\* A member changes one metadata field.
PatchMetadata ==
    /\ \E u \in Users : role[u] # "NONE"
    /\ \E f \in Fields, v \in Values : metadata' = [metadata EXCEPT ![f] = v]
    /\ UNCHANGED <<status, role>>

\* Modules, Lessons or content change; none of it is visible here.
EditCourse == UNCHANGED <<status, metadata, role>>

Abandon ==
    /\ \E u \in Users : role[u] = "MAINTAINER"
    /\ status' = "ABANDONED"
    /\ UNCHANGED <<metadata, role>>

Next ==
    /\ status = "ACTIVE"
    /\ revision' = revision + 1
    /\ ManageMembers \/ PatchMetadata \/ EditCourse \/ Abandon

Spec == Init /\ [][Next]_vars

=============================================================================
