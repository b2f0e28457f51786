---------------------------- MODULE DraftWorkspace ----------------------------
(***************************************************************************)
(* One authoring Draft and its workspace membership, written by HTTP        *)
(* requests that run concurrently against one PostgreSQL database.          *)
(*                                                                         *)
(* A request first reads the actor's current role (authorization), then,    *)
(* in a transaction of its own, locks the Draft row, compares the revision  *)
(* the client quoted, and writes.  Nothing is held between the two, so a    *)
(* role can be revoked, or a field rewritten, in the gap.  The revision is  *)
(* what makes the gap harmless: every write advances it.                    *)
(***************************************************************************)
EXTENDS Naturals, FiniteSets

CONSTANTS
    Users,        \* opaque Identity user IDs
    Creator,      \* the user who created the Draft
    Requests,     \* slots for requests in flight
    Fields,       \* the metadata fields a PATCH may carry
    Values,       \* what a field may hold
    InitialValue,
    MaxRevision,  \* bound: the Draft is written at most MaxRevision - 1 times
    MaxAhead      \* how far past the revision it has seen a client may quote

ASSUME WorkspaceAssumption ==
    /\ IsFiniteSet(Users)
    /\ Creator \in Users
    /\ InitialValue \in Values
    /\ MaxRevision \in Nat \ {0}
    /\ MaxAhead \in Nat

VARIABLES
    status,          \* ACTIVE or ABANDONED
    revision,        \* the Draft's optimistic-concurrency token
    metadata,        \* the Draft's metadata, field by field
    lessonRevision,  \* the token of one Lesson of the Draft
    role,            \* each user's active membership
    req              \* the requests in flight

vars == <<status, revision, metadata, lessonRevision, role, req>>

-----------------------------------------------------------------------------
Roles == {"AUTHOR", "MAINTAINER"}

AuthorCapabilities == {"draft.edit", "structure.edit", "content.edit"}

RoleAllows(r, capability) ==
    \/ r = "MAINTAINER"
    \/ r = "AUTHOR" /\ capability \in AuthorCapabilities

MemberOps == {"AddMember", "ChangeRole", "RevokeMember"}

\* The operations whose expected revision is the Draft's own.
DraftRevisionOps == MemberOps \cup {"UpdateDraft", "EditStructure", "AbandonDraft"}

Ops == DraftRevisionOps \cup {"EditContent"}

Capability == [op \in Ops |->
    CASE op \in MemberOps       -> "members.manage"
      [] op = "UpdateDraft"     -> "draft.edit"
      [] op = "EditStructure"   -> "structure.edit"
      [] op = "EditContent"     -> "content.edit"
      [] op = "AbandonDraft"    -> "draft.abandon"]

\* What a request carries besides its expected revision.  Revoking a member
\* leaves the user no active role.
Arguments(op) ==
    CASE op \in {"AddMember", "ChangeRole"} -> Users \X Roles
      [] op = "RevokeMember"                -> Users \X {"NONE"}
      [] op = "UpdateDraft"                 -> Fields \X Values
      [] OTHER                              -> {<<>>}

Metadata == [Fields -> Values]

InitialMetadata == [f \in Fields |-> InitialValue]

NoRequest == [step |-> "idle", op |-> "EditContent", actor |-> Creator,
              expected |-> 1, arg |-> <<>>, base |-> InitialMetadata]

\* CreateDraftForCreator: Draft, workspace and the creator's MAINTAINER row
\* are one transaction.  Revisions are counted from the moment the creator has
\* added one Lesson.
Init ==
    /\ status = "ACTIVE"
    /\ revision = 1
    /\ metadata = InitialMetadata
    /\ lessonRevision = 1
    /\ role = [u \in Users |-> IF u = Creator THEN "MAINTAINER" ELSE "NONE"]
    /\ req = [p \in Requests |-> NoRequest]

-----------------------------------------------------------------------------
\* AuthorizationService.Authorize, the first thing every handler does.  A
\* denied request answers 404 and changes nothing, so only a granted one is
\* a step.  The client quotes a revision it has seen, or, when MaxAhead > 0,
\* one that it expects a write of its own, still in flight, to produce.
Authorize(p, u, op, arg, expected) ==
    /\ req[p].step = "idle"
    /\ RoleAllows(role[u], Capability[op])
    /\ LET seen == IF op = "EditContent" THEN lessonRevision ELSE revision
       IN  expected <= seen + MaxAhead
    /\ req' = [req EXCEPT ![p] =
                 [step |-> "authorized", op |-> op, actor |-> u,
                  expected |-> expected, arg |-> arg, base |-> InitialMetadata]]
    /\ UNCHANGED <<status, revision, metadata, lessonRevision, role>>

\* DraftMutationService.UpdateDraft reads the Draft before it composes the
\* complete metadata value the repository will write.
LoadMetadata(p) ==
    /\ req[p].step = "authorized"
    /\ req[p].op = "UpdateDraft"
    /\ req' = [req EXCEPT ![p] = [@ EXCEPT !.step = "loaded", !.base = metadata]]
    /\ UNCHANGED <<status, revision, metadata, lessonRevision, role>>

\* Mutant of Commit: an abandoned Draft still accepts writes.
CommitOnAnyStatus(p) ==
    /\ revision < MaxRevision
    /\ revision' = revision + 1
    /\ req' = [req EXCEPT ![p] = NoRequest]

\* Every write is one transaction: it holds the Draft row, requires the Draft
\* to be ACTIVE and advances its revision by one.
Commit(p) ==
    /\ status = "ACTIVE"
    /\ revision < MaxRevision
    /\ revision' = revision + 1
    /\ req' = [req EXCEPT ![p] = NoRequest]

\* Mutant of ExpectedDraftRevision: an older revision is accepted too.
StaleDraftRevision(p) == req[p].expected <= revision

ExpectedDraftRevision(p) == req[p].expected = revision

UpdateDraft(p) ==
    /\ req[p].step = "loaded"
    /\ ExpectedDraftRevision(p)
    /\ Commit(p)
    /\ metadata' = [req[p].base EXCEPT ![req[p].arg[1]] = req[p].arg[2]]
    /\ UNCHANGED <<status, lessonRevision, role>>

Maintainers == {u \in Users : role[u] = "MAINTAINER"}

\* Mutant of KeepsAMaintainer: off by one.
KeepsTheTarget(target, newRole) ==
    role[target] = "MAINTAINER" /\ newRole # "MAINTAINER" => Cardinality(Maintainers) >= 1

\* A step that takes the MAINTAINER role away needs a second maintainer.
KeepsAMaintainer(target, newRole) ==
    role[target] = "MAINTAINER" /\ newRole # "MAINTAINER" => Cardinality(Maintainers) > 1

\* mutateMember, the three membership operations.
MutateMember(p) ==
    LET target  == req[p].arg[1]
        newRole == req[p].arg[2]
    IN  /\ req[p].step = "authorized"
        /\ req[p].op \in MemberOps
        /\ \/ req[p].op = "AddMember" /\ role[target] = "NONE"
           \/ /\ req[p].op # "AddMember"
              /\ role[target] # "NONE"
              /\ role[target] # newRole
              /\ KeepsAMaintainer(target, newRole)
        /\ ExpectedDraftRevision(p)
        /\ Commit(p)
        /\ role' = [role EXCEPT ![target] = newRole]
        /\ UNCHANGED <<status, metadata, lessonRevision>>

\* A structural edit that quotes the Draft revision (CreateModuleAtPosition
\* stands for them); its effect on the structure is in DraftStructure.
EditStructure(p) ==
    /\ req[p].step = "authorized"
    /\ req[p].op = "EditStructure"
    /\ ExpectedDraftRevision(p)
    /\ Commit(p)
    /\ UNCHANGED <<status, metadata, lessonRevision, role>>

\* ReplaceLessonContentForDraft compares the Lesson's revision, not the
\* Draft's, and advances both.
EditContent(p) ==
    /\ req[p].step = "authorized"
    /\ req[p].op = "EditContent"
    /\ req[p].expected = lessonRevision
    /\ Commit(p)
    /\ lessonRevision' = lessonRevision + 1
    /\ UNCHANGED <<status, metadata, role>>

AbandonDraft(p) ==
    /\ req[p].step = "authorized"
    /\ req[p].op = "AbandonDraft"
    /\ ExpectedDraftRevision(p)
    /\ Commit(p)
    /\ status' = "ABANDONED"
    /\ UNCHANGED <<metadata, lessonRevision, role>>

\* A request that ends without writing: refused by one of the guards above,
\* cancelled by its client, failed by the database, or lost in a restart.
EndWithoutWriting(p) ==
    /\ req[p].step # "idle"
    /\ req' = [req EXCEPT ![p] = NoRequest]
    /\ UNCHANGED <<status, revision, metadata, lessonRevision, role>>

-----------------------------------------------------------------------------
Write(p) ==
    \/ UpdateDraft(p)
    \/ MutateMember(p)
    \/ EditStructure(p)
    \/ EditContent(p)
    \/ AbandonDraft(p)

Next ==
    \E p \in Requests :
        \/ \E u \in Users, op \in Ops :
               \E arg \in Arguments(op), expected \in 1..(MaxRevision + MaxAhead) :
                   Authorize(p, u, op, arg, expected)
        \/ LoadMetadata(p)
        \/ Write(p)
        \/ EndWithoutWriting(p)

Spec == Init /\ [][Next]_vars

-----------------------------------------------------------------------------
(* Properties *)

\* Every variable has its type; a request that is under way carries the
\* arguments of its operation.
TypeOK ==
    /\ status \in {"ACTIVE", "ABANDONED"}
    /\ revision \in 1..MaxRevision
    /\ metadata \in Metadata
    /\ lessonRevision \in 1..MaxRevision
    /\ role \in [Users -> Roles \cup {"NONE"}]
    /\ req \in [Requests -> [step : {"idle", "authorized", "loaded"}, op : Ops,
                             actor : Users, expected : Nat \ {0},
                             arg : UNION {Arguments(op) : op \in Ops},
                             base : Metadata]]
    /\ \A p \in Requests :
          req[p].step # "idle" => req[p].arg \in Arguments(req[p].op)

\* The workspace never loses its last maintainer, whatever membership
\* requests run concurrently (mutateMember counts under the Draft lock).
MaintainerRemains == \E u \in Users : role[u] = "MAINTAINER"

\* p's request is the one that writes in this step.
Writes(p) == req[p].step # "idle" /\ req'[p].step = "idle" /\ revision' # revision

\* Authority is read before the transaction, but a write that quotes the
\* Draft revision still commits only if its actor holds the capability at
\* that moment: every membership change advances the revision, which makes
\* the requests authorized before it stale.
NoStaleAuthority ==
    [][\A p \in Requests :
          Writes(p) /\ req[p].op \in DraftRevisionOps =>
              RoleAllows(role[req[p].actor], Capability[req[p].op])]_vars

\* A metadata PATCH changes the field it names and no other, although it
\* writes back the complete value that it composed from an earlier read.
PatchKeepsOtherFields ==
    [][\A p \in Requests :
          Writes(p) /\ req[p].op = "UpdateDraft" =>
              \A f \in Fields \ {req[p].arg[1]} : metadata'[f] = metadata[f]]_vars

Contract == INSTANCE WorkspaceContract

\* The concurrent workspace implements the atomic one: each write is a single
\* step, taken by a member who holds the capability at that moment.
ImplementsContract == Contract!Spec

=============================================================================
