------------------------- MODULE DraftWorkspaceProofs -------------------------
(***************************************************************************)
(* Proofs about DraftWorkspace, for any finite set of users, any number of  *)
(* concurrent requests, any metadata fields and values, and any bound.      *)
(*                                                                         *)
(* A maintainer remains whatever revisions clients quote.  That authority   *)
(* and metadata are never stale when a request commits holds of clients     *)
(* that quote revisions they have seen (MaxAhead = 0): a request that still *)
(* quotes the current revision has read the current role and metadata.      *)
(***************************************************************************)
EXTENDS DraftWorkspace, FiniteSetTheorems, TLAPS

\* What a request has read is still true if its revision comparison can succeed.
RequestInv(q) ==
    q.step # "idle" /\ q.op \in DraftRevisionOps =>
        /\ q.expected <= revision
        /\ q.expected = revision =>
              /\ RoleAllows(role[q.actor], Capability[q.op])
              /\ q.step = "loaded" => q.base = metadata

\* TypeOK is not inductive alone: a Lesson's revision stays within the bound
\* because each of its writes also advances the Draft's.
TypeInv ==
    /\ TypeOK
    /\ lessonRevision <= revision
    /\ \A p \in Requests : req[p].step = "loaded" => req[p].op = "UpdateDraft"

IInv ==
    /\ TypeInv
    /\ \A p \in Requests : RequestInv(req[p])

-----------------------------------------------------------------------------
(* Types *)

\* An idle request slot is well typed.
LEMMA NoRequestType ==
  /\ NoRequest \in [step : {"idle", "authorized", "loaded"}, op : Ops, actor : Users,
                    expected : Nat \ {0}, arg : UNION {Arguments(op) : op \in Ops},
                    base : Metadata]
  /\ NoRequest.step = "idle"
<1>1. "EditContent" \in Ops /\ <<>> \in Arguments("EditContent")
  BY DEF Ops, Arguments
<1>2. <<>> \in UNION {Arguments(op) : op \in Ops}
  BY <1>1
<1>3. InitialMetadata \in Metadata
  BY WorkspaceAssumption DEF InitialMetadata, Metadata
<1>4. QED
  BY <1>1, <1>2, <1>3, WorkspaceAssumption DEF NoRequest

\* CreateDraftForCreator leaves well-typed rows.
LEMMA WorkspaceInit == Init => TypeInv
BY NoRequestType, WorkspaceAssumption
DEF Init, TypeInv, TypeOK, InitialMetadata, Metadata, Roles

\* The arguments of each operation are those its transaction takes apart.
LEMMA ArgumentTypes ==
  ASSUME TypeOK, NEW p \in Requests, req[p].step # "idle"
  PROVE  /\ req[p].op = "UpdateDraft" => req[p].arg \in Fields \X Values
         /\ req[p].op \in {"AddMember", "ChangeRole"} => req[p].arg \in Users \X Roles
         /\ req[p].op = "RevokeMember" => req[p].arg \in Users \X {"NONE"}
<1>1. req[p].arg \in Arguments(req[p].op)
  BY DEF TypeOK
<1>2. QED
  BY <1>1 DEF Arguments

\* A write advances the revision by one within its bound, and ends its request.
LEMMA CommitType ==
  ASSUME TypeOK, NEW p \in Requests, Commit(p)
  PROVE  /\ revision \in Nat
         /\ revision' = revision + 1
         /\ revision' \in 1..MaxRevision
         /\ req'[p] = NoRequest
         /\ \A o \in Requests \ {p} : req'[o] = req[o]
BY WorkspaceAssumption DEF TypeOK, Commit

\* Every step of a request keeps the types.
LEMMA TypeStep == TypeInv /\ [Next]_vars => TypeInv'
<1> SUFFICES ASSUME TypeInv, [Next]_vars PROVE TypeInv'
  OBVIOUS
<1>0. TypeOK /\ lessonRevision <= revision
  BY DEF TypeInv
<1> DEFINE RequestType == [step : {"idle", "authorized", "loaded"}, op : Ops, actor : Users,
                           expected : Nat \ {0}, arg : UNION {Arguments(op) : op \in Ops},
                           base : Metadata]
<1>1. ASSUME NEW p \in Requests, NEW u \in Users, NEW op \in Ops, NEW arg \in Arguments(op),
             NEW expected \in 1..(MaxRevision + MaxAhead), Authorize(p, u, op, arg, expected)
      PROVE  TypeInv'
  <2> DEFINE q == [step |-> "authorized", op |-> op, actor |-> u,
                   expected |-> expected, arg |-> arg, base |-> InitialMetadata]
  <2>1. q \in RequestType
    BY WorkspaceAssumption DEF InitialMetadata, Metadata
  <2>2. q.op = op /\ q.arg = arg
    OBVIOUS
  <2>3. req' = [req EXCEPT ![p] = q]
    BY <1>1 DEF Authorize
  <2>4. q.step = "authorized"
    OBVIOUS
  <2> HIDE DEF q
  <2>5. QED
    BY <1>1, <2>1, <2>2, <2>3, <2>4 DEF Authorize, TypeOK, TypeInv
<1>2. ASSUME NEW p \in Requests, LoadMetadata(p) PROVE TypeInv'
  <2> DEFINE q == [req[p] EXCEPT !.step = "loaded", !.base = metadata]
  <2>1. req[p] \in RequestType /\ metadata \in Metadata
    BY DEF TypeInv, TypeOK
  <2>2. q \in RequestType /\ q.op = req[p].op /\ q.arg = req[p].arg
    BY <2>1
  <2>3. req' = [req EXCEPT ![p] = q]
    BY <1>2 DEF LoadMetadata
  <2>4. req[p].step # "idle" /\ req[p].op = "UpdateDraft"
    BY <1>2 DEF LoadMetadata
  <2> HIDE DEF q
  <2>5. QED
    BY <1>2, <2>2, <2>3, <2>4 DEF LoadMetadata, TypeOK, TypeInv
<1>3. ASSUME NEW p \in Requests, Commit(p),
             status' \in {"ACTIVE", "ABANDONED"},
             metadata' \in Metadata,
             lessonRevision' \in 1..revision',
             role' \in [Users -> Roles \cup {"NONE"}]
      PROVE  TypeInv'
  <2>1. revision' \in 1..MaxRevision /\ lessonRevision' \in 1..MaxRevision
    BY <1>0, <1>3, CommitType, WorkspaceAssumption
  <2>2. lessonRevision' <= revision'
    BY <1>3, <2>1
  <2>3. req' = [req EXCEPT ![p] = NoRequest]
    BY <1>3 DEF Commit
  <2>4. QED
    BY <1>3, <2>1, <2>2, <2>3, NoRequestType DEF TypeOK, TypeInv
<1>4. ASSUME NEW p \in Requests, Write(p) PROVE TypeInv'
  <2>0. /\ Commit(p) => lessonRevision \in 1..revision' /\ lessonRevision + 1 \in 1..revision'
        /\ status \in {"ACTIVE", "ABANDONED"}
        /\ metadata \in Metadata
        /\ role \in [Users -> Roles \cup {"NONE"}]
    <3>1. lessonRevision \in 1..MaxRevision /\ revision \in 1..MaxRevision
      BY <1>0 DEF TypeOK
    <3>2. QED
      BY <1>0, <3>1, CommitType, WorkspaceAssumption DEF TypeOK
  <2>1. CASE UpdateDraft(p)
    <3>1. req[p].base \in Metadata
      BY <1>0 DEF TypeOK
    <3>2. metadata' \in Metadata
      <4>1. req[p].arg \in Fields \X Values
        BY <1>0, <2>1, ArgumentTypes DEF UpdateDraft, TypeInv
      <4>2. QED
        BY <2>1, <3>1, <4>1 DEF UpdateDraft, Metadata
    <3>3. QED
      BY <1>3, <2>0, <2>1, <3>2 DEF UpdateDraft
  <2>2. CASE MutateMember(p)
    <3>1. req[p].arg[2] \in Roles \cup {"NONE"}
      BY <1>0, <2>2, ArgumentTypes DEF MutateMember, MemberOps
    <3>2. QED
      BY <1>3, <2>0, <2>2, <3>1 DEF MutateMember
  <2>3. CASE EditStructure(p)
    BY <1>3, <2>0, <2>3 DEF EditStructure
  <2>4. CASE EditContent(p)
    BY <1>3, <2>0, <2>4 DEF EditContent
  <2>5. CASE AbandonDraft(p)
    BY <1>3, <2>0, <2>5 DEF AbandonDraft
  <2>6. QED
    BY <1>4, <2>1, <2>2, <2>3, <2>4, <2>5 DEF Write
<1>5. ASSUME NEW p \in Requests, EndWithoutWriting(p) PROVE TypeInv'
  BY <1>5, NoRequestType DEF EndWithoutWriting, TypeOK, TypeInv
<1>6. CASE UNCHANGED vars
  BY <1>6 DEF vars, TypeOK, TypeInv
<1>7. QED
  BY <1>1, <1>2, <1>4, <1>5, <1>6 DEF Next

\* Every variable keeps its type.
THEOREM WorkspaceTypeCorrect == Spec => []TypeOK
<1>1. TypeInv => TypeOK
  BY DEF TypeInv
<1>2. QED
  BY <1>1, WorkspaceInit, TypeStep, PTL DEF Spec

-----------------------------------------------------------------------------
(* Maintainers *)

\* A set with more than one element has one besides any given element.
LEMMA AnotherElement ==
  ASSUME NEW S, IsFiniteSet(S), NEW x \in S, Cardinality(S) > 1
  PROVE  \E y \in S : y # x
<1>1. Cardinality(S \ {x}) = Cardinality(S) - 1
  BY FS_RemoveElement
<1>2. Cardinality(S) \in Nat
  BY FS_CardinalityType
<1>3. Cardinality(S \ {x}) # 0
  BY <1>1, <1>2
<1>4. S \ {x} # {}
  BY <1>3, FS_EmptySet
<1>5. QED
  BY <1>4

\* mutateMember, the only step that changes roles, leaves a maintainer.
LEMMA MaintainerStep ==
  ASSUME TypeOK, MaintainerRemains, [Next]_vars
  PROVE  MaintainerRemains'
<1>1. CASE UNCHANGED role
  BY <1>1 DEF MaintainerRemains
<1>2. ASSUME NEW p \in Requests, MutateMember(p) PROVE MaintainerRemains'
  <2> DEFINE target == req[p].arg[1]
             newRole == req[p].arg[2]
  <2>1. target \in Users
    BY <1>2, ArgumentTypes DEF MutateMember, MemberOps
  <2>2. role'[target] = newRole /\ \A u \in Users \ {target} : role'[u] = role[u]
    BY <1>2, <2>1 DEF MutateMember, TypeOK
  <2>3. KeepsAMaintainer(target, newRole)
    BY <1>2 DEF MutateMember, KeepsAMaintainer
  <2>4. CASE newRole = "MAINTAINER"
    BY <2>1, <2>2, <2>4 DEF MaintainerRemains
  <2>5. CASE newRole # "MAINTAINER"
    <3>1. PICK u \in Users : role[u] = "MAINTAINER" /\ u # target
      <4>1. CASE role[target] # "MAINTAINER"
        BY <4>1 DEF MaintainerRemains
      <4>2. CASE role[target] = "MAINTAINER"
        <5>1. IsFiniteSet(Maintainers) /\ target \in Maintainers
          BY <2>1, <4>2, WorkspaceAssumption, FS_Subset DEF Maintainers
        <5>2. Cardinality(Maintainers) > 1
          BY <2>3, <2>5, <4>2 DEF KeepsAMaintainer
        <5>3. QED
          BY <5>1, <5>2, AnotherElement DEF Maintainers
      <4>3. QED
        BY <4>1, <4>2
    <3>2. QED
      BY <2>2, <3>1 DEF MaintainerRemains
  <2>6. QED
    BY <2>4, <2>5
<1>3. QED
  BY <1>1, <1>2 DEF Next, Authorize, LoadMetadata, Write, UpdateDraft, EditStructure,
      EditContent, AbandonDraft, EndWithoutWriting, vars

\* mutateMember never leaves a workspace without a maintainer, whichever
\* membership requests race and whatever revisions they quote.
THEOREM WorkspaceKeepsAMaintainer == Spec => []MaintainerRemains
<1>1. Init => MaintainerRemains
  BY WorkspaceAssumption DEF Init, MaintainerRemains
<1>2. QED
  BY <1>1, MaintainerStep, WorkspaceTypeCorrect, PTL DEF Spec

-----------------------------------------------------------------------------
(* Clients that quote revisions they have seen *)

\* A request's own step, with the Draft unchanged.
LEMMA RequestStep ==
  ASSUME IInv, TypeInv', UNCHANGED <<revision, metadata, role>>,
         NEW p \in Requests, NEW q, RequestInv(q), req' = [req EXCEPT ![p] = q]
  PROVE  IInv'
<1>1. ASSUME NEW o \in Requests PROVE RequestInv(req[o])'
  <2>1. RequestInv(req'[o])
    BY DEF IInv, TypeInv, TypeOK
  <2>2. QED
    BY <2>1 DEF RequestInv
<1>2. QED
  BY <1>1 DEF IInv

\* A write advances the revision, and so makes every other request stale.
LEMMA OthersGoStale ==
  ASSUME IInv, TypeInv', NEW p \in Requests, Commit(p)
  PROVE  IInv'
<1>1. /\ revision \in Nat
      /\ revision' = revision + 1
      /\ req'[p].step = "idle"
      /\ \A o \in Requests \ {p} : req'[o] = req[o]
  BY CommitType, NoRequestType DEF IInv, TypeInv
<1>2. ASSUME NEW o \in Requests PROVE RequestInv(req[o])'
  <2>1. CASE o = p
    BY <1>1, <2>1 DEF RequestInv
  <2>2. CASE o # p
    <3>1. req'[o] = req[o] /\ RequestInv(req[o]) /\ req[o].expected \in Nat
      BY <1>1, <2>2 DEF IInv, TypeInv, TypeOK
    <3>2. req[o].step # "idle" /\ req[o].op \in DraftRevisionOps => req[o].expected < revision'
      BY <1>1, <3>1 DEF RequestInv
    <3>3. QED
      BY <1>1, <3>1, <3>2 DEF RequestInv
  <2>3. QED
    BY <2>1, <2>2
<1>3. QED
  BY <1>2 DEF IInv

\* The inductive invariant is preserved when clients quote only what they saw.
LEMMA NextInv ==
  ASSUME MaxAhead = 0, IInv, [Next]_vars
  PROVE  IInv'
<1>1. TypeInv' /\ TypeOK
  BY TypeStep DEF IInv, TypeInv
<1>2. ASSUME NEW p \in Requests, NEW u \in Users, NEW op \in Ops, NEW arg \in Arguments(op),
             NEW expected \in 1..(MaxRevision + MaxAhead), Authorize(p, u, op, arg, expected)
      PROVE  IInv'
  <2> DEFINE q == [step |-> "authorized", op |-> op, actor |-> u,
                   expected |-> expected, arg |-> arg, base |-> InitialMetadata]
  <2>1. revision \in Nat
    BY <1>1, WorkspaceAssumption DEF TypeOK
  <2>2. op \in DraftRevisionOps => op # "EditContent"
    BY DEF DraftRevisionOps, MemberOps
  <2>3. RequestInv(q)
    BY <1>2, <2>1, <2>2 DEF Authorize, RequestInv
  <2>4. QED
    BY <1>1, <1>2, <2>3, RequestStep DEF Authorize
<1>3. ASSUME NEW p \in Requests, LoadMetadata(p) PROVE IInv'
  <2> DEFINE q == [req[p] EXCEPT !.step = "loaded", !.base = metadata]
  <2>1. /\ q.step = "loaded" /\ q.base = metadata
        /\ q.op = req[p].op /\ q.expected = req[p].expected /\ q.actor = req[p].actor
    BY <1>1 DEF TypeOK
  <2>2. RequestInv(req[p]) /\ req[p].step # "idle"
    BY <1>3 DEF IInv, LoadMetadata
  <2>3. req' = [req EXCEPT ![p] = q]
    BY <1>3 DEF LoadMetadata
  <2> HIDE DEF q
  <2>4. RequestInv(q)
    BY <2>1, <2>2 DEF RequestInv
  <2>5. QED
    BY <1>1, <1>3, <2>3, <2>4, RequestStep DEF LoadMetadata
<1>4. ASSUME NEW p \in Requests, Write(p) PROVE IInv'
  <2>1. Commit(p)
    BY <1>4 DEF Write, UpdateDraft, MutateMember, EditStructure, EditContent, AbandonDraft
  <2>2. QED
    BY <1>1, <2>1, OthersGoStale
<1>5. ASSUME NEW p \in Requests, EndWithoutWriting(p) PROVE IInv'
  <2>1. RequestInv(NoRequest)
    BY NoRequestType DEF RequestInv
  <2>2. QED
    BY <1>1, <1>5, <2>1, RequestStep DEF EndWithoutWriting
<1>6. CASE UNCHANGED vars
  BY <1>1, <1>6 DEF vars, IInv, RequestInv
<1>7. QED
  BY <1>2, <1>3, <1>4, <1>5, <1>6 DEF Next

\* The inductive invariant holds in every reachable state.
LEMMA Inductive == ASSUME MaxAhead = 0 PROVE Spec => []IInv
<1>1. Init => IInv
  BY WorkspaceInit, NoRequestType DEF Init, IInv, RequestInv
<1>2. IInv /\ [Next]_vars => IInv'
  BY NextInv
<1>3. QED
  BY <1>1, <1>2, PTL DEF Spec

\* The request that a step writes for is the one whose Write it takes.
LEMMA WriterWrites ==
  ASSUME IInv, [Next]_vars, NEW p \in Requests, Writes(p)
  PROVE  Write(p)
<1>1. PICK o \in Requests : Write(o)
  BY DEF Writes, Next, Authorize, LoadMetadata, EndWithoutWriting, vars
<1>2. Commit(o)
  BY <1>1 DEF Write, UpdateDraft, MutateMember, EditStructure, EditContent, AbandonDraft
<1>3. o = p
  BY <1>2, CommitType DEF Writes, IInv, TypeInv
<1>4. QED
  BY <1>1, <1>3

\* An effective write that compares the Draft revision commits only with the
\* authority its actor holds at that moment: AuthorizationService reads the
\* role before the transaction, but no membership can change in between
\* without making the quoted revision stale.
THEOREM AuthorityIsCurrent == ASSUME MaxAhead = 0 PROVE Spec => NoStaleAuthority
<1>1. IInv /\ [Next]_vars =>
         \A p \in Requests : Writes(p) /\ req[p].op \in DraftRevisionOps =>
             RoleAllows(role[req[p].actor], Capability[req[p].op])
  <2> SUFFICES ASSUME IInv, [Next]_vars, NEW p \in Requests, Writes(p),
                      req[p].op \in DraftRevisionOps
               PROVE  RoleAllows(role[req[p].actor], Capability[req[p].op])
    OBVIOUS
  <2>1. Write(p)
    BY WriterWrites
  <2>2. ~EditContent(p)
    BY DEF EditContent, DraftRevisionOps, MemberOps
  <2>3. req[p].expected = revision /\ req[p].step # "idle"
    BY <2>1, <2>2 DEF Write, UpdateDraft, MutateMember, EditStructure, AbandonDraft,
        ExpectedDraftRevision
  <2>4. QED
    BY <2>3 DEF IInv, RequestInv
<1>2. QED
  BY <1>1, Inductive, PTL DEF Spec, NoStaleAuthority

\* A request about to write back composed metadata has composed the current one.
LEMMA BaseIsCurrent ==
  ASSUME IInv, NEW p \in Requests, UpdateDraft(p)
  PROVE  /\ req[p].op = "UpdateDraft"
         /\ RoleAllows(role[req[p].actor], "draft.edit")
         /\ req[p].arg[1] \in Fields /\ req[p].arg[2] \in Values
         /\ metadata' = [metadata EXCEPT ![req[p].arg[1]] = req[p].arg[2]]
<1>1. req[p].step = "loaded" /\ req[p].op = "UpdateDraft" /\ req[p].expected = revision
  BY DEF UpdateDraft, ExpectedDraftRevision, IInv, TypeInv
<1>2. req[p].op \in DraftRevisionOps /\ Capability[req[p].op] = "draft.edit"
  BY <1>1 DEF DraftRevisionOps, Capability, Ops, MemberOps
<1>3. req[p].base = metadata /\ RoleAllows(role[req[p].actor], "draft.edit")
  BY <1>1, <1>2 DEF IInv, RequestInv
<1>4. req[p].arg \in Fields \X Values
  BY <1>1, ArgumentTypes DEF IInv, TypeInv
<1>5. QED
  BY <1>1, <1>3, <1>4 DEF UpdateDraft

\* A metadata PATCH leaves the fields it does not name alone, although
\* DraftMutationService.UpdateDraft composes it from an earlier read.
THEOREM PatchesKeepOtherFields == ASSUME MaxAhead = 0 PROVE Spec => PatchKeepsOtherFields
<1>1. IInv /\ [Next]_vars =>
         \A p \in Requests : Writes(p) /\ req[p].op = "UpdateDraft" =>
             \A f \in Fields \ {req[p].arg[1]} : metadata'[f] = metadata[f]
  <2> SUFFICES ASSUME IInv, [Next]_vars, NEW p \in Requests, Writes(p),
                      req[p].op = "UpdateDraft",
                      NEW f \in Fields \ {req[p].arg[1]}
               PROVE  metadata'[f] = metadata[f]
    OBVIOUS
  <2>1. UpdateDraft(p)
    BY WriterWrites DEF Write, MutateMember, EditStructure, EditContent, AbandonDraft, MemberOps
  <2>2. QED
    BY <2>1, BaseIsCurrent DEF IInv, TypeInv, TypeOK, Metadata
<1>2. QED
  BY <1>1, Inductive, PTL DEF Spec, PatchKeepsOtherFields

-----------------------------------------------------------------------------
(* The contract *)

\* Only a maintainer holds the two capabilities that authors lack.
LEMMA MaintainerCapabilities ==
  ASSUME NEW u \in Users, NEW capability
  PROVE  /\ RoleAllows(role[u], capability) => role[u] \in Roles
         /\ RoleAllows(role[u], "members.manage") => role[u] = "MAINTAINER"
         /\ RoleAllows(role[u], "draft.abandon") => role[u] = "MAINTAINER"
BY DEF RoleAllows, AuthorCapabilities, Roles

\* A write that compares the Draft revision commits with current authority.
LEMMA CurrentAuthority ==
  ASSUME IInv, NEW p \in Requests, req[p].step # "idle", req[p].op \in DraftRevisionOps,
         ExpectedDraftRevision(p)
  PROVE  req[p].actor \in Users /\ RoleAllows(role[req[p].actor], Capability[req[p].op])
BY DEF ExpectedDraftRevision, IInv, RequestInv, TypeInv, TypeOK

\* A metadata PATCH is one PatchMetadata step of the contract.
LEMMA UpdateRefines ==
  ASSUME IInv, NEW p \in Requests, UpdateDraft(p)
  PROVE  Contract!PatchMetadata
<1>1. req[p].actor \in Users
  BY DEF IInv, TypeInv, TypeOK
<1>2. role[req[p].actor] # "NONE"
  BY <1>1, BaseIsCurrent, MaintainerCapabilities DEF Roles
<1>3. PICK f \in Fields, v \in Values : metadata' = [metadata EXCEPT ![f] = v]
  BY BaseIsCurrent
<1>4. QED
  BY <1>1, <1>2, <1>3 DEF UpdateDraft, Contract!PatchMetadata

\* A membership request is one ManageMembers step of the contract.
LEMMA MutateRefines ==
  ASSUME IInv, NEW p \in Requests, MutateMember(p), MaintainerRemains'
  PROVE  Contract!ManageMembers
<1> DEFINE target == req[p].arg[1]
           newRole == req[p].arg[2]
<1>1. req[p].op \in DraftRevisionOps /\ Capability[req[p].op] = "members.manage"
  BY DEF MutateMember, DraftRevisionOps, Capability, Ops, MemberOps
<1>2. req[p].actor \in Users /\ role[req[p].actor] = "MAINTAINER"
  BY <1>1, CurrentAuthority, MaintainerCapabilities DEF MutateMember
<1>3. target \in Users /\ newRole \in {"AUTHOR", "MAINTAINER", "NONE"}
  BY ArgumentTypes DEF MutateMember, MemberOps, IInv, TypeInv, Roles
<1>4. newRole # role[target]
  <2>1. CASE req[p].op = "AddMember"
    BY <2>1, ArgumentTypes DEF MutateMember, IInv, TypeInv, Roles
  <2>2. CASE req[p].op # "AddMember"
    BY <2>2 DEF MutateMember
  <2>3. QED
    BY <2>1, <2>2
<1>5. role' = [role EXCEPT ![target] = newRole]
  BY DEF MutateMember
<1>6. QED
  BY <1>2, <1>3, <1>4, <1>5 DEF MutateMember, Contract!ManageMembers, MaintainerRemains

\* Abandonment is one Abandon step of the contract.
LEMMA AbandonRefines ==
  ASSUME IInv, NEW p \in Requests, AbandonDraft(p)
  PROVE  Contract!Abandon
<1>1. req[p].op \in DraftRevisionOps /\ Capability[req[p].op] = "draft.abandon"
  BY DEF AbandonDraft, DraftRevisionOps, Capability, Ops, MemberOps
<1>2. req[p].actor \in Users /\ role[req[p].actor] = "MAINTAINER"
  BY <1>1, CurrentAuthority, MaintainerCapabilities DEF AbandonDraft
<1>3. QED
  BY <1>2 DEF AbandonDraft, Contract!Abandon

\* Racing requests, each of which reads in one transaction and writes in
\* another, implement atomic writes by members who hold the capability.
THEOREM WorkspaceRefinement == ASSUME MaxAhead = 0 PROVE Spec => ImplementsContract
<1>1. Init => Contract!Init
  BY DEF Init, Contract!Init, InitialMetadata
<1>2. IInv /\ MaintainerRemains' /\ [Next]_vars => [Contract!Next]_Contract!vars
  <2> SUFFICES ASSUME IInv, MaintainerRemains', [Next]_vars
               PROVE  [Contract!Next]_Contract!vars
    OBVIOUS
  <2>1. CASE UNCHANGED <<status, revision, metadata, role>>
    BY <2>1 DEF Contract!vars
  <2>2. ASSUME NEW p \in Requests, Write(p) PROVE Contract!Next
    <3>1. status = "ACTIVE" /\ revision' = revision + 1
      BY <2>2 DEF Write, UpdateDraft, MutateMember, EditStructure, EditContent, AbandonDraft,
          Commit
    <3>2. CASE UpdateDraft(p)
      BY <3>1, <3>2, UpdateRefines DEF Contract!Next
    <3>3. CASE MutateMember(p)
      BY <3>1, <3>3, MutateRefines DEF Contract!Next
    <3>4. CASE EditStructure(p) \/ EditContent(p)
      BY <3>1, <3>4 DEF EditStructure, EditContent, Contract!Next, Contract!EditCourse
    <3>5. CASE AbandonDraft(p)
      BY <3>1, <3>5, AbandonRefines DEF Contract!Next
    <3>6. QED
      BY <2>2, <3>2, <3>3, <3>4, <3>5 DEF Write
  <2>3. QED
    BY <2>1, <2>2 DEF Next, Authorize, LoadMetadata, EndWithoutWriting, vars
<1>3. QED
  BY <1>1, <1>2, Inductive, WorkspaceKeepsAMaintainer, PTL
  DEF Spec, ImplementsContract, Contract!Spec

=============================================================================
