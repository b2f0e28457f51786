------------------------------- MODULE StatusList -------------------------------
(***************************************************************************)
(* Signed Open Badges and the revocation of the certificates behind them.   *)
(*                                                                         *)
(* A badge is signed once and refers to a position in a status list; the    *)
(* list is signed again whenever something in it changes.  Signing cannot   *)
(* share a transaction with the revocation, so the list carries a lifecycle *)
(* revision that database triggers advance: a snapshot of another revision  *)
(* is not served, and the request that finds none publishes one.            *)
(*                                                                         *)
(* Publication and revocation both hold the row of the list until they      *)
(* commit; the two steps of each are modelled, with what they have read.    *)
(***************************************************************************)
EXTENDS Naturals, FiniteSets

CONSTANTS
    Certificates,  \* identifiers of issued certificates
    Lists,         \* identifiers of status lists
    Capacity,      \* positions in a list
    Requests,      \* slots for requests in flight
    None           \* no list, entry, snapshot, badge or certificate

Indexes == 0..(Capacity - 1)

Entry == [list : Lists, index : Indexes]

\* A list: how many positions are reserved, and its lifecycle revision.
ListRow == [reserved : 0..Capacity, revision : Nat]

\* A signed list: the bits that are set, at a revision.
Snapshot == [revision : Nat, revoked : SUBSET Indexes]

\* A signed badge; signer tells two signatures of one certificate apart.
Badge == [entry : Entry, signer : Requests]

ASSUME StatusAssumption ==
    /\ IsFiniteSet(Certificates)
    /\ Capacity \in Nat \ {0}
    /\ None \notin Certificates \cup Lists \cup Entry \cup Snapshot \cup Badge \cup ListRow

VARIABLES
    status,     \* credentials.certificate.status
    list,       \* open_badges.status_list: positions reserved, lifecycle revision
    entry,      \* open_badges.status_list_entry
    published,  \* open_badges.published_status_list
    badge,      \* open_badges.signed_credential
    req         \* the requests in flight

tables == <<status, list, entry, published, badge>>

vars == <<status, list, entry, published, badge, req>>

-----------------------------------------------------------------------------
Revoked == {c \in Certificates : status[c] = "REVOKED"}

PlacedIn(l) == {c \in Certificates : entry[c] # None /\ entry[c].list = l}

\* BuildEncodedList: one bit for each entry of the list.
EncodedList(l) == {entry[c].index : c \in PlacedIn(l) \cap Revoked}

\* then is what follows the reading of the list; known is history: what was
\* revoked when the request began the reading that it answers with.
Request ==
    [step  : {"idle", "ensure", "read", "publish", "build", "revoke", "revoking",
              "load", "save", "answered"},
     op    : {"status", "credential", "revoke"},
     cert  : Certificates \cup {None},
     list  : Lists \cup {None},
     then  : {"answered", "load", "revoke"},
     doc   : Snapshot \cup Badge \cup {None},
     known : SUBSET Certificates]

Idle == [step |-> "idle", op |-> "status", cert |-> None, list |-> None,
         then |-> "answered", doc |-> None, known |-> {}]

Init ==
    /\ status = [c \in Certificates |-> "ACTIVE"]
    /\ list = [l \in Lists |-> None]
    /\ entry = [c \in Certificates |-> None]
    /\ published = [l \in Lists |-> None]
    /\ badge = [c \in Certificates |-> None]
    /\ req = [p \in Requests |-> Idle]

-----------------------------------------------------------------------------
\* The row of a list is locked by a publication from its SELECT FOR UPDATE,
\* and by a revocation from its trigger, to their commit.
Holds(p, l) == req[p].list = l /\ req[p].step \in {"build", "revoking"}

Unlocked(l) == \A p \in Requests : ~Holds(p, l)

\* The two public reads and the revocation workflow.
BeginStatus(p, l) ==
    /\ req[p] = Idle
    /\ list[l] # None
    /\ req' = [req EXCEPT ![p] = [Idle EXCEPT !.step = "read", !.list = l, !.known = Revoked]]
    /\ UNCHANGED tables

BeginCredential(p, c) ==
    /\ req[p] = Idle
    /\ req' = [req EXCEPT ![p] =
          [Idle EXCEPT !.step = "ensure", !.op = "credential", !.cert = c, !.then = "load"]]
    /\ UNCHANGED tables

BeginRevoke(p, c) ==
    /\ req[p] = Idle
    /\ req' = [req EXCEPT ![p] =
          [Idle EXCEPT !.step = "ensure", !.op = "revoke", !.cert = c, !.then = "revoke"]]
    /\ UNCHANGED tables

-----------------------------------------------------------------------------
(* Allocation: EnsureEntry, one transaction under an advisory lock *)

HasRoom(l) == list[l] # None /\ list[l].reserved < Capacity

\* A new list is begun only when every other is full.
Allocatable ==
    IF \E l \in Lists : HasRoom(l)
    THEN {l \in Lists : HasRoom(l)}
    ELSE {l \in Lists : list[l] = None}

\* Sixteen random probes, then the first free index after the last of them:
\* any free index may come out.
FreeIndexes(l) == Indexes \ {entry[c].index : c \in PlacedIn(l)}

Row(l) == IF list[l] = None THEN [reserved |-> 0, revision |-> 0] ELSE list[l]

\* Mutants of Reserve: next_index as the next position to use; no trigger.
ReserveByPosition(l, i) == [reserved |-> i + 1, revision |-> Row(l).revision + 1]

ReserveSilently(l, i) == [Row(l) EXCEPT !.reserved = @ + 1]

\* next_index counts the reserved positions; the insertion trigger advances
\* the revision.
Reserve(l, i) == [reserved |-> Row(l).reserved + 1, revision |-> Row(l).revision + 1]

\* The request goes on to read the list in which its certificate is placed.
ReadList(p, l) ==
    req' = [req EXCEPT ![p] = [@ EXCEPT !.step = "read", !.list = l]]

EnsureEntry(p) ==
    LET c == req[p].cert IN
    /\ req[p].step = "ensure"
    /\ \/ /\ entry[c] # None
          /\ ReadList(p, entry[c].list)
          /\ UNCHANGED tables
       \/ /\ entry[c] = None
          /\ \E l \in Allocatable :
                /\ Unlocked(l)
                /\ \E i \in FreeIndexes(l) :
                      /\ entry' = [entry EXCEPT ![c] = [list |-> l, index |-> i]]
                      /\ list' = [list EXCEPT ![l] = Reserve(l, i)]
                /\ ReadList(p, l)
          /\ UNCHANGED <<status, published, badge>>

-----------------------------------------------------------------------------
(* Status: serve a current snapshot, or publish one *)

\* Mutant of IsCurrent: the revision is not compared.
IsPublished(l) == published[l] # None

\* CurrentSnapshot joins the two revisions.
IsCurrent(l) == published[l] # None /\ published[l].revision = list[l].revision

\* Only an answer keeps the list that was read; the rest go on without it.
GoOn(r, snapshot) ==
    [r EXCEPT !.step = r.then, !.doc = IF r.then = "answered" THEN snapshot ELSE None]

ReadCurrent(p) ==
    /\ req[p].step = "read"
    /\ req' = [req EXCEPT ![p] =
          IF IsCurrent(req[p].list)
          THEN GoOn(@, published[req[p].list])
          ELSE [@ EXCEPT !.step = "publish"]]
    /\ UNCHANGED tables

\* PublishCurrentSnapshot locks the row and reads revision and certificates in
\* one repeatable-read snapshot.  If the row is written while it waits for the
\* lock, the database fails the transaction (EndRequest).
LockAndRead(p) ==
    LET l == req[p].list IN
    /\ req[p].step = "publish"
    /\ Unlocked(l)
    /\ req' = [req EXCEPT ![p] = [@ EXCEPT !.step = "build",
                                           !.doc = [revision |-> list[l].revision, revoked |-> EncodedList(l)]]]
    /\ UNCHANGED tables

\* Mutant of PublishSnapshot: what is published first stays (ON CONFLICT DO NOTHING).
PublishSnapshotOnce(p) ==
    /\ req[p].step = "build"
    /\ published' = [published EXCEPT ![req[p].list] = IF @ = None THEN req[p].doc ELSE @]
    /\ req' = [req EXCEPT ![p] = GoOn(@, req[p].doc)]
    /\ UNCHANGED <<status, list, entry, badge>>

\* Signed and verified, the snapshot replaces the previous one.
PublishSnapshot(p) ==
    /\ req[p].step = "build"
    /\ published' = [published EXCEPT ![req[p].list] = req[p].doc]
    /\ req' = [req EXCEPT ![p] = GoOn(@, req[p].doc)]
    /\ UNCHANGED <<status, list, entry, badge>>

-----------------------------------------------------------------------------
(* Revocation: after the baseline snapshot, before the final one *)

\* UPDATE ... WHERE status = 'ACTIVE' waits for another revocation of the row;
\* its trigger finds the list of the entry that is committed by now.  A
\* certificate already REVOKED is returned as it is.
ExecuteRevocation(p) ==
    LET c == req[p].cert IN
    /\ req[p].step = "revoke"
    /\ \A q \in Requests : ~(req[q].step = "revoking" /\ req[q].cert = c)
    /\ \/ /\ status[c] = "REVOKED"
          /\ req' = [req EXCEPT ![p] = [@ EXCEPT !.step = "read", !.then = "answered",
                                                 !.known = Revoked]]
       \/ /\ status[c] = "ACTIVE"
          /\ entry[c] # None => Unlocked(entry[c].list)
          /\ req' = [req EXCEPT ![p] = [@ EXCEPT !.step = "revoking",
                                                 !.list = IF entry[c] = None THEN None ELSE entry[c].list]]
    /\ UNCHANGED tables

\* Mutant of CommitRevocation: the trigger is missing.
CommitRevocationSilently(p) ==
    LET c == req[p].cert IN
    /\ req[p].step = "revoking"
    /\ status' = [status EXCEPT ![c] = "REVOKED"]
    /\ req' = [req EXCEPT ![p] = [@ EXCEPT !.step = "read", !.then = "answered",
                                           !.known = Revoked \cup {c}]]
    /\ UNCHANGED <<list, entry, published, badge>>

\* The transition and the trigger's new revision commit together.
CommitRevocation(p) ==
    LET c == req[p].cert
        l == req[p].list
    IN  /\ req[p].step = "revoking"
        /\ status' = [status EXCEPT ![c] = "REVOKED"]
        /\ list' = IF l = None THEN list ELSE [list EXCEPT ![l].revision = @ + 1]
        /\ req' = [req EXCEPT ![p] = [@ EXCEPT !.step = "read", !.then = "answered",
                                               !.known = Revoked \cup {c}]]
        /\ UNCHANGED <<entry, published, badge>>

-----------------------------------------------------------------------------
(* Credential: sign the badge once *)

LoadBadge(p) ==
    /\ req[p].step = "load"
    /\ req' = [req EXCEPT ![p] =
          IF badge[req[p].cert] # None
          THEN [@ EXCEPT !.step = "answered", !.doc = badge[req[p].cert]]
          ELSE [@ EXCEPT !.step = "save"]]
    /\ UNCHANGED tables

Sign(p) == [entry |-> entry[req[p].cert], signer |-> p]

\* Mutant of SaveBadge: answers with its own signature, whichever was stored.
SaveBadgeAndAnswerOwn(p) ==
    LET c == req[p].cert IN
    /\ req[p].step = "save"
    /\ badge' = [badge EXCEPT ![c] = IF @ = None THEN Sign(p) ELSE @]
    /\ req' = [req EXCEPT ![p] = [@ EXCEPT !.step = "answered", !.doc = Sign(p)]]
    /\ UNCHANGED <<status, list, entry, published>>

\* INSERT ... ON CONFLICT DO NOTHING, and what is stored then.
SaveBadge(p) ==
    LET c == req[p].cert IN
    /\ req[p].step = "save"
    /\ badge' = [badge EXCEPT ![c] = IF @ = None THEN Sign(p) ELSE @]
    /\ req' = [req EXCEPT ![p] = [@ EXCEPT !.step = "answered", !.doc = badge'[c]]]
    /\ UNCHANGED <<status, list, entry, published>>

\* The request is over: answered, failed (by the database or the signing key),
\* cancelled, or lost in a restart.  A transaction under way is rolled back.
EndRequest(p) ==
    /\ req[p] # Idle
    /\ req' = [req EXCEPT ![p] = Idle]
    /\ UNCHANGED tables

-----------------------------------------------------------------------------
Step(p) ==
    \/ EnsureEntry(p)
    \/ ReadCurrent(p)
    \/ LockAndRead(p)
    \/ PublishSnapshot(p)
    \/ ExecuteRevocation(p)
    \/ CommitRevocation(p)
    \/ LoadBadge(p)
    \/ SaveBadge(p)

Next ==
    \E p \in Requests :
        \/ \E l \in Lists : BeginStatus(p, l)
        \/ \E c \in Certificates : BeginCredential(p, c) \/ BeginRevoke(p, c)
        \/ Step(p)
        \/ EndRequest(p)

Spec == Init /\ [][Next]_vars

\* Verifiers keep asking for each list, and no step fails every time.
Poll(l) == \E p \in Requests : BeginStatus(p, l)

FairSpec ==
    /\ Spec
    /\ \A p \in Requests :
          /\ SF_vars(ReadCurrent(p))
          /\ SF_vars(LockAndRead(p))
          /\ SF_vars(PublishSnapshot(p))
          /\ WF_vars(EndRequest(p))
    /\ \A l \in Lists : SF_vars(Poll(l))

-----------------------------------------------------------------------------
(* Properties *)

\* Every variable has its type.
TypeOK ==
    /\ status \in [Certificates -> {"ACTIVE", "REVOKED"}]
    /\ list \in [Lists -> ListRow \cup {None}]
    /\ entry \in [Certificates -> Entry \cup {None}]
    /\ published \in [Lists -> Snapshot \cup {None}]
    /\ badge \in [Certificates -> Badge \cup {None}]
    /\ req \in [Requests -> Request]

\* next_index, from which EnsureEntry decides whether a list has room, is the
\* number of its entries, no two of which share a position: the ErrStatusListFull
\* of a list thought to have room, and a badge that shows the status of
\* another, are impossible.
AllocationIsExact ==
    /\ \A l \in Lists :
          IF list[l] = None THEN PlacedIn(l) = {}
          ELSE list[l].reserved = Cardinality(PlacedIn(l))
    /\ \A c, d \in Certificates :
          entry[c] # None /\ entry[c] = entry[d] => c = d

\* A snapshot whose revision is the list's shows exactly what is revoked, however
\* publications, allocations and revocations interleave, and whichever fail.
CurrentSnapshotIsTrue ==
    \A l \in Lists : list[l] # None /\ IsCurrent(l) => published[l].revoked = EncodedList(l)

\* A list served to a verifier shows every revocation that was durable when the
\* verifier asked, and none that did not happen.  A revocation that is reported as
\* a success is one of those, in a list published since.
NoStaleStatus ==
    \A p \in Requests :
        req[p].step = "answered" /\ req[p].op # "credential" =>
            /\ \A c \in req[p].known \cap PlacedIn(req[p].list) :
                  entry[c].index \in req[p].doc.revoked
            /\ req[p].doc.revoked \subseteq EncodedList(req[p].list)
            /\ req[p].op = "revoke" => req[p].cert \in req[p].known

\* Of the requests that sign a badge at once one is kept, and everyone gets that
\* one; it refers for good to the position its certificate holds.
BadgesAgree ==
    /\ \A c \in Certificates : badge[c] # None => badge[c].entry = entry[c]
    /\ \A p \in Requests :
          req[p].step = "answered" /\ req[p].op = "credential" =>
              req[p].doc = badge[req[p].cert]

\* A revocation, even one whose publication failed, is eventually shown by a
\* current snapshot, if verifiers keep asking.
RevocationConverges ==
    \A c \in Certificates :
        status[c] = "REVOKED" ~>
            entry[c] # None /\ IsCurrent(entry[c].list)
                /\ entry[c].index \in published[entry[c].list].revoked

Contract == INSTANCE StatusContract
                WITH revoked <- Revoked,
                     visible <- [l \in Lists |->
                         IF list[l] # None /\ IsCurrent(l)
                         THEN {published[l].revoked} ELSE {}]

\* What is served fails closed: it implements a list that is either out of
\* service or true, from the moment a revocation commits.
ImplementsContract == Contract!Spec

=============================================================================
