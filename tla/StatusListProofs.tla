---------------------------- MODULE StatusListProofs ----------------------------
(***************************************************************************)
(* Proofs about StatusList, for any number of certificates, lists, positions *)
(* and concurrent requests.                                                 *)
(*                                                                         *)
(* That current snapshots are true is not inductive.  A publication writes  *)
(* what it has read earlier, so the invariant says that it still holds: the *)
(* lock keeps the list from changing (LocksExclude), every change of a list *)
(* advances its revision, and a certificate is never revoked before it has  *)
(* a position, so the trigger always finds the list (RevokedHavePositions). *)
(***************************************************************************)
EXTENDS StatusList, FiniteSetTheorems, TLAPS

EntriesArePlaced == \A c \in Certificates : entry[c] # None => list[entry[c].list] # None

PositionsAreUnique ==
    \A c, d \in Certificates : entry[c] # None /\ entry[c] = entry[d] => c = d

RevokedHavePositions == \A c \in Revoked : entry[c] # None

\* No snapshot is of a revision that its list has yet to reach.
SnapshotsArePast ==
    \A l \in Lists :
        published[l] # None => list[l] # None /\ published[l].revision <= list[l].revision

BadgesArePlaced ==
    \A c \in Certificates : badge[c] # None => entry[c] # None /\ badge[c].entry = entry[c]

TablesInv ==
    /\ EntriesArePlaced
    /\ PositionsAreUnique
    /\ RevokedHavePositions
    /\ SnapshotsArePast
    /\ CurrentSnapshotIsTrue
    /\ BadgesArePlaced

\* The steps of a request that has its list.
Located == {"read", "publish", "build", "revoke", "revoking", "load", "save", "answered"}

\* What a request was started for, and how far it has come.
ProgressInv(r) ==
    /\ r.step \in Located \cup {"ensure"} /\ r.op # "status" => r.cert \in Certificates
    /\ r.step = "ensure" => r.op # "status"
    /\ r.step \in {"revoke", "revoking"} => r.op = "revoke"
    /\ r.step \in {"load", "save"} => r.op = "credential"
    /\ r.op = "status" => r.then = "answered"
    /\ r.op = "credential" => r.then = "load"
    /\ r.op = "revoke" => r.then \in {"revoke", "answered"}
    /\ r.op = "revoke" /\ r.then = "answered" => r.cert \in r.known
    /\ r.op = "revoke" /\ r.step = "answered" => r.then = "answered"

\* The lists a verifier may be shown: all that was known, and only the truth.
Shows(r, doc) ==
    /\ doc \in Snapshot
    /\ \A c \in r.known \cap PlacedIn(r.list) : entry[c].index \in doc.revoked
    /\ doc.revoked \subseteq EncodedList(r.list)

\* What a request has read still holds.
ReadInv(r) ==
    /\ r.step \in Located => r.list \in Lists /\ list[r.list] # None
    /\ r.step \in Located /\ r.op # "status" =>
          entry[r.cert] # None /\ entry[r.cert].list = r.list
    /\ r.known \subseteq Revoked
    /\ r.step = "build" =>
          r.doc = [revision |-> list[r.list].revision, revoked |-> EncodedList(r.list)]
    /\ r.step = "answered" /\ r.op # "credential" => Shows(r, r.doc)
    /\ r.step = "answered" /\ r.op = "credential" =>
          badge[r.cert] # None /\ r.doc = badge[r.cert]
    /\ r.step = "revoking" => status[r.cert] = "ACTIVE"

RequestInv(r) == ProgressInv(r) /\ ReadInv(r)

\* Two requests never hold the same list.
LocksExclude ==
    \A p, q \in Requests, l \in Lists : Holds(p, l) /\ Holds(q, l) => p = q

IInv ==
    /\ TypeOK
    /\ TablesInv
    /\ \A p \in Requests : RequestInv(req[p])
    /\ LocksExclude

-----------------------------------------------------------------------------
\* An idle request slot fits every state.
LEMMA IdleFits == Idle \in Request /\ RequestInv(Idle)
  BY StatusAssumption DEF Idle, Request, RequestInv, ProgressInv, ReadInv, Located

\* A list that is there is not absent.
LEMMA NoneIsNoRow == None \notin ListRow
  BY StatusAssumption DEF ListRow

\* Nothing is allocated, revoked or published at the start.
LEMMA InitInv == Init => IInv
<1> SUFFICES ASSUME Init PROVE IInv
  OBVIOUS
<1>1. TypeOK
  BY IdleFits DEF Init, TypeOK
<1>2. TablesInv
  BY DEF Init, TablesInv, EntriesArePlaced, PositionsAreUnique, RevokedHavePositions,
      SnapshotsArePast, CurrentSnapshotIsTrue, BadgesArePlaced, Revoked
<1>3. \A p \in Requests : RequestInv(req[p])
  BY IdleFits DEF Init
<1>4. LocksExclude
  BY DEF Init, LocksExclude, Holds, Idle
<1>5. QED
  BY <1>1, <1>2, <1>3, <1>4 DEF IInv

\* A step of one request that writes no table keeps the invariant, if what the
\* request has then read holds, and a lock it takes was free.
LEMMA RequestStep ==
  ASSUME IInv, UNCHANGED tables,
         NEW p \in Requests, NEW r \in Request, RequestInv(r),
         r.step \in {"build", "revoking"} => Unlocked(r.list),
         req' = [req EXCEPT ![p] = r]
  PROVE  IInv'
<1>1. TypeOK'
  BY DEF IInv, TypeOK, tables, ListRow
<1>2. TablesInv'
  BY DEF IInv, TablesInv, EntriesArePlaced, PositionsAreUnique, RevokedHavePositions,
      SnapshotsArePast, CurrentSnapshotIsTrue, IsCurrent, EncodedList, PlacedIn,
      BadgesArePlaced, Revoked, tables
<1>3. ASSUME NEW q \in Requests PROVE RequestInv(req[q])'
  <2>1. req'[q] = IF q = p THEN r ELSE req[q]
    BY DEF IInv, TypeOK
  <2>2. RequestInv(req'[q])
    BY <2>1 DEF IInv
  <2>3. QED
    BY <2>2 DEF RequestInv, ProgressInv, ReadInv, Shows, EncodedList, PlacedIn, Revoked, tables
<1>4. LocksExclude'
  BY DEF IInv, TypeOK, LocksExclude, Holds, Unlocked
<1>5. QED
  BY <1>1, <1>2, <1>3, <1>4 DEF IInv

-----------------------------------------------------------------------------
(* Steps that write no table *)

\* Each of the three kinds of request can begin in any state.
LEMMA BeginStep ==
  ASSUME IInv, NEW p \in Requests,
         \/ \E l \in Lists : BeginStatus(p, l)
         \/ \E c \in Certificates : BeginCredential(p, c) \/ BeginRevoke(p, c)
  PROVE  IInv'
<1>1. ASSUME NEW l \in Lists, BeginStatus(p, l) PROVE IInv'
  <2> DEFINE r == [Idle EXCEPT !.step = "read", !.list = l, !.known = Revoked]
  <2>1. r \in Request /\ RequestInv(r) /\ r.step = "read"
    BY <1>1 DEF BeginStatus, Idle, Request, RequestInv, ProgressInv, ReadInv, Located, Revoked
  <2>2. QED
    BY <1>1, <2>1, RequestStep DEF BeginStatus
<1>2. ASSUME NEW c \in Certificates, BeginCredential(p, c) PROVE IInv'
  <2> DEFINE r == [Idle EXCEPT !.step = "ensure", !.op = "credential", !.cert = c, !.then = "load"]
  <2>1. r \in Request /\ RequestInv(r) /\ r.step = "ensure"
    BY DEF Idle, Request, RequestInv, ProgressInv, ReadInv, Located
  <2>2. QED
    BY <1>2, <2>1, RequestStep DEF BeginCredential
<1>3. ASSUME NEW c \in Certificates, BeginRevoke(p, c) PROVE IInv'
  <2> DEFINE r == [Idle EXCEPT !.step = "ensure", !.op = "revoke", !.cert = c, !.then = "revoke"]
  <2>1. r \in Request /\ RequestInv(r) /\ r.step = "ensure"
    BY DEF Idle, Request, RequestInv, ProgressInv, ReadInv, Located
  <2>2. QED
    BY <1>3, <2>1, RequestStep DEF BeginRevoke
<1>4. QED
  BY <1>1, <1>2, <1>3

\* A request that dies gives up its lock and what it has read.
LEMMA EndRequestStep == ASSUME IInv, NEW p \in Requests, EndRequest(p) PROVE IInv'
<1>1. Idle.step = "idle"
  BY DEF Idle
<1>2. QED
  BY <1>1, IdleFits, RequestStep DEF EndRequest

\* A request whose certificate has its position goes on to read its list.
LEMMA FoundStep ==
  ASSUME IInv, NEW p \in Requests, req[p].step = "ensure",
         entry[req[p].cert] # None, ReadList(p, entry[req[p].cert].list), UNCHANGED tables
  PROVE  IInv'
<1> DEFINE l == entry[req[p].cert].list
           r == [req[p] EXCEPT !.step = "read", !.list = l]
<1>1. req[p] \in Request /\ RequestInv(req[p]) /\ req[p].cert \in Certificates
  BY DEF IInv, TypeOK, RequestInv, ProgressInv
<1>2. l \in Lists /\ list[l] # None
  BY <1>1 DEF IInv, TypeOK, TablesInv, EntriesArePlaced, Entry
<1>3. r \in Request /\ r.step = "read"
  BY <1>1, <1>2 DEF Request
<1>4. RequestInv(r)
  BY <1>1, <1>2 DEF Request, RequestInv, ProgressInv, ReadInv, Located
<1>5. req' = [req EXCEPT ![p] = r]
  BY DEF ReadList
<1>6. QED
  BY <1>3, <1>4, <1>5, RequestStep

\* A snapshot that is current shows all that a request can know.
LEMMA CurrentShows ==
  ASSUME IInv, NEW r \in Request, ReadInv(r), r.step \in Located,
         NEW doc \in Snapshot, doc.revoked = EncodedList(r.list)
  PROVE  Shows(r, doc)
  BY DEF Shows, ReadInv, EncodedList, PlacedIn

\* Going on after the list has been read.
LEMMA GoOnFits ==
  ASSUME IInv, NEW r \in Request, RequestInv(r), r.step \in {"read", "build"},
         NEW doc \in Snapshot, doc.revoked = EncodedList(r.list)
  PROVE  /\ GoOn(r, doc) \in Request
         /\ RequestInv(GoOn(r, doc))
         /\ GoOn(r, doc).step \in {"answered", "load", "revoke"}
<1> DEFINE s == GoOn(r, doc)
<1>1. /\ s \in Request
      /\ s.step = r.then /\ s.op = r.op /\ s.cert = r.cert /\ s.list = r.list
      /\ s.then = r.then /\ s.known = r.known
      /\ s.step = "answered" => s.doc = doc
      /\ s.step \in {"answered", "load", "revoke"}
  BY DEF GoOn, Request
<1>2. Shows(r, doc)
  BY CurrentShows DEF RequestInv, Located
<1>3. Shows(s, doc)
  BY <1>1, <1>2 DEF Shows
<1>4. ProgressInv(s)
  BY <1>1 DEF RequestInv, ProgressInv, Located, Request
<1>5. ReadInv(s)
  BY <1>1, <1>3, <1>4 DEF RequestInv, ProgressInv, ReadInv, Located
<1>6. QED
  BY <1>1, <1>4, <1>5 DEF RequestInv

\* CurrentSnapshot returns only what is true now.
LEMMA ReadCurrentStep == ASSUME IInv, NEW p \in Requests, ReadCurrent(p) PROVE IInv'
<1> DEFINE l == req[p].list
<1>1. /\ req[p] \in Request /\ RequestInv(req[p]) /\ req[p].step = "read"
      /\ l \in Lists /\ list[l] # None
  BY DEF ReadCurrent, IInv, TypeOK, RequestInv, ReadInv, Located
<1>2. CASE IsCurrent(l)
  <2>1. published[l] \in Snapshot /\ published[l].revoked = EncodedList(l)
    BY <1>1, <1>2 DEF IInv, TypeOK, TablesInv, CurrentSnapshotIsTrue, IsCurrent
  <2>2. req' = [req EXCEPT ![p] = GoOn(req[p], published[l])]
    BY <1>2 DEF ReadCurrent
  <2>3. /\ GoOn(req[p], published[l]) \in Request
        /\ RequestInv(GoOn(req[p], published[l]))
        /\ GoOn(req[p], published[l]).step \in {"answered", "load", "revoke"}
    BY <1>1, <2>1, GoOnFits
  <2>4. QED
    BY <2>2, <2>3, RequestStep DEF ReadCurrent
<1>3. CASE ~IsCurrent(l)
  <2> DEFINE r == [req[p] EXCEPT !.step = "publish"]
  <2>1. r \in Request /\ r.step = "publish"
    BY <1>1 DEF Request
  <2>2. RequestInv(r)
    BY <1>1 DEF Request, RequestInv, ProgressInv, ReadInv, Located
  <2>3. req' = [req EXCEPT ![p] = r]
    BY <1>3 DEF ReadCurrent
  <2>4. QED
    BY <2>1, <2>2, <2>3, RequestStep DEF ReadCurrent
<1>4. QED
  BY <1>2, <1>3

\* The bits of a list are among its positions.
LEMMA EncodedListType == ASSUME TypeOK, NEW l PROVE EncodedList(l) \subseteq Indexes
  BY DEF TypeOK, EncodedList, PlacedIn, Entry

\* The lock is taken with a consistent view of the list.
LEMMA LockAndReadStep == ASSUME IInv, NEW p \in Requests, LockAndRead(p) PROVE IInv'
<1> DEFINE l    == req[p].list
           view == [revision |-> list[l].revision, revoked |-> EncodedList(l)]
           r    == [req[p] EXCEPT !.step = "build", !.doc = view]
<1>1. /\ req[p] \in Request /\ RequestInv(req[p]) /\ req[p].step = "publish"
      /\ l \in Lists /\ list[l] # None
  BY DEF LockAndRead, IInv, TypeOK, RequestInv, ReadInv, Located
<1>2. view \in Snapshot
  BY <1>1, EncodedListType DEF IInv, TypeOK, ListRow, Snapshot
<1>3. /\ r \in Request /\ r.step = "build" /\ r.list = l /\ r.doc = view
      /\ r.op = req[p].op /\ r.cert = req[p].cert /\ r.then = req[p].then
      /\ r.known = req[p].known
  BY <1>1, <1>2 DEF Request
<1>4. RequestInv(r)
  BY <1>1, <1>3 DEF RequestInv, ProgressInv, ReadInv, Located
<1>5. req' = [req EXCEPT ![p] = r] /\ Unlocked(l) /\ UNCHANGED tables
  BY DEF LockAndRead
<1>6. QED
  BY <1>3, <1>4, <1>5, RequestStep

\* A revocation takes its list out of the hands of publishers, or finds that it
\* has been done.
LEMMA ExecuteRevocationStep ==
  ASSUME IInv, NEW p \in Requests, ExecuteRevocation(p)
  PROVE  IInv'
<1> DEFINE c == req[p].cert
           l == req[p].list
<1>1. /\ req[p] \in Request /\ RequestInv(req[p]) /\ req[p].step = "revoke"
      /\ req[p].op = "revoke" /\ c \in Certificates
      /\ l \in Lists /\ list[l] # None /\ entry[c] # None /\ entry[c].list = l
  BY DEF ExecuteRevocation, IInv, TypeOK, RequestInv, ProgressInv, ReadInv, Located
<1>2. CASE status[c] = "REVOKED"
  <2> DEFINE r == [req[p] EXCEPT !.step = "read", !.then = "answered", !.known = Revoked]
  <2>1. /\ r \in Request /\ r.step = "read" /\ r.then = "answered" /\ r.known = Revoked
        /\ r.op = "revoke" /\ r.cert = c /\ r.list = l
    BY <1>1 DEF Request, Revoked
  <2>2. RequestInv(r)
    BY <1>1, <1>2, <2>1 DEF RequestInv, ProgressInv, ReadInv, Located, Revoked
  <2>3. req' = [req EXCEPT ![p] = r] /\ UNCHANGED tables
    BY <1>2 DEF ExecuteRevocation
  <2>4. QED
    BY <2>1, <2>2, <2>3, RequestStep
<1>3. CASE status[c] = "ACTIVE"
  <2> DEFINE r == [req[p] EXCEPT !.step = "revoking", !.list = l]
  <2>1. /\ r \in Request /\ r.step = "revoking" /\ r.then = req[p].then
        /\ r.known = req[p].known /\ r.op = "revoke" /\ r.cert = c /\ r.list = l
    BY <1>1 DEF Request
  <2>2. RequestInv(r)
    BY <1>1, <1>3, <2>1 DEF RequestInv, ProgressInv, ReadInv, Located
  <2>3. req' = [req EXCEPT ![p] = r] /\ UNCHANGED tables /\ Unlocked(l)
    BY <1>1, <1>3 DEF ExecuteRevocation
  <2>4. QED
    BY <2>1, <2>2, <2>3, RequestStep
<1>4. QED
  BY <1>1, <1>2, <1>3 DEF IInv, TypeOK

\* A badge that is stored is the answer; one that is not will be signed.
LEMMA LoadBadgeStep == ASSUME IInv, NEW p \in Requests, LoadBadge(p) PROVE IInv'
<1> DEFINE c == req[p].cert
<1>1. /\ req[p] \in Request /\ RequestInv(req[p]) /\ req[p].step = "load"
      /\ req[p].op = "credential" /\ c \in Certificates
      /\ badge[c] \in Badge \cup {None}
  BY DEF LoadBadge, IInv, TypeOK, RequestInv, ProgressInv, Located
<1>2. CASE badge[c] # None
  <2> DEFINE r == [req[p] EXCEPT !.step = "answered", !.doc = badge[c]]
  <2>1. r \in Request /\ r.step = "answered"
    BY <1>1, <1>2 DEF Request
  <2>2. RequestInv(r)
    BY <1>1, <1>2 DEF Request, RequestInv, ProgressInv, ReadInv, Located
  <2>3. req' = [req EXCEPT ![p] = r] /\ UNCHANGED tables
    BY <1>2 DEF LoadBadge
  <2>4. QED
    BY <2>1, <2>2, <2>3, RequestStep
<1>3. CASE badge[c] = None
  <2> DEFINE r == [req[p] EXCEPT !.step = "save"]
  <2>1. r \in Request /\ r.step = "save"
    BY <1>1 DEF Request
  <2>2. RequestInv(r)
    BY <1>1 DEF Request, RequestInv, ProgressInv, ReadInv, Located
  <2>3. req' = [req EXCEPT ![p] = r] /\ UNCHANGED tables
    BY <1>3 DEF LoadBadge
  <2>4. QED
    BY <2>1, <2>2, <2>3, RequestStep
<1>4. QED
  BY <1>2, <1>3

-----------------------------------------------------------------------------
(* Steps that write a table *)

\* A new position changes no bit of any list: its certificate is not revoked.
LEMMA AllocateBits ==
  ASSUME IInv, NEW c \in Certificates, entry[c] = None, NEW e \in Entry,
         entry' = [entry EXCEPT ![c] = e], status' = status
  PROVE  /\ c \notin Revoked
         /\ \A l : EncodedList(l)' = EncodedList(l)
         /\ \A l : PlacedIn(l)' = IF l = e.list THEN PlacedIn(l) \cup {c} ELSE PlacedIn(l)
<1>1. c \notin Revoked
  BY DEF IInv, TablesInv, RevokedHavePositions
<1>2. e # None /\ entry \in [Certificates -> Entry \cup {None}]
  BY StatusAssumption DEF IInv, TypeOK
<1>3. \A l : PlacedIn(l)' = IF l = e.list THEN PlacedIn(l) \cup {c} ELSE PlacedIn(l)
  BY <1>2 DEF PlacedIn
<1>4. Revoked' = Revoked
  BY DEF Revoked
<1>5. \A l : PlacedIn(l)' \cap Revoked' = PlacedIn(l) \cap Revoked
  BY <1>1, <1>3, <1>4
<1>6. \A d \in Revoked : entry'[d] = entry[d]
  BY <1>1, <1>2 DEF Revoked
<1>7. \A l : EncodedList(l)' = EncodedList(l)
  BY <1>5, <1>6 DEF EncodedList
<1>8. QED
  BY <1>1, <1>3, <1>7

\* EnsureEntry places a certificate in a list that nobody has locked.
LEMMA AllocateStep ==
  ASSUME IInv, NEW p \in Requests, NEW c \in Certificates, c = req[p].cert,
         req[p].step = "ensure", entry[c] = None,
         NEW l \in Allocatable, Unlocked(l), NEW i \in FreeIndexes(l),
         entry' = [entry EXCEPT ![c] = [list |-> l, index |-> i]],
         list' = [list EXCEPT ![l] = Reserve(l, i)],
         ReadList(p, l), UNCHANGED <<status, published, badge>>
  PROVE  IInv'
<1> DEFINE e == [list |-> l, index |-> i]
           r == [req[p] EXCEPT !.step = "read", !.list = l]
<1>1. /\ l \in Lists /\ i \in Indexes /\ e \in Entry /\ e # None
      /\ e.list = l /\ e.index = i
      /\ \A d \in PlacedIn(l) : entry[d].index # i
  BY StatusAssumption DEF Allocatable, FreeIndexes, Entry
<1>2. /\ list'[l] \in ListRow
      /\ list'[l] # None
      /\ list'[l].revision = Row(l).revision + 1
      /\ \A m \in Lists \ {l} : list'[m] = list[m]
      /\ Row(l).revision \in Nat
  <2>1. Row(l) \in ListRow /\ Row(l).reserved < Capacity
    BY <1>1, StatusAssumption DEF IInv, TypeOK, Row, ListRow, Allocatable, HasRoom
  <2>2. Reserve(l, i) \in ListRow /\ Reserve(l, i).revision = Row(l).revision + 1
    BY <2>1, StatusAssumption DEF Reserve, ListRow
  <2>3. None \notin ListRow
    BY NoneIsNoRow
  <2>4. QED
    BY <1>1, <2>1, <2>2, <2>3 DEF IInv, TypeOK, ListRow
<1>3. /\ entry'[c] = e
      /\ \A d \in Certificates \ {c} : entry'[d] = entry[d]
  BY DEF IInv, TypeOK
<1>4. /\ c \notin Revoked
      /\ Revoked' = Revoked
      /\ \A m : EncodedList(m)' = EncodedList(m)
      /\ \A m : PlacedIn(m)' = IF m = l THEN PlacedIn(m) \cup {c} ELSE PlacedIn(m)
  BY <1>1, AllocateBits DEF Revoked
<1>5. req[p] \in Request /\ RequestInv(req[p])
  BY DEF IInv, TypeOK
<1>6. /\ r \in Request /\ r.step = "read" /\ r.list = l /\ r.cert = c
      /\ r.op = req[p].op /\ r.then = req[p].then /\ r.known = req[p].known
      /\ req' = [req EXCEPT ![p] = r]
  BY <1>1, <1>5 DEF Request, ReadList
<1>7. TypeOK'
  <2>1. list' \in [Lists -> ListRow \cup {None}]
    BY <1>1, <1>2 DEF IInv, TypeOK
  <2>2. entry' \in [Certificates -> Entry \cup {None}]
    BY <1>1 DEF IInv, TypeOK
  <2>3. req' \in [Requests -> Request]
    BY <1>6 DEF IInv, TypeOK
  <2>4. QED
    BY <2>1, <2>2, <2>3 DEF IInv, TypeOK
<1>8. TablesInv'
  <2>1. EntriesArePlaced'
    BY <1>1, <1>2, <1>3 DEF IInv, TypeOK, Entry, TablesInv, EntriesArePlaced
  <2>2. PositionsAreUnique'
    <3>1. \A d \in Certificates \ {c} : entry[d] # e
      BY <1>1 DEF PlacedIn
    <3>2. QED
      BY <1>3, <3>1 DEF IInv, TablesInv, PositionsAreUnique
  <2>3. RevokedHavePositions'
    BY <1>3, <1>4 DEF IInv, TablesInv, RevokedHavePositions, Revoked
  <2>4. SnapshotsArePast'
    <3>1. ASSUME NEW m \in Lists, published[m] # None
          PROVE  list'[m] # None /\ published[m].revision <= list'[m].revision
      <4>1. /\ list[m] # None /\ published[m].revision <= list[m].revision
            /\ published[m].revision \in Nat
        BY <3>1 DEF IInv, TypeOK, Snapshot, TablesInv, SnapshotsArePast
      <4>2. m = l => list[m].revision = Row(l).revision
        BY <4>1 DEF Row
      <4>3. QED
        BY <1>2, <4>1, <4>2
    <3>2. QED
      BY <3>1 DEF SnapshotsArePast
  <2>5. CurrentSnapshotIsTrue'
    <3>1. ASSUME NEW m \in Lists, list'[m] # None, IsCurrent(m)'
          PROVE  published[m].revoked = EncodedList(m)'
      <4>1. /\ list[m] # None /\ published[m] # None
            /\ published[m].revision <= list[m].revision /\ published[m].revision \in Nat
        BY <3>1 DEF IsCurrent, IInv, TypeOK, Snapshot, TablesInv, SnapshotsArePast
      <4>2. m # l
        <5>1. ASSUME m = l PROVE FALSE
          <6>1. list'[l].revision = list[l].revision + 1 /\ list[l].revision \in Nat
            BY <1>2, <4>1, <5>1 DEF Row
          <6>2. published[l].revision = list'[l].revision
            BY <3>1, <5>1 DEF IsCurrent
          <6>3. QED
            BY <4>1, <5>1, <6>1, <6>2
        <5>2. QED
          BY <5>1
      <4>3. list'[m] = list[m]
        BY <1>2, <4>2
      <4>4. IsCurrent(m)
        BY <3>1, <4>3 DEF IsCurrent
      <4>5. QED
        BY <1>4, <4>1, <4>4 DEF IInv, TablesInv, CurrentSnapshotIsTrue
    <3>2. QED
      BY <3>1 DEF CurrentSnapshotIsTrue
  <2>6. BadgesArePlaced'
    BY <1>3 DEF IInv, TablesInv, BadgesArePlaced
  <2>7. QED
    BY <2>1, <2>2, <2>3, <2>4, <2>5, <2>6 DEF TablesInv
<1>9. ASSUME NEW q \in Requests PROVE RequestInv(req[q])'
  <2>1. CASE q = p
    <3>1. req'[q] = r
      BY <1>6, <2>1 DEF IInv, TypeOK
    <3>2. ProgressInv(r)
      BY <1>5, <1>6 DEF RequestInv, ProgressInv, Located
    <3>3. /\ req'[q].step = "read" /\ req'[q].list = l /\ req'[q].cert = c
          /\ req'[q].known = req[p].known
      BY <1>6, <3>1
    <3>4. ReadInv(req[q])'
      BY <1>1, <1>2, <1>3, <1>4, <1>5, <3>3 DEF RequestInv, ReadInv, Located
    <3>5. ProgressInv(req[q])'
      BY <3>1, <3>2 DEF ProgressInv
    <3>6. QED
      BY <3>4, <3>5 DEF RequestInv
  <2>2. CASE q # p
    <3>1. /\ req'[q] = req[q] /\ req[q] \in Request
          /\ ProgressInv(req[q]) /\ ReadInv(req[q])
      BY <1>6, <2>2 DEF IInv, TypeOK, RequestInv
    <3> DEFINE s == req[q]
    <3>2. s.step \in Located => s.list \in Lists /\ list'[s.list] # None
      BY <1>2, <3>1 DEF ReadInv
    <3>3. s.step \in Located /\ s.op # "status" =>
             entry'[s.cert] # None /\ entry'[s.cert].list = s.list
      <4>1. s.step \in Located /\ s.op # "status" => s.cert \in Certificates \ {c}
        BY <3>1 DEF ReadInv, ProgressInv
      <4>2. QED
        BY <1>3, <3>1, <4>1 DEF ReadInv
    <3>4. s.step = "build" => list'[s.list] = list[s.list]
      <4>1. s.step = "build" => s.list # l /\ s.list \in Lists
        BY <3>1 DEF Unlocked, Holds, ReadInv, Located
      <4>2. QED
        BY <1>2, <4>1
    <3>5. s.step = "answered" /\ s.op # "credential" => Shows(s, s.doc)'
      <4>1. ASSUME Shows(s, s.doc) PROVE Shows(s, s.doc)'
        <5>1. \A d \in s.known \cap PlacedIn(s.list)' : d \in PlacedIn(s.list) /\ entry'[d] = entry[d]
          BY <1>3, <1>4, <3>1 DEF ReadInv, PlacedIn
        <5>2. QED
          BY <1>4, <3>1, <4>1, <5>1 DEF Shows
      <4>2. QED
        BY <3>1, <4>1 DEF ReadInv
    <3>6. ReadInv(s)'
      BY <1>4, <3>1, <3>2, <3>3, <3>4, <3>5 DEF ReadInv
    <3>7. QED
      BY <3>1, <3>6 DEF RequestInv, ProgressInv
  <2>3. QED
    BY <2>1, <2>2
<1>10. LocksExclude'
  BY <1>6 DEF IInv, TypeOK, LocksExclude, Holds
<1>11. QED
  BY <1>7, <1>8, <1>9, <1>10 DEF IInv

\* EnsureEntry finds the position of the certificate or gives it one.
LEMMA EnsureEntryStep == ASSUME IInv, NEW p \in Requests, EnsureEntry(p) PROVE IInv'
<1> DEFINE c == req[p].cert
<1>1. req[p].step = "ensure" /\ c \in Certificates
  BY DEF EnsureEntry, IInv, TypeOK, RequestInv, ProgressInv
<1>2. CASE entry[c] # None
  BY <1>1, <1>2, FoundStep DEF EnsureEntry
<1>3. CASE entry[c] = None
  <2>1. UNCHANGED <<status, published, badge>>
    BY <1>3 DEF EnsureEntry
  <2>2. PICK l \in Allocatable :
           /\ Unlocked(l)
           /\ \E i \in FreeIndexes(l) :
                 /\ entry' = [entry EXCEPT ![c] = [list |-> l, index |-> i]]
                 /\ list' = [list EXCEPT ![l] = Reserve(l, i)]
           /\ ReadList(p, l)
    BY <1>3 DEF EnsureEntry
  <2>3. PICK i \in FreeIndexes(l) :
           /\ entry' = [entry EXCEPT ![c] = [list |-> l, index |-> i]]
           /\ list' = [list EXCEPT ![l] = Reserve(l, i)]
    BY <2>2
  <2>4. QED
    BY <1>1, <1>3, <2>1, <2>2, <2>3, AllocateStep
<1>4. QED
  BY <1>2, <1>3

\* What a request writes that holds no other list, or has read nothing, leaves the
\* reading of the others true.
LEMMA OthersKeepReading ==
  ASSUME IInv, NEW q \in Requests, UNCHANGED <<status, list, entry>>, req'[q] = req[q],
         \A c \in Certificates : badge[c] # None => badge'[c] = badge[c]
  PROVE  RequestInv(req[q])'
<1>1. RequestInv(req[q])
  BY DEF IInv
<1>2. ProgressInv(req[q])'
  BY <1>1 DEF RequestInv, ProgressInv
<1>3. req[q].step = "answered" /\ req[q].op = "credential" => req[q].cert \in Certificates
  BY <1>1 DEF RequestInv, ProgressInv, Located
<1>4. ReadInv(req[q])'
  BY <1>1, <1>3 DEF RequestInv, ReadInv, Shows, EncodedList, PlacedIn, Revoked
<1>5. QED
  BY <1>2, <1>4 DEF RequestInv

\* What is published is what was read under the lock.
LEMMA PublishSnapshotStep == ASSUME IInv, NEW p \in Requests, PublishSnapshot(p) PROVE IInv'
<1> DEFINE l   == req[p].list
           doc == req[p].doc
           r   == GoOn(req[p], doc)
<1>1. /\ req[p] \in Request /\ RequestInv(req[p]) /\ req[p].step = "build"
      /\ l \in Lists /\ list[l] # None
      /\ doc = [revision |-> list[l].revision, revoked |-> EncodedList(l)]
  BY DEF PublishSnapshot, IInv, TypeOK, RequestInv, ReadInv, Located
<1>2. doc \in Snapshot /\ doc # None
  BY <1>1, EncodedListType, StatusAssumption DEF IInv, TypeOK, ListRow, Snapshot
<1>3. /\ UNCHANGED <<status, list, entry, badge>>
      /\ req' = [req EXCEPT ![p] = r]
      /\ published' = [published EXCEPT ![l] = doc]
  BY DEF PublishSnapshot
<1>4. r \in Request /\ RequestInv(r) /\ r.step \in {"answered", "load", "revoke"}
  BY <1>1, <1>2, GoOnFits
<1>5. TypeOK'
  BY <1>2, <1>3, <1>4 DEF IInv, TypeOK
<1>6. TablesInv'
  <2>1. EntriesArePlaced' /\ PositionsAreUnique' /\ RevokedHavePositions' /\ BadgesArePlaced'
    BY <1>3 DEF IInv, TablesInv, EntriesArePlaced, PositionsAreUnique, RevokedHavePositions,
        BadgesArePlaced, Revoked
  <2>2. SnapshotsArePast'
    BY <1>1, <1>2, <1>3 DEF IInv, TypeOK, ListRow, TablesInv, SnapshotsArePast
  <2>3. \A m : EncodedList(m)' = EncodedList(m)
    BY <1>3 DEF EncodedList, PlacedIn, Revoked
  <2>4. CurrentSnapshotIsTrue'
    BY <1>1, <1>2, <1>3, <2>3 DEF IInv, TypeOK, TablesInv, CurrentSnapshotIsTrue, IsCurrent
  <2>5. QED
    BY <2>1, <2>2, <2>4 DEF TablesInv
<1>7. ASSUME NEW q \in Requests PROVE RequestInv(req[q])'
  <2>1. CASE q = p
    <3>1. req'[q] = r
      BY <1>3, <2>1 DEF IInv, TypeOK
    <3>2. RequestInv(req'[q])
      BY <1>4, <3>1
    <3>3. QED
      BY <1>3, <3>2 DEF RequestInv, ProgressInv, ReadInv, Shows, EncodedList, PlacedIn, Revoked
  <2>2. CASE q # p
    BY <1>3, <2>2, OthersKeepReading DEF IInv, TypeOK
  <2>3. QED
    BY <2>1, <2>2
<1>8. LocksExclude'
  BY <1>3, <1>4 DEF IInv, TypeOK, LocksExclude, Holds
<1>9. QED
  BY <1>5, <1>6, <1>7, <1>8 DEF IInv

\* The first signature is kept, and answers everyone.
LEMMA SaveBadgeStep == ASSUME IInv, NEW p \in Requests, SaveBadge(p) PROVE IInv'
<1> DEFINE c == req[p].cert
           b == IF badge[c] = None THEN Sign(p) ELSE badge[c]
           r == [req[p] EXCEPT !.step = "answered", !.doc = b]
<1>1. /\ req[p] \in Request /\ RequestInv(req[p]) /\ req[p].step = "save"
      /\ req[p].op = "credential" /\ c \in Certificates
      /\ entry[c] \in Entry /\ entry[c].list = req[p].list
      /\ badge[c] \in Badge \cup {None}
  BY DEF SaveBadge, IInv, TypeOK, RequestInv, ProgressInv, ReadInv, Located
<1>2. b \in Badge /\ b # None
  BY <1>1, StatusAssumption DEF Sign, Badge
<1>3. b.entry = entry[c]
  BY <1>1 DEF Sign, IInv, TablesInv, BadgesArePlaced
<1>4. /\ badge' = [badge EXCEPT ![c] = b]
      /\ badge'[c] = b
      /\ UNCHANGED <<status, list, entry, published>>
      /\ req' = [req EXCEPT ![p] = r]
  BY <1>1 DEF SaveBadge, IInv, TypeOK
<1>5. /\ r \in Request /\ r.step = "answered" /\ r.op = "credential" /\ r.cert = c
      /\ r.list = req[p].list /\ r.then = req[p].then /\ r.known = req[p].known /\ r.doc = b
  BY <1>1, <1>2 DEF Request
<1>6. TypeOK'
  BY <1>2, <1>4, <1>5 DEF IInv, TypeOK
<1>7. TablesInv'
  <2>1. /\ EntriesArePlaced' /\ PositionsAreUnique' /\ RevokedHavePositions'
        /\ SnapshotsArePast' /\ CurrentSnapshotIsTrue'
    BY <1>4 DEF IInv, TablesInv, EntriesArePlaced, PositionsAreUnique, RevokedHavePositions,
        SnapshotsArePast, CurrentSnapshotIsTrue, IsCurrent, EncodedList, PlacedIn, Revoked
  <2>2. BadgesArePlaced'
    BY <1>1, <1>3, <1>4, StatusAssumption DEF IInv, TypeOK, TablesInv, BadgesArePlaced
  <2>3. QED
    BY <2>1, <2>2 DEF TablesInv
<1>8. ASSUME NEW q \in Requests PROVE RequestInv(req[q])'
  <2>1. CASE q = p
    <3>1. req'[q] = r
      BY <1>4, <2>1 DEF IInv, TypeOK
    <3>2. ProgressInv(req[q])'
      BY <1>1, <1>5, <3>1 DEF RequestInv, ProgressInv, Located
    <3>3. /\ req'[q].step = "answered" /\ req'[q].op = "credential" /\ req'[q].cert = c
          /\ req'[q].list = req[p].list /\ req'[q].known = req[p].known
          /\ req'[q].doc = badge'[c] /\ badge'[c] # None
      BY <1>2, <1>4, <1>5, <3>1
    <3>4. ReadInv(req[q])'
      BY <1>1, <1>4, <3>3 DEF RequestInv, ReadInv, Located, Revoked
    <3>5. QED
      BY <3>2, <3>4 DEF RequestInv
  <2>2. CASE q # p
    <3>1. \A d \in Certificates : badge[d] # None => badge'[d] = badge[d]
      BY <1>4 DEF IInv, TypeOK
    <3>2. QED
      BY <1>4, <2>2, <3>1, OthersKeepReading DEF IInv, TypeOK
  <2>3. QED
    BY <2>1, <2>2
<1>9. LocksExclude'
  BY <1>4, <1>5 DEF IInv, TypeOK, LocksExclude, Holds
<1>10. QED
  BY <1>6, <1>7, <1>8, <1>9 DEF IInv

\* A revocation sets one bit, of the list that is locked for it.
LEMMA RevocationBits ==
  ASSUME IInv, NEW c \in Certificates, entry[c] # None, status[c] = "ACTIVE",
         status' = [status EXCEPT ![c] = "REVOKED"], entry' = entry
  PROVE  /\ Revoked' = Revoked \cup {c}
         /\ \A m : PlacedIn(m)' = PlacedIn(m)
         /\ \A m : EncodedList(m)' =
               IF m = entry[c].list THEN EncodedList(m) \cup {entry[c].index} ELSE EncodedList(m)
<1>1. Revoked' = Revoked \cup {c}
  BY DEF IInv, TypeOK, Revoked
<1>2. \A m : PlacedIn(m)' = PlacedIn(m)
  BY DEF PlacedIn
<1>3. \A m : PlacedIn(m)' \cap Revoked' =
         IF m = entry[c].list THEN (PlacedIn(m) \cap Revoked) \cup {c} ELSE PlacedIn(m) \cap Revoked
  BY <1>1, <1>2 DEF PlacedIn
<1>4. \A m : EncodedList(m)' =
         IF m = entry[c].list THEN EncodedList(m) \cup {entry[c].index} ELSE EncodedList(m)
  BY <1>3 DEF EncodedList
<1>5. QED
  BY <1>1, <1>2, <1>4

\* The trigger puts the list out of service in the step that revokes.
LEMMA CommitRevocationStep == ASSUME IInv, NEW p \in Requests, CommitRevocation(p) PROVE IInv'
<1> DEFINE c == req[p].cert
           l == req[p].list
           r == [req[p] EXCEPT !.step = "read", !.then = "answered", !.known = Revoked \cup {c}]
<1>1. /\ req[p] \in Request /\ RequestInv(req[p]) /\ req[p].step = "revoking"
      /\ req[p].op = "revoke" /\ c \in Certificates
      /\ l \in Lists /\ list[l] # None /\ entry[c] # None /\ entry[c].list = l
      /\ status[c] = "ACTIVE"
  BY DEF CommitRevocation, IInv, TypeOK, RequestInv, ProgressInv, ReadInv, Located
<1>2. /\ status' = [status EXCEPT ![c] = "REVOKED"]
      /\ list' = [list EXCEPT ![l].revision = @ + 1]
      /\ UNCHANGED <<entry, published, badge>>
      /\ req' = [req EXCEPT ![p] = r]
  BY <1>1, StatusAssumption DEF CommitRevocation
<1>3. /\ list[l] \in ListRow /\ list'[l] \in ListRow /\ list'[l] # None
      /\ list'[l].revision = list[l].revision + 1
      /\ \A m \in Lists \ {l} : list'[m] = list[m]
  <2>1. list[l] \in ListRow
    BY <1>1 DEF IInv, TypeOK
  <2>2. list'[l] = [list[l] EXCEPT !.revision = @ + 1]
    BY <1>1, <1>2 DEF IInv, TypeOK
  <2>3. list'[l] \in ListRow /\ list'[l].revision = list[l].revision + 1
    BY <2>1, <2>2 DEF ListRow
  <2>4. QED
    BY <1>1, <1>2, <2>1, <2>3, NoneIsNoRow DEF IInv, TypeOK
<1>4. /\ Revoked' = Revoked \cup {c}
      /\ \A m : PlacedIn(m)' = PlacedIn(m)
      /\ \A m : EncodedList(m)' =
            IF m = l THEN EncodedList(m) \cup {entry[c].index} ELSE EncodedList(m)
  BY <1>1, <1>2, RevocationBits
<1>5. /\ r \in Request /\ r.step = "read" /\ r.then = "answered" /\ r.known = Revoked \cup {c}
      /\ r.op = "revoke" /\ r.cert = c /\ r.list = l
  BY <1>1 DEF Request, Revoked
<1>6. TypeOK'
  <2>1. list' \in [Lists -> ListRow \cup {None}]
    BY <1>2, <1>3 DEF IInv, TypeOK
  <2>2. QED
    BY <1>2, <1>5, <2>1 DEF IInv, TypeOK
<1>7. TablesInv'
  <2>1. EntriesArePlaced'
    BY <1>1, <1>2, <1>3 DEF IInv, TypeOK, Entry, TablesInv, EntriesArePlaced
  <2>2. PositionsAreUnique' /\ BadgesArePlaced'
    BY <1>2 DEF IInv, TablesInv, PositionsAreUnique, BadgesArePlaced
  <2>3. RevokedHavePositions'
    BY <1>1, <1>2, <1>4 DEF IInv, TablesInv, RevokedHavePositions
  <2>4. SnapshotsArePast'
    <3>1. ASSUME NEW m \in Lists, published[m] # None
          PROVE  list'[m] # None /\ published[m].revision <= list'[m].revision
      <4>1. /\ list[m] # None /\ published[m].revision <= list[m].revision
            /\ published[m].revision \in Nat
        BY <3>1 DEF IInv, TypeOK, Snapshot, TablesInv, SnapshotsArePast
      <4>2. QED
        BY <1>3, <4>1 DEF ListRow
    <3>2. QED
      BY <1>2, <3>1 DEF SnapshotsArePast
  <2>5. CurrentSnapshotIsTrue'
    <3>1. ASSUME NEW m \in Lists, list'[m] # None, IsCurrent(m)'
          PROVE  published[m].revoked = EncodedList(m)'
      <4>1. published[m] # None /\ published[m].revision = list'[m].revision
        BY <1>2, <3>1 DEF IsCurrent
      <4>2. /\ list[m] # None
            /\ published[m].revision <= list[m].revision /\ published[m].revision \in Nat
        BY <4>1 DEF IInv, TypeOK, Snapshot, TablesInv, SnapshotsArePast
      <4>3. m # l
        BY <1>3, <4>1, <4>2 DEF ListRow
      <4>4. IsCurrent(m)
        BY <1>3, <4>1, <4>3 DEF IsCurrent
      <4>5. QED
        BY <1>4, <4>2, <4>3, <4>4 DEF IInv, TablesInv, CurrentSnapshotIsTrue
    <3>2. QED
      BY <1>2, <3>1 DEF CurrentSnapshotIsTrue
  <2>6. QED
    BY <2>1, <2>2, <2>3, <2>4, <2>5 DEF TablesInv
<1>8. ASSUME NEW q \in Requests PROVE RequestInv(req[q])'
  <2>1. CASE q = p
    <3>1. req'[q] = r
      BY <1>2, <2>1 DEF IInv, TypeOK
    <3>2. ProgressInv(req[q])'
      BY <1>1, <1>5, <3>1 DEF ProgressInv
    <3>3. /\ req'[q].step = "read" /\ req'[q].op = "revoke" /\ req'[q].cert = c
          /\ req'[q].list = l /\ req'[q].known = Revoked'
      BY <1>4, <1>5, <3>1
    <3>4. ReadInv(req[q])'
      BY <1>1, <1>2, <1>3, <3>3 DEF ReadInv, Located
    <3>5. QED
      BY <3>2, <3>4 DEF RequestInv
  <2>2. CASE q # p
    <3> DEFINE s == req[q]
    <3>1. /\ req'[q] = s /\ s \in Request /\ ProgressInv(s) /\ ReadInv(s)
      BY <1>2, <2>2 DEF IInv, TypeOK, RequestInv
    <3>2. ~Holds(q, l)
      BY <1>1, <2>2 DEF IInv, LocksExclude, Holds
    <3>3. s.step = "build" => list'[s.list] = list[s.list] /\ EncodedList(s.list)' = EncodedList(s.list)
      <4>1. s.step = "build" => s.list # l /\ s.list \in Lists
        BY <3>1, <3>2 DEF Holds, ReadInv, Located
      <4>2. QED
        BY <1>3, <1>4, <3>1, <4>1
    <3>4. s.step = "revoking" => s.cert # c /\ status'[s.cert] = status[s.cert]
      <4>1. s.step = "revoking" => s.cert \in Certificates /\ entry[s.cert].list = s.list
        BY <3>1 DEF ProgressInv, ReadInv, Located
      <4>2. s.step = "revoking" => s.cert # c
        BY <1>1, <3>2, <4>1 DEF Holds
      <4>3. QED
        BY <1>2, <4>1, <4>2 DEF IInv, TypeOK
    <3>5. s.step = "answered" /\ s.op # "credential" => Shows(s, s.doc)'
      <4>1. Shows(s, s.doc) => Shows(s, s.doc)'
        BY <1>2, <1>4, <3>1 DEF Shows
      <4>2. QED
        BY <3>1, <4>1 DEF ReadInv
    <3>6. s.step \in Located => s.list \in Lists /\ list'[s.list] # None
      BY <1>3, <3>1 DEF ReadInv
    <3>7. ReadInv(s)'
      BY <1>2, <1>4, <3>1, <3>3, <3>4, <3>5, <3>6 DEF ReadInv
    <3>8. QED
      BY <3>1, <3>7 DEF RequestInv, ProgressInv
  <2>3. QED
    BY <2>1, <2>2
<1>9. LocksExclude'
  BY <1>2, <1>5 DEF IInv, TypeOK, LocksExclude, Holds
<1>10. QED
  BY <1>6, <1>7, <1>8, <1>9 DEF IInv

-----------------------------------------------------------------------------
\* Every step of every request keeps the invariant.
LEMMA NextInv == IInv /\ [Next]_vars => IInv'
<1> SUFFICES ASSUME IInv, [Next]_vars PROVE IInv'
  OBVIOUS
<1>1. ASSUME NEW p \in Requests,
             \/ \E l \in Lists : BeginStatus(p, l)
             \/ \E c \in Certificates : BeginCredential(p, c) \/ BeginRevoke(p, c)
      PROVE  IInv'
  BY <1>1, BeginStep
<1>2. ASSUME NEW p \in Requests, Step(p) PROVE IInv'
  BY <1>2, EnsureEntryStep, ReadCurrentStep, LockAndReadStep, PublishSnapshotStep,
     ExecuteRevocationStep, CommitRevocationStep, LoadBadgeStep, SaveBadgeStep DEF Step
<1>3. ASSUME NEW p \in Requests, EndRequest(p) PROVE IInv'
  BY <1>3, EndRequestStep
<1>4. CASE UNCHANGED vars
  BY <1>4 DEF IInv, TypeOK, ListRow, TablesInv, EntriesArePlaced, PositionsAreUnique,
      RevokedHavePositions, SnapshotsArePast, CurrentSnapshotIsTrue, IsCurrent, BadgesArePlaced,
      RequestInv, ProgressInv, ReadInv, Shows, EncodedList, PlacedIn, Revoked, LocksExclude,
      Holds, vars, tables
<1>5. QED
  BY <1>1, <1>2, <1>3, <1>4 DEF Next

\* The inductive invariant holds throughout.
THEOREM Inductive == Spec => []IInv
<1>1. QED
  BY InitInv, NextInv, PTL DEF Spec

\* Every variable keeps its type.
THEOREM StatusTypeCorrect == Spec => []TypeOK
<1>1. IInv => TypeOK
  BY DEF IInv
<1>2. QED
  BY <1>1, Inductive, PTL

\* A snapshot of the list's revision shows exactly what is revoked.
THEOREM SnapshotsCorrect == Spec => []CurrentSnapshotIsTrue
<1>1. IInv => CurrentSnapshotIsTrue
  BY DEF IInv, TablesInv
<1>2. QED
  BY <1>1, Inductive, PTL

\* No verifier is shown a list without a revocation that was durable before.
THEOREM StatusIsNeverStale == Spec => []NoStaleStatus
<1>1. IInv => NoStaleStatus
  <2> SUFFICES ASSUME IInv, NEW p \in Requests,
                      req[p].step = "answered", req[p].op # "credential"
               PROVE  /\ \A c \in req[p].known \cap PlacedIn(req[p].list) :
                            entry[c].index \in req[p].doc.revoked
                      /\ req[p].doc.revoked \subseteq EncodedList(req[p].list)
                      /\ req[p].op = "revoke" => req[p].cert \in req[p].known
    BY DEF NoStaleStatus
  <2>1. RequestInv(req[p])
    BY DEF IInv
  <2>2. Shows(req[p], req[p].doc)
    BY <2>1 DEF RequestInv, ReadInv
  <2>3. QED
    BY <2>1, <2>2 DEF RequestInv, ProgressInv, Shows
<1>2. QED
  BY <1>1, Inductive, PTL

\* One badge is kept for each certificate, with its position, and all get it.
THEOREM BadgesCorrect == Spec => []BadgesAgree
<1>1. IInv => BadgesAgree
  BY DEF IInv, TablesInv, BadgesArePlaced, RequestInv, ReadInv, BadgesAgree
<1>2. QED
  BY <1>1, Inductive, PTL

-----------------------------------------------------------------------------
\* An allocation counts the position that it takes.
LEMMA AllocationCounts ==
  ASSUME IInv, AllocationIsExact, NEW p \in Requests, EnsureEntry(p)
  PROVE  AllocationIsExact'
<1> DEFINE Exact(l) == IF list[l] = None THEN PlacedIn(l) = {}
                       ELSE list[l].reserved = Cardinality(PlacedIn(l))
<1>1. IInv'
  BY EnsureEntryStep
<1>2. CASE UNCHANGED tables
  BY <1>2 DEF AllocationIsExact, PlacedIn, tables
<1>3. CASE ~UNCHANGED tables
  <2> PICK c \in Certificates : c = req[p].cert
    BY DEF EnsureEntry, IInv, RequestInv, ProgressInv
  <2> PICK l \in Allocatable :
         /\ entry[c] = None /\ status' = status
         /\ \E i \in FreeIndexes(l) :
               /\ entry' = [entry EXCEPT ![c] = [list |-> l, index |-> i]]
               /\ list' = [list EXCEPT ![l] = Reserve(l, i)]
    BY <1>3 DEF EnsureEntry
  <2>1. PICK i \in FreeIndexes(l) :
           /\ entry' = [entry EXCEPT ![c] = [list |-> l, index |-> i]]
           /\ list' = [list EXCEPT ![l] = Reserve(l, i)]
    OBVIOUS
  <2> DEFINE e == [list |-> l, index |-> i]
  <2>2. l \in Lists /\ e \in Entry /\ e.list = l /\ e # None /\ entry' = [entry EXCEPT ![c] = e]
    <3>1. l \in Lists /\ i \in Indexes
      BY DEF Allocatable, FreeIndexes
    <3>2. e \in Entry
      BY <3>1 DEF Entry
    <3>3. e # None
      BY <3>2, StatusAssumption
    <3>4. QED
      BY <2>1, <3>1, <3>2, <3>3
  <2>3. \A m : PlacedIn(m)' = IF m = l THEN PlacedIn(m) \cup {c} ELSE PlacedIn(m)
    <3> HIDE DEF e
    <3>1. \A m : PlacedIn(m)' = IF m = e.list THEN PlacedIn(m) \cup {c} ELSE PlacedIn(m)
      BY <2>2, AllocateBits
    <3>2. QED
      BY <2>2, <3>1
  <2>4. IsFiniteSet(PlacedIn(l)) /\ c \notin PlacedIn(l)
    BY StatusAssumption, FS_Subset DEF PlacedIn
  <2>5. Cardinality(PlacedIn(l)') = Cardinality(PlacedIn(l)) + 1
    BY <2>3, <2>4, FS_AddElement
  <2>6. Row(l).reserved = Cardinality(PlacedIn(l))
    BY <2>2, FS_EmptySet DEF AllocationIsExact, Row
  <2>7. /\ list'[l].reserved = Row(l).reserved + 1
        /\ \A m \in Lists \ {l} : list'[m] = list[m]
    BY <2>1, <2>2 DEF IInv, TypeOK, Reserve
  <2>8. list'[l] # None
    <3>1. entry'[c] = e
      BY <2>2 DEF IInv, TypeOK
    <3>2. QED
      BY <1>1, <2>2, <3>1 DEF IInv, TablesInv, EntriesArePlaced
  <2>9. ASSUME NEW m \in Lists PROVE Exact(m)'
    <3>1. CASE m = l
      BY <2>5, <2>6, <2>7, <2>8, <3>1
    <3>2. CASE m # l
      BY <2>3, <2>7, <3>2 DEF AllocationIsExact
    <3>3. QED
      BY <3>1, <3>2
  <2>10. QED
    BY <1>1, <2>9 DEF IInv, TablesInv, PositionsAreUnique, AllocationIsExact
<1>4. QED
  BY <1>2, <1>3

\* next_index is the number of a list's entries, and no two share a position.
THEOREM AllocationCorrect == Spec => []AllocationIsExact
<1>1. Init => AllocationIsExact
  BY DEF Init, AllocationIsExact, PlacedIn
<1>2. IInv /\ AllocationIsExact /\ [Next]_vars => AllocationIsExact'
  <2> SUFFICES ASSUME IInv, AllocationIsExact, [Next]_vars PROVE AllocationIsExact'
    OBVIOUS
  <2>1. ASSUME NEW p \in Requests, EnsureEntry(p) PROVE AllocationIsExact'
    BY <2>1, AllocationCounts
  <2>2. ASSUME NEW p \in Requests, CommitRevocation(p) PROVE AllocationIsExact'
    <3>1. entry' = entry
      BY <2>2 DEF CommitRevocation
    <3>2. ASSUME NEW m \in Lists
          PROVE  (list'[m] = None <=> list[m] = None)
                 /\ (list[m] # None => list'[m].reserved = list[m].reserved)
      <4> PICK l \in Lists : l = req[p].list /\ list[l] # None
        BY <2>2 DEF CommitRevocation, IInv, RequestInv, ReadInv, Located
      <4>1. list' = [list EXCEPT ![l].revision = @ + 1]
        BY <2>2, StatusAssumption DEF CommitRevocation
      <4>2. list[l] \in ListRow /\ list'[l] = [list[l] EXCEPT !.revision = @ + 1]
        BY <4>1 DEF IInv, TypeOK
      <4>3. list'[l] \in ListRow /\ list'[l].reserved = list[l].reserved
        BY <4>2 DEF ListRow
      <4>4. QED
        BY <4>1, <4>3, NoneIsNoRow DEF IInv, TypeOK
    <3>3. QED
      BY <3>1, <3>2 DEF AllocationIsExact, PlacedIn
  <2>3. CASE UNCHANGED <<list, entry>>
    BY <2>3 DEF AllocationIsExact, PlacedIn
  <2>4. QED
    BY <2>1, <2>2, <2>3 DEF Next, Step, BeginStatus, BeginCredential, BeginRevoke, ReadCurrent,
        LockAndRead, PublishSnapshot, ExecuteRevocation, LoadBadge, SaveBadge, EndRequest,
        vars, tables
<1>3. QED
  BY <1>1, <1>2, Inductive, PTL DEF Spec

-----------------------------------------------------------------------------
\* The bitstrings that may be served for a list.
Visible(l) == IF list[l] # None /\ IsCurrent(l) THEN {published[l].revoked} ELSE {}

\* A list whose revision has advanced is out of service.
LEMMA AdvanceHides ==
  ASSUME IInv, NEW l \in Lists, published' = published,
         list'[l].revision = Row(l).revision + 1
  PROVE  Visible(l)' = {}
<1>1. ASSUME IsCurrent(l)' PROVE FALSE
  <2>1. published[l] # None /\ published[l].revision = list'[l].revision
    BY <1>1 DEF IsCurrent
  <2>2. /\ list[l] \in ListRow /\ published[l].revision <= list[l].revision
        /\ published[l].revision \in Nat /\ list[l] # None
    BY <2>1 DEF IInv, TypeOK, Snapshot, TablesInv, SnapshotsArePast
  <2>3. QED
    BY <2>1, <2>2 DEF Row, ListRow
<1>2. QED
  BY <1>1 DEF Visible

\* A list that is left alone is served as before.
LEMMA OthersStayVisible ==
  ASSUME NEW l \in Lists, published'[l] = published[l], list'[l] = list[l]
  PROVE  Visible(l)' = Visible(l)
  BY DEF Visible, IsCurrent

\* An allocation is one of the contract, and puts its list out of service.
LEMMA AllocateRefines ==
  ASSUME IInv, NEW p \in Requests, EnsureEntry(p)
  PROVE  Contract!Allocate \/ UNCHANGED Contract!vars
<1> DEFINE c == req[p].cert
<1>1. c \in Certificates
  BY DEF EnsureEntry, IInv, TypeOK, RequestInv, ProgressInv
<1>2. CASE UNCHANGED tables
  BY <1>2 DEF tables, Contract!vars, Revoked, IsCurrent
<1>3. CASE ~UNCHANGED tables
  <2>1. /\ entry[c] = None
        /\ UNCHANGED <<status, published, badge>>
        /\ \E l \in Allocatable : \E i \in FreeIndexes(l) :
              /\ entry' = [entry EXCEPT ![c] = [list |-> l, index |-> i]]
              /\ list' = [list EXCEPT ![l] = Reserve(l, i)]
    BY <1>3 DEF EnsureEntry
  <2> PICK l \in Allocatable :
         \E i \in FreeIndexes(l) :
            /\ entry' = [entry EXCEPT ![c] = [list |-> l, index |-> i]]
            /\ list' = [list EXCEPT ![l] = Reserve(l, i)]
    BY <2>1
  <2>2. PICK i \in FreeIndexes(l) :
           /\ entry' = [entry EXCEPT ![c] = [list |-> l, index |-> i]]
           /\ list' = [list EXCEPT ![l] = Reserve(l, i)]
    OBVIOUS
  <2>3. l \in Lists /\ i \in 0..(Capacity - 1) /\ \A d \in PlacedIn(l) : entry[d].index # i
    BY DEF Allocatable, FreeIndexes, Indexes
  <2>4. list'[l].revision = Row(l).revision + 1
    BY <2>2, <2>3 DEF IInv, TypeOK, Reserve
  <2>5. Visible(l)' = {}
    BY <2>1, <2>3, <2>4, AdvanceHides
  <2>6. \A m \in Lists \ {l} : Visible(m)' = Visible(m)
    BY <2>1, <2>2, OthersStayVisible DEF IInv, TypeOK
  <2>7. [m \in Lists |-> Visible(m)]' = [[m \in Lists |-> Visible(m)] EXCEPT ![l] = {}]
    BY <2>3, <2>5, <2>6
  <2>8. Revoked' = Revoked
    BY <2>1 DEF Revoked
  <2>9. \A d \in Contract!Placed(l) : entry[d].index # i
    BY <2>3 DEF Contract!Placed, PlacedIn
  <2>10. Contract!Allocate
    BY <1>1, <2>1, <2>2, <2>3, <2>7, <2>8, <2>9 DEF Contract!Allocate, Contract!Unavailable, Visible
  <2>11. QED
    BY <2>10
<1>4. QED
  BY <1>2, <1>3

\* The commit of a revocation is one of the contract.
LEMMA RevokeRefines ==
  ASSUME IInv, NEW p \in Requests, CommitRevocation(p)
  PROVE  Contract!Revoke
<1> DEFINE c == req[p].cert
<1> PICK l \in Lists : l = req[p].list
  BY DEF CommitRevocation, IInv, RequestInv, ReadInv, Located
<1>1. /\ c \in Certificates /\ l \in Lists /\ list[l] # None /\ list[l] \in ListRow
      /\ entry[c] # None /\ entry[c].list = l /\ status[c] = "ACTIVE"
  BY DEF CommitRevocation, IInv, TypeOK, RequestInv, ProgressInv, ReadInv, Located
<1>2. /\ status' = [status EXCEPT ![c] = "REVOKED"]
      /\ list' = [list EXCEPT ![l].revision = @ + 1]
      /\ UNCHANGED <<entry, published, badge>>
  BY <1>1, StatusAssumption DEF CommitRevocation
<1>3. list'[l].revision = Row(l).revision + 1
  BY <1>1, <1>2 DEF IInv, TypeOK, ListRow, Row
<1>4. Visible(l)' = {}
  BY <1>1, <1>2, <1>3, AdvanceHides
<1>5. \A m \in Lists \ {l} : Visible(m)' = Visible(m)
  BY <1>2, OthersStayVisible DEF IInv, TypeOK
<1>6. [m \in Lists |-> Visible(m)]' = [[m \in Lists |-> Visible(m)] EXCEPT ![l] = {}]
  BY <1>1, <1>4, <1>5
<1>7. Revoked' = Revoked \cup {c} /\ c \in Certificates \ Revoked
  BY <1>1, <1>2, RevocationBits DEF Revoked
<1>8. QED
  BY <1>1, <1>2, <1>6, <1>7 DEF Contract!Revoke, Contract!Unavailable, Visible

\* A publication puts a list back into service with the truth, or repeats it.
LEMMA PublishRefines ==
  ASSUME IInv, NEW p \in Requests, PublishSnapshot(p)
  PROVE  Contract!Publish \/ UNCHANGED Contract!vars
<1> PICK l \in Lists : l = req[p].list
  BY DEF PublishSnapshot, IInv, RequestInv, ReadInv, Located
<1>1. /\ l \in Lists /\ list[l] # None
      /\ req[p].doc = [revision |-> list[l].revision, revoked |-> EncodedList(l)]
      /\ req[p].doc # None
  <2>1. /\ l \in Lists /\ list[l] # None /\ list[l] \in ListRow
        /\ req[p].doc = [revision |-> list[l].revision, revoked |-> EncodedList(l)]
    BY DEF PublishSnapshot, IInv, TypeOK, RequestInv, ReadInv, Located
  <2>2. req[p].doc \in Snapshot
    BY <2>1, EncodedListType DEF IInv, ListRow, Snapshot
  <2>3. QED
    BY <2>1, <2>2, StatusAssumption
<1>2. UNCHANGED <<status, list, entry>> /\ published' = [published EXCEPT ![l] = req[p].doc]
  BY DEF PublishSnapshot
<1>3. Visible(l)' = {EncodedList(l)}
  BY <1>1, <1>2 DEF IInv, TypeOK, Visible, IsCurrent
<1>4. \A m \in Lists \ {l} : Visible(m)' = Visible(m)
  BY <1>2, OthersStayVisible DEF IInv, TypeOK
<1>5. [m \in Lists |-> Visible(m)]' = [[m \in Lists |-> Visible(m)] EXCEPT ![l] = {EncodedList(l)}]
  BY <1>1, <1>3, <1>4
<1>6. Revoked' = Revoked
  BY <1>2 DEF Revoked
<1>7. EncodedList(l) = Contract!Truth(l)
  BY DEF EncodedList, PlacedIn, Contract!Truth, Contract!Placed
<1>8. CASE Visible(l) = {}
  BY <1>1, <1>2, <1>5, <1>6, <1>7, <1>8 DEF Contract!Publish, Contract!Unavailable, Visible
<1>9. CASE Visible(l) # {}
  <2>1. Visible(l) = {EncodedList(l)}
    BY <1>1, <1>9 DEF Visible, IInv, TablesInv, CurrentSnapshotIsTrue
  <2>2. [m \in Lists |-> Visible(m)]' = [m \in Lists |-> Visible(m)]
    BY <1>5, <2>1
  <2>3. QED
    BY <1>2, <1>6, <2>2 DEF Contract!vars, Visible
<1>10. QED
  BY <1>8, <1>9

\* What is served implements lists that are true or out of service.
THEOREM StatusRefinement == Spec => ImplementsContract
<1>1. Init => Contract!Init
  BY DEF Init, Contract!Init, Contract!Unavailable, Revoked, IsCurrent
<1>2. IInv /\ [Next]_vars => [Contract!Next]_(Contract!vars)
  <2> SUFFICES ASSUME IInv, [Next]_vars PROVE [Contract!Next]_(Contract!vars)
    OBVIOUS
  <2>1. CASE UNCHANGED <<status, list, entry, published>>
    BY <2>1 DEF Contract!vars, Revoked, IsCurrent
  <2>2. ASSUME NEW p \in Requests, EnsureEntry(p) PROVE [Contract!Next]_(Contract!vars)
    BY <2>2, AllocateRefines DEF Contract!Next
  <2>3. ASSUME NEW p \in Requests, CommitRevocation(p) PROVE [Contract!Next]_(Contract!vars)
    BY <2>3, RevokeRefines DEF Contract!Next
  <2>4. ASSUME NEW p \in Requests, PublishSnapshot(p) PROVE [Contract!Next]_(Contract!vars)
    BY <2>4, PublishRefines DEF Contract!Next
  <2>5. QED
    BY <2>1, <2>2, <2>3, <2>4 DEF Next, Step, BeginStatus, BeginCredential, BeginRevoke,
        ReadCurrent, LockAndRead, ExecuteRevocation, LoadBadge, SaveBadge, EndRequest, vars, tables
<1>3. QED
  BY <1>1, <1>2, Inductive, PTL DEF Spec, ImplementsContract, Contract!Spec

=============================================================================
