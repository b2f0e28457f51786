------------------------------- MODULE AssetStore -------------------------------
(***************************************************************************)
(* Assets: rows in PostgreSQL, bytes in a binary store, and no transaction   *)
(* that spans the two.                                                      *)
(*                                                                         *)
(* An upload creates a PENDING row, stores the bytes, and makes the row      *)
(* AVAILABLE.  A package import stores the bytes of its files and writes all *)
(* of its rows in one transaction.  Either clears up after a failure with    *)
(* steps of its own, which may fail too, and neither knows for certain what  *)
(* became of a statement whose answer did not arrive.                       *)
(***************************************************************************)
EXTENDS Naturals, FiniteSets

CONSTANTS
    Assets,        \* identifiers of rows of assets.asset
    Objects,       \* identifiers that the binary store may generate
    Packages,      \* fingerprints of packages of one portable course
    SourceVersion, \* the portable course version that a package holds
    PackageFiles,  \* how many files a package holds
    Requests,      \* slots for requests in flight
    CommitsAreConfirmed, \* an import always learns what became of its COMMIT
    None           \* no asset, object, package or answer

Answers == {"available", "imported", "replayed", "conflict", "failed"}

ASSUME AssetAssumption ==
    /\ None \notin Assets \cup Objects \cup Packages \cup Answers
    /\ Assets \cap Objects = {}
    /\ CommitsAreConfirmed \in BOOLEAN
    /\ PackageFiles \in Nat
    /\ DOMAIN SourceVersion = Packages

VARIABLES
    asset,    \* assets.asset, of uploads
    object,   \* the files of the binary store
    imported, \* packages with a row in portability.import_record
    bindings, \* the objects that the version imported from a package binds
    late,     \* statements of lost connections that the database may yet execute
    req,      \* the requests in flight
    left      \* history: what a second failure, a lost answer or a stop left behind

imports == <<imported, bindings>>

vars == <<asset, object, imports, late, req, left>>

-----------------------------------------------------------------------------
Row == [lifecycle : {"NONE", "PENDING", "AVAILABLE", "DISCARDED"}, object : Objects \cup {None}]

Statement == [kind : {"mark", "delete"}, asset : Assets, object : Objects \cup {None}]

\* made are the objects that an import has stored so far.
Request ==
    [step    : {"idle", "put", "mark", "readback", "discard", "discardRow", "remove",
                "lock", "ingest", "compensate", "answered"},
     asset   : Assets \cup {None},
     object  : Objects \cup {None},
     package : Packages \cup {None},
     made    : SUBSET Objects,
     answer  : Answers \cup {None}]

Idle == [step |-> "idle", asset |-> None, object |-> None, package |-> None,
         made |-> {}, answer |-> None]

Init ==
    /\ asset = [a \in Assets |-> [lifecycle |-> "NONE", object |-> None]]
    /\ object = [o \in Objects |-> "unused"]
    /\ imported = {}
    /\ bindings = [k \in Packages |-> {}]
    /\ late = {}
    /\ req = [p \in Requests |-> Idle]
    /\ left = {}

InProgress(p) == req[p].step \notin {"idle", "answered"}

\* What a request would leave behind if it ended now.
Belongings(p) == ({req[p].asset, req[p].object} \cup req[p].made) \ {None}

GoTo(p, step) == req' = [req EXCEPT ![p].step = step]

Answer(p, answer) == req' = [req EXCEPT ![p] = [@ EXCEPT !.step = "answered", !.answer = answer]]

\* ErrRollbackIncomplete: what there is stays, and the failure says so.
AnswerIncomplete(p) ==
    /\ Answer(p, "failed")
    /\ left' = left \cup Belongings(p)

Executed(s) ==
    IF s.kind = "mark"
    THEN [asset EXCEPT ![s.asset] = [lifecycle |-> "AVAILABLE", object |-> s.object]]
    ELSE [asset EXCEPT ![s.asset].lifecycle = "DISCARDED"]

-----------------------------------------------------------------------------
(* Upload *)

\* The row is PENDING; if only the answer is lost, the upload ends here.
CreateAsset(p, a) ==
    /\ req[p] = Idle
    /\ asset[a].lifecycle = "NONE"
    /\ asset' = [asset EXCEPT ![a].lifecycle = "PENDING"]
    /\ \/ /\ req' = [req EXCEPT ![p] = [Idle EXCEPT !.step = "put", !.asset = a]]
          /\ UNCHANGED left
       \/ /\ left' = left \cup {a}
          /\ UNCHANGED req
    /\ UNCHANGED <<object, imports, late>>

\* Mutant of PutFails: the row of a failed upload is not discarded.
PutFailsAndAnswers(p) ==
    /\ req[p].step = "put"
    /\ Answer(p, "failed")
    /\ UNCHANGED <<asset, object, imports, late, left>>

\* A file is written under an identifier never used before.
Put(p) ==
    /\ req[p].step = "put"
    /\ \E o \in Objects :
          /\ object[o] = "unused"
          /\ object' = [object EXCEPT ![o] = "stored"]
          /\ req' = [req EXCEPT ![p] = [@ EXCEPT !.step = "mark", !.object = o]]
    /\ UNCHANGED <<asset, imports, late, left>>

\* Writing fails, and nothing is left of the file unless its removal fails too.
PutFails(p) ==
    /\ req[p].step = "put"
    /\ GoTo(p, "discardRow")
    /\ \/ UNCHANGED <<object, left>>
       \/ \E o \in Objects :
             /\ object[o] = "unused"
             /\ object' = [object EXCEPT ![o] = "stored"]
             /\ left' = left \cup {o}
    /\ UNCHANGED <<asset, imports, late>>

MarkStatement(p) == [kind |-> "mark", asset |-> req[p].asset, object |-> req[p].object]

\* The UPDATE is executed, fails, or is still on its way when the connection
\* is given up; only in the first case can the answer arrive.
MarkAssetAvailable(p) ==
    /\ req[p].step = "mark"
    /\ \/ /\ asset' = Executed(MarkStatement(p))
          /\ Answer(p, "available") \/ GoTo(p, "readback")
          /\ UNCHANGED late
       \/ /\ GoTo(p, "readback")
          /\ late' = late \/ late' = late \cup {MarkStatement(p)}
          /\ UNCHANGED asset
    /\ UNCHANGED <<object, imports, left>>

\* Mutant of ReadBack: any row that can be read is taken for success.
ReadBackAny(p) ==
    /\ req[p].step = "readback"
    /\ Answer(p, "available")
    /\ UNCHANGED <<asset, object, imports, late, left>>

\* The row is still there: nothing but this request deletes it.
ReadBack(p) ==
    /\ req[p].step = "readback"
    /\ \/ /\ asset[req[p].asset].lifecycle = "AVAILABLE"
          /\ Answer(p, "available")
          /\ UNCHANGED left
       \/ /\ asset[req[p].asset].lifecycle = "PENDING"
          /\ GoTo(p, "discard")
          /\ UNCHANGED left
       \/ AnswerIncomplete(p)
    /\ UNCHANGED <<asset, object, imports, late>>

DeleteStatement(p) == [kind |-> "delete", asset |-> req[p].asset, object |-> None]

\* Mutant of DiscardPendingAsset: the file goes whether or not the row did.
DiscardPendingAssetUnchecked(p) ==
    /\ req[p].step \in {"discard", "discardRow"}
    /\ asset' = IF asset[req[p].asset].lifecycle = "PENDING"
                THEN Executed(DeleteStatement(p)) ELSE asset
    /\ IF req[p].step = "discard" THEN GoTo(p, "remove") ELSE Answer(p, "failed")
    /\ UNCHANGED <<object, imports, late, left>>

\* Only after the row is known to be gone may the file go.
DiscardPendingAsset(p) ==
    /\ req[p].step \in {"discard", "discardRow"}
    /\ \/ /\ asset[req[p].asset].lifecycle = "PENDING"
          /\ asset' = Executed(DeleteStatement(p))
          /\ \/ /\ req[p].step = "discard"
                /\ GoTo(p, "remove")
                /\ UNCHANGED left
             \/ /\ req[p].step = "discardRow"
                /\ Answer(p, "failed")
                /\ UNCHANGED left
             \/ AnswerIncomplete(p)
          /\ UNCHANGED late
       \/ /\ AnswerIncomplete(p)
          /\ late' = late \/ late' = late \cup {DeleteStatement(p)}
          /\ UNCHANGED asset
    /\ UNCHANGED <<object, imports>>

\* The file of an upload that failed; an error may come before the removal or after.
DiscardUncommitted(p) ==
    /\ req[p].step = "remove"
    /\ \/ /\ object' = [object EXCEPT ![req[p].object] = "removed"]
          /\ Answer(p, "failed")
          /\ UNCHANGED left
       \/ /\ AnswerIncomplete(p)
          /\ UNCHANGED object
    /\ UNCHANGED <<asset, imports, late>>

\* PostgreSQL executes a statement whose client is gone; both kinds say
\* WHERE lifecycle = 'PENDING'.
ExecuteLate ==
    /\ \E s \in late :
          /\ late' = late \ {s}
          /\ asset' = IF asset[s.asset].lifecycle = "PENDING" THEN Executed(s) ELSE asset
    /\ UNCHANGED <<object, imports, req, left>>

-----------------------------------------------------------------------------
(* Import *)

BeginImport(p, k) ==
    /\ req[p] = Idle
    /\ req' = [req EXCEPT ![p] =
          IF k \in imported
          THEN [Idle EXCEPT !.step = "answered", !.package = k, !.answer = "replayed"]
          ELSE [Idle EXCEPT !.step = "lock", !.package = k]]
    /\ UNCHANGED <<asset, object, imports, late, left>>

\* Another package of the same portable course version has been imported.
Conflicts(k) ==
    \E other \in Packages \ {k} :
        other \in imported /\ SourceVersion[other] = SourceVersion[k]

\* Mutant of LockAndCheck: no second look; the unique fingerprint refuses.
LockWithoutCheck(p) ==
    /\ req[p].step = "lock"
    /\ \A q \in Requests : req[q].step # "ingest"
    /\ IF req[p].package \in imported \/ Conflicts(req[p].package)
       THEN Answer(p, "conflict")
       ELSE GoTo(p, "ingest")
    /\ UNCHANGED <<asset, object, imports, late, left>>

\* The advisory lock of the portable course is held to the end of the
\* transaction; under it the import looks again.
LockAndCheck(p) ==
    /\ req[p].step = "lock"
    /\ \A q \in Requests : req[q].step # "ingest"
    /\ \/ /\ req[p].package \in imported
          /\ Answer(p, "replayed")
       \/ /\ req[p].package \notin imported
          /\ IF Conflicts(req[p].package) THEN Answer(p, "conflict") ELSE GoTo(p, "ingest")
    /\ UNCHANGED <<asset, object, imports, late, left>>

\* One file after the other; its row is part of the transaction.
ImportFile(p) ==
    /\ req[p].step = "ingest"
    /\ Cardinality(req[p].made) < PackageFiles
    /\ \E o \in Objects :
          /\ object[o] = "unused"
          /\ object' = [object EXCEPT ![o] = "stored"]
          /\ req' = [req EXCEPT ![p].made = @ \cup {o}]
    /\ UNCHANGED <<asset, imports, late, left>>

\* The transaction rolls back, at any statement.  The file of the failing step is
\* gone, unless its removal fails too.
ImportFails(p) ==
    /\ req[p].step = "ingest"
    /\ GoTo(p, "compensate")
    /\ \/ UNCHANGED <<object, left>>
       \/ \E o \in Objects :
             /\ object[o] = "unused"
             /\ object' = [object EXCEPT ![o] = "stored"]
             /\ left' = left \cup {o}
    /\ UNCHANGED <<asset, imports, late>>

\* All rows become visible together.  An error of COMMIT does not tell whether
\* they did.
CommitImport(p) ==
    /\ req[p].step = "ingest"
    /\ Cardinality(req[p].made) = PackageFiles
    /\ imported' = imported \cup {req[p].package}
    /\ bindings' = [bindings EXCEPT ![req[p].package] = req[p].made]
    /\ \/ Answer(p, "imported")
       \/ /\ ~CommitsAreConfirmed
          /\ GoTo(p, "compensate")
    /\ UNCHANGED <<asset, object, late, left>>

\* The files of this attempt, and no others, are removed one by one.
CompensateImportedAssets(p) ==
    /\ req[p].step = "compensate"
    /\ IF req[p].made = {}
       THEN Answer(p, "failed") /\ UNCHANGED <<object, left>>
       ELSE \E o \in req[p].made :
               /\ req' = [req EXCEPT ![p].made = @ \ {o}]
               /\ \/ /\ object' = [object EXCEPT ![o] = "removed"]
                     /\ UNCHANGED left
                  \/ /\ left' = left \cup {o}
                     /\ UNCHANGED object
    /\ UNCHANGED <<asset, imports, late>>

-----------------------------------------------------------------------------
\* The answer is delivered, or the process stops; what it was doing is left as it
\* is, and an open transaction is rolled back.
EndRequest(p) ==
    /\ req[p] # Idle
    /\ req' = [req EXCEPT ![p] = Idle]
    /\ left' = IF InProgress(p) THEN left \cup Belongings(p) ELSE left
    /\ UNCHANGED <<asset, object, imports, late>>

Upload(p) ==
    \/ \E a \in Assets : CreateAsset(p, a)
    \/ Put(p)
    \/ PutFails(p)
    \/ MarkAssetAvailable(p)
    \/ ReadBack(p)
    \/ DiscardPendingAsset(p)
    \/ DiscardUncommitted(p)

Import(p) ==
    \/ \E k \in Packages : BeginImport(p, k)
    \/ LockAndCheck(p)
    \/ ImportFile(p)
    \/ ImportFails(p)
    \/ CommitImport(p)
    \/ CompensateImportedAssets(p)

Next ==
    \/ \E p \in Requests : Upload(p) \/ Import(p) \/ EndRequest(p)
    \/ ExecuteLate

Spec == Init /\ [][Next]_vars

-----------------------------------------------------------------------------
(* Properties *)

\* Every variable has its type.
TypeOK ==
    /\ asset \in [Assets -> Row]
    /\ object \in [Objects -> {"unused", "stored", "removed"}]
    /\ imported \subseteq Packages
    /\ bindings \in [Packages -> SUBSET Objects]
    /\ late \subseteq Statement
    /\ req \in [Requests -> Request]
    /\ left \subseteq Assets \cup Objects

\* No file that an AVAILABLE Asset or an imported version refers to is ever
\* removed, whichever statements fail, come late, or are never answered.
AvailableHasBytes ==
    /\ \A a \in Assets : asset[a].lifecycle = "AVAILABLE" => object[asset[a].object] = "stored"
    /\ \A k \in Packages : \A o \in bindings[k] : object[o] = "stored"

\* An upload that reports success is AVAILABLE with the file that it stored, and an
\* import that reports success, its own or another's, has its record.
AnswersAreTrue ==
    \A p \in Requests :
        /\ req[p].answer = "available" =>
              /\ asset[req[p].asset].lifecycle = "AVAILABLE"
              /\ asset[req[p].asset].object = req[p].object
        /\ req[p].answer \in {"imported", "replayed"} => req[p].package \in imported

\* A package is refused only because of another: importing the same one again,
\* even at the same time, is a replay.
ConflictsAreReal ==
    \A p \in Requests : req[p].answer = "conflict" => Conflicts(req[p].package)

Referenced(o) ==
    \/ \E a \in Assets : asset[a].lifecycle = "AVAILABLE" /\ asset[a].object = o
    \/ \E k \in Packages : o \in bindings[k]

\* A PENDING row or a file that nothing refers to belongs to a request in progress, or
\* clearing it up failed too, was never answered or was cut short: one failure alone
\* leaves nothing behind.
NothingIsForgotten ==
    LET held == UNION {Belongings(p) : p \in {q \in Requests : InProgress(q)}} IN
    /\ \A a \in Assets : asset[a].lifecycle = "PENDING" => a \in left \cup held
    /\ \A o \in Objects : object[o] = "stored" /\ ~Referenced(o) => o \in left \cup held

=============================================================================
