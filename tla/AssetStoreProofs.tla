---------------------------- MODULE AssetStoreProofs --------------------------
(***************************************************************************)
(* What holds of AssetStore for any number of assets, files, packages and     *)
(* requests.  The invariant says who may still refer to a file: a file that a *)
(* request is about to remove is referred to by nobody else, not even by a    *)
(* statement that the database has yet to execute.                            *)
(***************************************************************************)
EXTENDS AssetStore, TLAPS

UploadSteps == {"put", "mark", "readback", "discard", "discardRow", "remove"}
HoldingSteps == {"mark", "readback", "discard", "remove"}
ImportSteps == {"lock", "ingest", "compensate"}

\* The fields that a request has at each step.
RequestForm ==
    \A p \in Requests :
        /\ req[p].step \in UploadSteps => req[p].asset \in Assets /\ req[p].made = {}
        /\ req[p].step \in HoldingSteps => req[p].object \in Objects
        /\ req[p].step \in {"put", "discardRow"} => req[p].object = None
        /\ req[p].step \in ImportSteps =>
              req[p].package \in Packages /\ req[p].asset = None /\ req[p].object = None
        /\ req[p].step = "lock" => req[p].made = {}
        /\ req[p].answer # None => req[p].step = "answered"
        /\ req[p].answer = "available" => req[p].asset \in Assets
        /\ req[p].answer \in {"imported", "replayed", "conflict"} => req[p].package \in Packages

\* The row of an upload is in the lifecycle that its step supposes.
RowForm ==
    \A p \in Requests :
        /\ req[p].step \in {"put", "discardRow", "mark"} =>
              /\ asset[req[p].asset].lifecycle = "PENDING"
              /\ \A s \in late : s.asset # req[p].asset
        /\ req[p].step \in {"readback", "discard"} =>
              \A s \in late : s.asset = req[p].asset
                                => s.kind = "mark" /\ s.object = req[p].object
        /\ req[p].step \in {"readback", "discard"} =>
              \/ asset[req[p].asset].lifecycle = "PENDING"
              \/ /\ asset[req[p].asset].lifecycle = "AVAILABLE"
                 /\ asset[req[p].asset].object = req[p].object
        /\ req[p].step = "remove" => asset[req[p].asset].lifecycle = "DISCARDED"

\* No two uploads in progress have the same row.
RowsApart ==
    \A p, q \in Requests :
        p # q /\ req[p].step \in UploadSteps /\ req[q].step \in UploadSteps
            => req[p].asset # req[q].asset

\* A late statement is about a row that exists, and a late mark names a file.
LateForm ==
    \A s \in late :
        /\ asset[s.asset].lifecycle # "NONE"
        /\ s.kind = "mark" => s.object \in Objects
        /\ s.kind = "mark" /\ asset[s.asset].lifecycle = "PENDING" => object[s.object] = "stored"

Holds(p, o) == req[p].step \in HoldingSteps /\ req[p].object = o

Makes(p, o) == req[p].step \in {"ingest", "compensate"} /\ o \in req[p].made

\* A row, a statement about it or the upload that it belongs to names the file.
Refers(a, o) ==
    \/ asset[a].object = o
    \/ \E s \in late : s.asset = a /\ s.object = o
    \/ \E p \in Requests : Holds(p, o) /\ req[p].asset = a

\* Whatever is referred to has been written.
Written ==
    \A o \in Objects : object[o] = "unused" =>
        /\ \A a \in Assets : ~Refers(a, o)
        /\ \A p \in Requests : ~Holds(p, o) /\ ~Makes(p, o)
        /\ \A k \in Packages : o \notin bindings[k]

\* Only its own row refers to the file of an upload in progress.
UploadExclusive ==
    \A p \in Requests : \A o \in Objects : Holds(p, o) =>
        /\ object[o] = "stored"
        /\ \A q \in Requests : (Holds(q, o) => q = p) /\ ~Makes(q, o)
        /\ \A a \in Assets : Refers(a, o) => a = req[p].asset
        /\ \A k \in Packages : o \notin bindings[k]

\* Nothing refers to the files of an import that has not committed.
ImportExclusive ==
    \A p \in Requests : \A o \in Objects : Makes(p, o) =>
        /\ object[o] = "stored"
        /\ \A q \in Requests : Makes(q, o) => q = p
        /\ \A a \in Assets : ~Refers(a, o)
        /\ CommitsAreConfirmed => \A k \in Packages : o \notin bindings[k]

\* The lock of a portable course is held by one import, whose package is new.
ImportForm ==
    /\ \A p, q \in Requests : req[p].step = "ingest" /\ req[q].step = "ingest" => p = q
    /\ \A p \in Requests : req[p].step = "ingest" => req[p].package \notin imported
    /\ \A k \in Packages : k \notin imported => bindings[k] = {}

AvailableForm ==
    \A a \in Assets : asset[a].lifecycle = "AVAILABLE" =>
        asset[a].object \in Objects /\ object[asset[a].object] = "stored"

BindingsStored ==
    CommitsAreConfirmed =>
        \A k \in Packages : \A o \in bindings[k] : object[o] = "stored"

Accounted(x) == x \in left \/ \E p \in Requests : InProgress(p) /\ x \in Belongings(p)

\* NothingIsForgotten, with the set of what is held spelled out.
AllAccounted ==
    /\ \A a \in Assets : asset[a].lifecycle = "PENDING" => Accounted(a)
    /\ \A o \in Objects : object[o] = "stored" /\ ~Referenced(o) => Accounted(o)

IInv ==
    /\ TypeOK
    /\ RequestForm
    /\ RowForm
    /\ RowsApart
    /\ LateForm
    /\ Written
    /\ UploadExclusive
    /\ ImportExclusive
    /\ ImportForm
    /\ AvailableForm
    /\ BindingsStored
    /\ AnswersAreTrue
    /\ ConflictsAreReal
    /\ AllAccounted

-----------------------------------------------------------------------------
\* An idle request is a request.
LEMMA IdleIsRequest == Idle \in Request
  BY DEF Idle, Request

\* The request itself goes to a step with an answer, and nothing else of it changes.
Moves(p, step, answer) ==
    /\ req' \in [Requests -> Request]
    /\ \A q \in Requests : q # p => req'[q] = req[q]
    /\ req'[p].step = step
    /\ req'[p].answer = answer
    /\ req'[p].asset = req[p].asset
    /\ req'[p].object = req[p].object
    /\ req'[p].package = req[p].package
    /\ req'[p].made = req[p].made

LEMMA AnswerMoves ==
  ASSUME TypeOK, NEW p \in Requests, NEW answer \in Answers, Answer(p, answer)
  PROVE  Moves(p, "answered", answer)
<1> DEFINE r == [req[p] EXCEPT !.step = "answered", !.answer = answer]
<1>1. r \in Request
  BY DEF TypeOK, Request
<1>2. req' = [req EXCEPT ![p] = r]
  BY DEF Answer
<1>3. QED
  BY <1>1, <1>2 DEF TypeOK, Request, Moves

LEMMA GoToMoves ==
  ASSUME TypeOK, NEW p \in Requests, NEW step,
         step \in UploadSteps \cup ImportSteps, GoTo(p, step)
  PROVE  Moves(p, step, req[p].answer)
<1> DEFINE r == [req[p] EXCEPT !.step = step]
<1>1. r \in Request
  BY DEF TypeOK, Request, UploadSteps, ImportSteps
<1>2. req' = [req EXCEPT ![p] = r]
  BY DEF GoTo, TypeOK
<1>3. QED
  BY <1>1, <1>2 DEF TypeOK, Request, Moves

\* A step that refers to no further file, and leaves alone the files in use.
NoNewReference ==
    /\ bindings' = bindings
    /\ \A o \in Objects : object'[o] = "unused" => object[o] = "unused"
    /\ \A a \in Assets, o \in Objects : Refers(a, o)' => Refers(a, o)
    /\ \A p \in Requests, o \in Objects : Holds(p, o)' =>
          Holds(p, o) /\ req'[p].asset = req[p].asset /\ object'[o] = object[o]
    /\ \A p \in Requests, o \in Objects : Makes(p, o)' => Makes(p, o) /\ object'[o] = object[o]

\* Such a step keeps what is said about references.
LEMMA ReferencesShrink ==
  ASSUME IInv, NoNewReference
  PROVE  Written' /\ UploadExclusive' /\ ImportExclusive'
<1>1. Written'
  BY DEF IInv, NoNewReference, Written
<1>2. UploadExclusive'
  BY DEF IInv, NoNewReference, UploadExclusive
<1>3. ImportExclusive'
  BY DEF IInv, NoNewReference, ImportExclusive
<1>4. QED
  BY <1>1, <1>2, <1>3

\* A step accounts for everything, if what it adds is accounted for, and what its
\* request lets go of is left to an operator or settled.
LEMMA AccountingKept ==
  ASSUME AllAccounted, NEW p \in Requests,
         \A q \in Requests : q # p => req'[q] = req[q],
         left \subseteq left',
         \A a \in Assets : asset'[a].lifecycle = "PENDING" =>
            asset[a].lifecycle = "PENDING" \/ Accounted(a)',
         \A o \in Objects : object'[o] = "stored" /\ ~Referenced(o)' =>
            (object[o] = "stored" /\ ~Referenced(o)) \/ Accounted(o)',
         \A x \in Belongings(p) : InProgress(p) =>
            \/ Accounted(x)'
            \/ /\ x \in Assets => asset'[x].lifecycle # "PENDING"
               /\ x \in Objects => object'[x] # "stored" \/ Referenced(x)'
  PROVE  AllAccounted'
<1>1. \A x : Accounted(x) =>
         Accounted(x)' \/ (InProgress(p) /\ x \in Belongings(p))
  BY DEF Accounted, InProgress, Belongings
<1>2. QED
  BY <1>1 DEF AllAccounted

\* A new row is PENDING, and nobody else knows of it.
LEMMA CreateAssetStep ==
  ASSUME IInv, NEW p \in Requests, NEW a \in Assets, CreateAsset(p, a)
  PROVE  IInv'
<1>1. \A q \in Requests : q # p => req'[q] = req[q]
  BY AssetAssumption DEF CreateAsset, IInv, TypeOK, Request, RequestForm, Row,
      Statement, Idle, Answers, UploadSteps, HoldingSteps, ImportSteps
<1>2. [Idle EXCEPT !.step = "put", !.asset = a] \in Request
  BY <1>1, AssetAssumption DEF CreateAsset, IInv, TypeOK, Request, RequestForm, Row,
      Statement, Idle, Answers, UploadSteps, HoldingSteps, ImportSteps
<1>3. \/ req' = req /\ left' = left \cup {a}
      \/ /\ req' = [req EXCEPT ![p] = [Idle EXCEPT !.step = "put", !.asset = a]]
         /\ left' = left
  BY  DEF CreateAsset
<1>4. req' \in [Requests -> Request]
  BY <1>1, <1>2, <1>3 DEF IInv, TypeOK
<1>5. req[p] = Idle /\ asset[a].lifecycle = "NONE" /\ ~InProgress(p)
  BY <1>1, <1>2, <1>3, <1>4, AssetAssumption DEF CreateAsset, IInv, TypeOK, Request,
      RequestForm, Row, Statement, Idle, Answers, UploadSteps, HoldingSteps,
      ImportSteps, InProgress
<1>6. \/ req' = req /\ left' = left \cup {a}
      \/ /\ req'[p].step = "put" /\ req'[p].asset = a /\ req'[p].object = None
         /\ req'[p].made = {} /\ req'[p].answer = None /\ left' = left
  BY <1>3 DEF IInv, TypeOK, Idle
<1>7. \A b \in Assets : b # a => asset'[b] = asset[b]
  BY <1>1, <1>2, <1>3, <1>4, <1>5, <1>6, AssetAssumption DEF CreateAsset, IInv, TypeOK,
      Request, RequestForm, Row, Statement, Idle, Answers, UploadSteps, HoldingSteps,
      ImportSteps
<1>8. asset' \in [Assets -> Row]
  BY <1>1, <1>2, <1>3, <1>4, <1>5, <1>6, <1>7, AssetAssumption DEF CreateAsset, IInv,
      TypeOK, Request, RequestForm, Row, Statement, Idle, Answers, UploadSteps,
      HoldingSteps, ImportSteps
<1>9. asset'[a].lifecycle = "PENDING" /\ asset'[a].object = asset[a].object
  BY <1>1, <1>2, <1>3, <1>4, <1>5, <1>6, <1>7, <1>8, AssetAssumption DEF CreateAsset,
      IInv, TypeOK, Request, RequestForm, Row, Statement, Idle, Answers, UploadSteps,
      HoldingSteps, ImportSteps
<1>10. \A q \in Requests : req[q].step \in UploadSteps => req[q].asset # a
  BY <1>1, <1>2, <1>3, <1>4, <1>5, <1>6, <1>7, <1>8, <1>9, AssetAssumption DEF
      CreateAsset, IInv, TypeOK, Request, RequestForm, Row, Statement, Idle, Answers,
      UploadSteps, HoldingSteps, ImportSteps, RowForm
<1>11. \A s \in late : s.asset # a
  BY <1>1, <1>2, <1>3, <1>4, <1>5, <1>6, <1>7, <1>8, <1>9, <1>10, AssetAssumption DEF
      CreateAsset, IInv, TypeOK, Request, RequestForm, Row, Statement, Idle, Answers,
      UploadSteps, HoldingSteps, ImportSteps, LateForm
<1>12. TypeOK'
  BY <1>1, <1>2, <1>3, <1>4, <1>5, <1>6, <1>7, <1>8, <1>9, <1>10, <1>11, AssetAssumption DEF
      CreateAsset, IInv, TypeOK, Row, Request, Statement, Answers, imports
<1>13. RequestForm'
  BY <1>1, <1>2, <1>3, <1>4, <1>5, <1>6, <1>7, <1>8, <1>9, <1>10, <1>11, AssetAssumption DEF
      CreateAsset, IInv, TypeOK, Request, RequestForm, Answers, UploadSteps,
      HoldingSteps, ImportSteps
<1>14. RowForm' /\ RowsApart'
  BY <1>1, <1>2, <1>3, <1>4, <1>5, <1>6, <1>7, <1>8, <1>9, <1>10, <1>11, AssetAssumption DEF
      CreateAsset, IInv, TypeOK, Request, RequestForm, RowForm, RowsApart, LateForm,
      Answers, UploadSteps, HoldingSteps, ImportSteps
<1>15. LateForm'
  BY <1>1, <1>2, <1>3, <1>4, <1>5, <1>6, <1>7, <1>8, <1>9, <1>10, <1>11, AssetAssumption DEF
      CreateAsset, IInv, TypeOK, Request, RequestForm, Statement, RowForm, LateForm,
      UploadExclusive, ImportExclusive, Refers, Holds, Makes, imports, UploadSteps,
      HoldingSteps, ImportSteps
<1>16. ImportForm'
  BY <1>1, <1>2, <1>3, <1>4, <1>5, <1>6, <1>7, <1>8, <1>9, <1>10, <1>11, AssetAssumption DEF
      CreateAsset, IInv, TypeOK, Request, RequestForm, ImportForm, imports, UploadSteps,
      HoldingSteps, ImportSteps
<1>17. \A o \in Objects : object'[o] = "unused" => object[o] = "unused"
  BY <1>1, <1>2, <1>3, <1>4, <1>5, <1>6, <1>7, <1>8, <1>9, <1>10, <1>11, AssetAssumption DEF
      CreateAsset, IInv, TypeOK, Request, RequestForm, RowForm, Written,
      UploadExclusive, ImportExclusive, Refers, Holds, Makes, Statement, imports,
      UploadSteps, HoldingSteps, ImportSteps
<1>18. \A b \in Assets, o \in Objects : Refers(b, o)' => Refers(b, o)
  BY <1>1, <1>2, <1>3, <1>4, <1>5, <1>6, <1>7, <1>8, <1>9, <1>10, <1>11, AssetAssumption DEF
      CreateAsset, IInv, TypeOK, Request, RequestForm, RowForm, Written,
      UploadExclusive, ImportExclusive, Refers, Holds, Makes, Statement, imports,
      UploadSteps, HoldingSteps, ImportSteps
<1>19. \A q \in Requests, o \in Objects : Holds(q, o)' =>
         Holds(q, o) /\ req'[q].asset = req[q].asset /\ object'[o] = object[o]
  BY <1>1, <1>2, <1>3, <1>4, <1>5, <1>6, <1>7, <1>8, <1>9, <1>10, <1>11, AssetAssumption DEF
      CreateAsset, IInv, TypeOK, Request, RequestForm, RowForm, Written,
      UploadExclusive, ImportExclusive, Refers, Holds, Makes, Statement, imports,
      UploadSteps, HoldingSteps, ImportSteps
<1>20. \A q \in Requests, o \in Objects : Makes(q, o)' =>
         Makes(q, o) /\ object'[o] = object[o]
  BY <1>1, <1>2, <1>3, <1>4, <1>5, <1>6, <1>7, <1>8, <1>9, <1>10, <1>11, AssetAssumption DEF
      CreateAsset, IInv, TypeOK, Request, RequestForm, RowForm, Written,
      UploadExclusive, ImportExclusive, Refers, Holds, Makes, Statement, imports,
      UploadSteps, HoldingSteps, ImportSteps
<1>21. Written' /\ UploadExclusive' /\ ImportExclusive'
  BY <1>17, <1>18, <1>19, <1>20, ReferencesShrink
     DEF NoNewReference, CreateAsset, imports
<1>22. AvailableForm' /\ BindingsStored'
  BY <1>1, <1>2, <1>3, <1>4, <1>5, <1>6, <1>7, <1>8, <1>9, <1>10, <1>11, AssetAssumption DEF
      CreateAsset, IInv, TypeOK, Request, RequestForm, RowForm, LateForm, Written,
      UploadExclusive, ImportExclusive, AvailableForm, BindingsStored, Refers, Holds,
      Makes, imports, UploadSteps, HoldingSteps, ImportSteps
<1>23. AnswersAreTrue' /\ ConflictsAreReal'
  BY <1>1, <1>2, <1>3, <1>4, <1>5, <1>6, <1>7, <1>8, <1>9, <1>10, <1>11, AssetAssumption DEF
      CreateAsset, IInv, TypeOK, Request, RequestForm, RowForm, LateForm,
      AnswersAreTrue, ConflictsAreReal, Conflicts, imports, Answers, UploadSteps,
      HoldingSteps, ImportSteps
<1>24. left \subseteq left'
  BY <1>1, <1>2, <1>3, <1>4, <1>5, <1>6, <1>7, <1>8, <1>9, <1>10, <1>11, AssetAssumption DEF
      CreateAsset, IInv, TypeOK, Request, RequestForm, RowForm, Accounted, Referenced,
      Belongings, InProgress, imports, UploadSteps, HoldingSteps, ImportSteps
<1>25. \A b \in Assets : asset'[b].lifecycle = "PENDING" =>
         asset[b].lifecycle = "PENDING" \/ Accounted(b)'
  BY <1>1, <1>2, <1>3, <1>4, <1>5, <1>6, <1>7, <1>8, <1>9, <1>10, <1>11, AssetAssumption DEF
      CreateAsset, IInv, TypeOK, Request, RequestForm, RowForm, Accounted, Referenced,
      Belongings, InProgress, imports, UploadSteps, HoldingSteps, ImportSteps
<1>26. \A x \in Objects : object'[x] = "stored" /\ ~Referenced(x)' =>
         (object[x] = "stored" /\ ~Referenced(x)) \/ Accounted(x)'
  BY <1>1, <1>2, <1>3, <1>4, <1>5, <1>6, <1>7, <1>8, <1>9, <1>10, <1>11, AssetAssumption DEF
      CreateAsset, IInv, TypeOK, Request, RequestForm, RowForm, Accounted, Referenced,
      Belongings, InProgress, imports, UploadSteps, HoldingSteps, ImportSteps
<1>27. \A x \in Belongings(p) : InProgress(p) =>
         \/ Accounted(x)'
         \/ /\ x \in Assets => asset'[x].lifecycle # "PENDING"
            /\ x \in Objects => object'[x] # "stored" \/ Referenced(x)'
  BY <1>1, <1>2, <1>3, <1>4, <1>5, <1>6, <1>7, <1>8, <1>9, <1>10, <1>11, AssetAssumption DEF
      CreateAsset, IInv, TypeOK, Request, RequestForm, RowForm, Accounted, Referenced,
      Belongings, InProgress, imports, UploadSteps, HoldingSteps, ImportSteps
<1>28. AllAccounted'
  BY <1>1, <1>24, <1>25, <1>26, <1>27, AccountingKept DEF IInv
<1>29. QED
  BY <1>12, <1>13, <1>14, <1>15, <1>16, <1>21, <1>22, <1>23, <1>28 DEF IInv

\* A new file is held by the upload alone.
LEMMA PutStep ==
  ASSUME IInv, NEW p \in Requests, Put(p)
  PROVE  IInv'
<1>1. \A q \in Requests : q # p => req'[q] = req[q]
  BY AssetAssumption DEF Put, IInv, TypeOK, Request, RequestForm, Row, Statement, Idle,
      Answers, UploadSteps, HoldingSteps, ImportSteps
<1>2. PICK o \in Objects : /\ object[o] = "unused" /\ object' = [object EXCEPT ![o] = "stored"]
                          /\ req' = [req EXCEPT ![p] = [req[p] EXCEPT !.step = "mark", !.object = o]]
  BY DEF Put
<1>3. [req[p] EXCEPT !.step = "mark", !.object = o] \in Request
  BY DEF IInv, TypeOK, Request
<1>4. req'[p] = [req[p] EXCEPT !.step = "mark", !.object = o] /\ req' \in [Requests -> Request]
  BY <1>1, <1>2, <1>3, AssetAssumption DEF Put, IInv, TypeOK, Request, RequestForm, Row,
      Statement, Idle, Answers, UploadSteps, HoldingSteps, ImportSteps
<1>5. TypeOK'
  BY <1>1, <1>2, <1>3, <1>4, AssetAssumption DEF Put, IInv, TypeOK, Row, Request,
      Statement, Answers, imports
<1>6. RequestForm'
  BY <1>1, <1>2, <1>3, <1>4, AssetAssumption DEF Put, IInv, TypeOK, Request,
      RequestForm, Answers, UploadSteps, HoldingSteps, ImportSteps
<1>7. RowForm' /\ RowsApart'
  BY <1>1, <1>2, <1>3, <1>4, AssetAssumption DEF Put, IInv, TypeOK, Request,
      RequestForm, RowForm, RowsApart, LateForm, Answers, UploadSteps, HoldingSteps,
      ImportSteps
<1>8. LateForm'
  BY <1>1, <1>2, <1>3, <1>4, AssetAssumption DEF Put, IInv, TypeOK, Request,
      RequestForm, Statement, RowForm, LateForm, UploadExclusive, ImportExclusive,
      Refers, Holds, Makes, imports, UploadSteps, HoldingSteps, ImportSteps
<1>9. ImportForm'
  BY <1>1, <1>2, <1>3, <1>4, AssetAssumption DEF Put, IInv, TypeOK, Request,
      RequestForm, ImportForm, imports, UploadSteps, HoldingSteps, ImportSteps
<1>10. Written'
  BY <1>1, <1>2, <1>3, <1>4, AssetAssumption DEF Put, IInv, TypeOK, Request,
      RequestForm, RowForm, Written, UploadExclusive, ImportExclusive, Refers, Holds,
      Makes, Statement, imports, UploadSteps, HoldingSteps, ImportSteps
<1>11. UploadExclusive'
  BY <1>1, <1>2, <1>3, <1>4, AssetAssumption DEF Put, IInv, TypeOK, Request,
      RequestForm, RowForm, Written, UploadExclusive, ImportExclusive, Refers, Holds,
      Makes, Statement, imports, UploadSteps, HoldingSteps, ImportSteps
<1>12. ImportExclusive'
  BY <1>1, <1>2, <1>3, <1>4, AssetAssumption DEF Put, IInv, TypeOK, Request,
      RequestForm, RowForm, Written, UploadExclusive, ImportExclusive, Refers, Holds,
      Makes, Statement, imports, UploadSteps, HoldingSteps, ImportSteps
<1>13. AvailableForm' /\ BindingsStored'
  BY <1>1, <1>2, <1>3, <1>4, AssetAssumption DEF Put, IInv, TypeOK, Request,
      RequestForm, RowForm, LateForm, Written, UploadExclusive, ImportExclusive,
      AvailableForm, BindingsStored, Refers, Holds, Makes, imports, UploadSteps,
      HoldingSteps, ImportSteps
<1>14. AnswersAreTrue' /\ ConflictsAreReal'
  BY <1>1, <1>2, <1>3, <1>4, AssetAssumption DEF Put, IInv, TypeOK, Request,
      RequestForm, RowForm, LateForm, AnswersAreTrue, ConflictsAreReal, Conflicts,
      imports, Answers, UploadSteps, HoldingSteps, ImportSteps
<1>15. AllAccounted'
  BY <1>1, <1>2, <1>3, <1>4, AssetAssumption DEF Put, IInv, TypeOK, Request,
      RequestForm, RowForm, Accounted, Referenced, Belongings, InProgress, imports,
      UploadSteps, HoldingSteps, ImportSteps, AllAccounted, Answers, LateForm
<1>16. QED
  BY <1>5, <1>6, <1>7, <1>8, <1>9, <1>10, <1>11, <1>12, <1>13, <1>14, <1>15 DEF IInv

\* A file that could not be written leaves the row to be discarded.
LEMMA PutFailsStep ==
  ASSUME IInv, NEW p \in Requests, PutFails(p)
  PROVE  IInv'
<1>1. \A q \in Requests : q # p => req'[q] = req[q]
  BY AssetAssumption DEF PutFails, GoTo, IInv, TypeOK, Request, RequestForm, Row,
      Statement, Idle, Answers, UploadSteps, HoldingSteps, ImportSteps
<1>2. req' \in [Requests -> Request]
  BY <1>1, AssetAssumption DEF PutFails, GoTo, IInv, TypeOK, Request, RequestForm, Row,
      Statement, Idle, Answers, UploadSteps, HoldingSteps, ImportSteps
<1>3. object' \in [Objects -> {"unused", "stored", "removed"}]
  BY <1>1, <1>2, AssetAssumption DEF PutFails, GoTo, IInv, TypeOK, Request, RequestForm,
      Row, Statement, Idle, Answers, UploadSteps, HoldingSteps, ImportSteps
<1>4. TypeOK'
  BY <1>1, <1>2, <1>3, AssetAssumption DEF PutFails, GoTo, IInv, TypeOK, Row, Request,
      Statement, Answers, imports
<1>5. RequestForm'
  BY <1>1, <1>2, <1>3, AssetAssumption DEF PutFails, GoTo, IInv, TypeOK, Request,
      RequestForm, Answers, UploadSteps, HoldingSteps, ImportSteps
<1>6. RowForm' /\ RowsApart'
  BY <1>1, <1>2, <1>3, AssetAssumption DEF PutFails, GoTo, IInv, TypeOK, Request,
      RequestForm, RowForm, RowsApart, LateForm, Answers, UploadSteps, HoldingSteps,
      ImportSteps
<1>7. LateForm'
  BY <1>1, <1>2, <1>3, AssetAssumption DEF PutFails, GoTo, IInv, TypeOK, Request,
      RequestForm, Statement, RowForm, LateForm, UploadExclusive, ImportExclusive,
      Refers, Holds, Makes, imports, UploadSteps, HoldingSteps, ImportSteps
<1>8. ImportForm'
  BY <1>1, <1>2, <1>3, AssetAssumption DEF PutFails, GoTo, IInv, TypeOK, Request,
      RequestForm, ImportForm, imports, UploadSteps, HoldingSteps, ImportSteps
<1>9. NoNewReference
  BY <1>1, <1>2, <1>3, AssetAssumption DEF PutFails, GoTo, IInv, NoNewReference, TypeOK,
      Request, RequestForm, RowForm, Written, UploadExclusive, ImportExclusive, Refers,
      Holds, Makes, Statement, imports, UploadSteps, HoldingSteps, ImportSteps
<1>10. Written' /\ UploadExclusive' /\ ImportExclusive'
  BY <1>9, ReferencesShrink
<1>11. AvailableForm' /\ BindingsStored'
  BY <1>1, <1>2, <1>3, AssetAssumption DEF PutFails, GoTo, IInv, TypeOK, Request,
      RequestForm, RowForm, LateForm, Written, UploadExclusive, ImportExclusive,
      AvailableForm, BindingsStored, Refers, Holds, Makes, imports, UploadSteps,
      HoldingSteps, ImportSteps
<1>12. AnswersAreTrue' /\ ConflictsAreReal'
  BY <1>1, <1>2, <1>3, AssetAssumption DEF PutFails, GoTo, IInv, TypeOK, Request,
      RequestForm, RowForm, LateForm, AnswersAreTrue, ConflictsAreReal, Conflicts,
      imports, Answers, UploadSteps, HoldingSteps, ImportSteps
<1>13. AllAccounted'
  BY <1>1, <1>2, <1>3, AssetAssumption DEF PutFails, GoTo, IInv, TypeOK, Request,
      RequestForm, RowForm, Accounted, Referenced, Belongings, InProgress, imports,
      UploadSteps, HoldingSteps, ImportSteps, AllAccounted, Answers, LateForm
<1>14. QED
  BY <1>4, <1>5, <1>6, <1>7, <1>8, <1>10, <1>11, <1>12, <1>13 DEF IInv

\* The row takes the file that its upload holds, now or later.
LEMMA MarkAssetAvailableStep ==
  ASSUME IInv, NEW p \in Requests, MarkAssetAvailable(p)
  PROVE  IInv'
<1>0. Moves(p, "answered", "available") \/ Moves(p, "readback", req[p].answer)
  BY AnswerMoves, GoToMoves DEF IInv, MarkAssetAvailable, Answers, UploadSteps
<1>1. \A q \in Requests : q # p => req'[q] = req[q]
  BY <1>0 DEF Moves
<1>2. req' \in [Requests -> Request]
  BY <1>0 DEF Moves
<1>3. /\ req'[p].step \in {"readback", "answered"}
      /\ req'[p].answer = IF req'[p].step = "answered" THEN "available" ELSE req[p].answer
  BY <1>0 DEF Moves, IInv, TypeOK, Request
<1>4. /\ req'[p].asset = req[p].asset
      /\ req'[p].object = req[p].object
      /\ req'[p].package = req[p].package
      /\ req'[p].made = req[p].made
  BY <1>0 DEF Moves
<1>5. /\ req[p].asset \in Assets /\ req[p].object \in Objects
      /\ asset[req[p].asset].lifecycle = "PENDING"
  BY <1>1, <1>2, <1>3, <1>4, AssetAssumption DEF MarkAssetAvailable, GoTo, Answer,
      Executed, MarkStatement, IInv, TypeOK, Request, RequestForm, Row, Statement, Idle,
      Answers, UploadSteps, HoldingSteps, ImportSteps, RowForm
<1>6. object[req[p].object] = "stored"
  BY <1>1, <1>2, <1>3, <1>4, <1>5, AssetAssumption DEF MarkAssetAvailable, GoTo, Answer,
      Executed, MarkStatement, IInv, TypeOK, Request, RequestForm, Row, Statement, Idle,
      Answers, UploadSteps, HoldingSteps, ImportSteps, UploadExclusive, Holds
<1>7. MarkStatement(p) \in Statement
  BY <1>1, <1>2, <1>3, <1>4, <1>5, <1>6, AssetAssumption DEF MarkAssetAvailable, GoTo,
      Answer, Executed, MarkStatement, IInv, TypeOK, Request, RequestForm, Row,
      Statement, Idle, Answers, UploadSteps, HoldingSteps, ImportSteps
<1>8. \A b \in Assets : b # req[p].asset => asset'[b] = asset[b]
  BY <1>1, <1>2, <1>3, <1>4, <1>5, <1>6, <1>7, AssetAssumption DEF MarkAssetAvailable,
      GoTo, Answer, Executed, MarkStatement, IInv, TypeOK, Request, RequestForm, Row,
      Statement, Idle, Answers, UploadSteps, HoldingSteps, ImportSteps
<1>9. asset' \in [Assets -> Row]
  BY <1>1, <1>2, <1>3, <1>4, <1>5, <1>6, <1>7, <1>8, AssetAssumption DEF
      MarkAssetAvailable, GoTo, Answer, Executed, MarkStatement, IInv, TypeOK, Request,
      RequestForm, Row, Statement, Idle, Answers, UploadSteps, HoldingSteps, ImportSteps
<1>10. \/ /\ asset' = asset /\ req'[p].step = "readback"
         /\ late' \in {late, late \cup {MarkStatement(p)}}
      \/ /\ asset'[req[p].asset].lifecycle = "AVAILABLE" /\ late' = late
         /\ asset'[req[p].asset].object = req[p].object
  BY <1>1, <1>2, <1>3, <1>4, <1>5, <1>6, <1>7, <1>8, <1>9, AssetAssumption DEF
      MarkAssetAvailable, GoTo, Answer, Executed, MarkStatement, IInv, TypeOK, Request,
      RequestForm, Row, Statement, Idle, Answers, UploadSteps, HoldingSteps, ImportSteps
<1>11. TypeOK'
  BY <1>1, <1>2, <1>3, <1>4, <1>5, <1>6, <1>7, <1>8, <1>9, <1>10, AssetAssumption DEF
      MarkAssetAvailable, GoTo, Answer, Executed, MarkStatement, IInv, TypeOK, Row,
      Request, Statement, Answers, imports
<1>12. RequestForm'
  BY <1>1, <1>2, <1>3, <1>4, <1>5, <1>6, <1>7, <1>8, <1>9, <1>10, AssetAssumption DEF
      MarkAssetAvailable, GoTo, Answer, Executed, MarkStatement, IInv, TypeOK, Request,
      RequestForm, Answers, UploadSteps, HoldingSteps, ImportSteps
<1>13. RowForm' /\ RowsApart'
  <2>1. \A q \in Requests : q # p /\ req[q].step \in UploadSteps =>
           req[q].asset \in Assets /\ req[q].asset # req[p].asset
    BY DEF IInv, MarkAssetAvailable, RowsApart, RequestForm, UploadSteps
  <2>2. \A s \in late' : s \in late \/ (s = MarkStatement(p) /\ asset' = asset)
    BY <1>10
  <2>3. ASSUME NEW q \in Requests, q # p
        PROVE  /\ req'[q].step \in {"put", "discardRow", "mark"} =>
                    /\ asset'[req'[q].asset].lifecycle = "PENDING"
                    /\ \A s \in late' : s.asset # req'[q].asset
               /\ req'[q].step \in {"readback", "discard"} =>
                    /\ \A s \in late' : s.asset = req'[q].asset
                          => s.kind = "mark" /\ s.object = req'[q].object
                    /\ \/ asset'[req'[q].asset].lifecycle = "PENDING"
                       \/ /\ asset'[req'[q].asset].lifecycle = "AVAILABLE"
                          /\ asset'[req'[q].asset].object = req'[q].object
               /\ req'[q].step = "remove" => asset'[req'[q].asset].lifecycle = "DISCARDED"
    BY <1>1, <1>8, <2>1, <2>2, <2>3 DEF IInv, RowForm, MarkStatement, UploadSteps
  <2>4. /\ \A s \in late' : s.asset = req'[p].asset
              => s.kind = "mark" /\ s.object = req'[p].object
        /\ \/ asset'[req'[p].asset].lifecycle = "PENDING"
           \/ /\ asset'[req'[p].asset].lifecycle = "AVAILABLE"
              /\ asset'[req'[p].asset].object = req'[p].object
    BY <1>4, <1>5, <1>10, <2>2 DEF IInv, RowForm, MarkAssetAvailable, MarkStatement
  <2>6. RowForm'
    BY <1>3, <2>3, <2>4 DEF RowForm
  <2>7. RowsApart'
    BY <1>1, <1>3, <1>4, <1>5, <1>7, <1>8, <1>10 DEF IInv, MarkAssetAvailable, RowsApart, UploadSteps
  <2>8. QED
    BY <2>6, <2>7
<1>14. LateForm'
  BY <1>1, <1>2, <1>3, <1>4, <1>5, <1>6, <1>7, <1>8, <1>9, <1>10, AssetAssumption DEF
      MarkAssetAvailable, GoTo, Answer, Executed, MarkStatement, IInv, TypeOK, Request,
      RequestForm, Statement, RowForm, LateForm, UploadExclusive, ImportExclusive,
      Refers, Holds, Makes, imports, UploadSteps, HoldingSteps, ImportSteps
<1>15. ImportForm'
  BY <1>1, <1>3, <1>4 DEF IInv, MarkAssetAvailable, ImportForm, imports
<1>16. \A o \in Objects : object'[o] = "unused" => object[o] = "unused"
  BY <1>1, <1>2, <1>3, <1>4, <1>5, <1>6, <1>7, <1>8, <1>9, <1>10, AssetAssumption DEF
      MarkAssetAvailable, GoTo, Answer, Executed, MarkStatement, IInv, TypeOK, Request,
      RequestForm, RowForm, Written, UploadExclusive, ImportExclusive, Refers, Holds,
      Makes, Statement, imports, UploadSteps, HoldingSteps, ImportSteps
<1>17. \A b \in Assets, o \in Objects : Refers(b, o)' => Refers(b, o)
  BY <1>1, <1>3, <1>4, <1>5, <1>7, <1>8, <1>9, <1>10, AssetAssumption DEF
      MarkAssetAvailable, MarkStatement, Refers, Holds, IInv, TypeOK, RequestForm,
      HoldingSteps
<1>18. \A q \in Requests, o \in Objects : Holds(q, o)' =>
         Holds(q, o) /\ req'[q].asset = req[q].asset /\ object'[o] = object[o]
  BY <1>1, <1>2, <1>3, <1>4, <1>5, <1>6, <1>7, <1>8, <1>9, <1>10, AssetAssumption DEF
      MarkAssetAvailable, GoTo, Answer, Executed, MarkStatement, IInv, TypeOK, Request,
      RequestForm, RowForm, Written, UploadExclusive, ImportExclusive, Refers, Holds,
      Makes, Statement, imports, UploadSteps, HoldingSteps, ImportSteps
<1>19. \A q \in Requests, o \in Objects : Makes(q, o)' =>
         Makes(q, o) /\ object'[o] = object[o]
  BY <1>1, <1>2, <1>3, <1>4, <1>5, <1>6, <1>7, <1>8, <1>9, <1>10, AssetAssumption DEF
      MarkAssetAvailable, GoTo, Answer, Executed, MarkStatement, IInv, TypeOK, Request,
      RequestForm, RowForm, Written, UploadExclusive, ImportExclusive, Refers, Holds,
      Makes, Statement, imports, UploadSteps, HoldingSteps, ImportSteps
<1>20. Written' /\ UploadExclusive' /\ ImportExclusive'
  BY <1>16, <1>17, <1>18, <1>19, ReferencesShrink
     DEF NoNewReference, MarkAssetAvailable, imports
<1>21. AvailableForm' /\ BindingsStored'
  BY <1>1, <1>2, <1>3, <1>4, <1>5, <1>6, <1>7, <1>8, <1>9, <1>10, AssetAssumption DEF
      MarkAssetAvailable, GoTo, Answer, Executed, MarkStatement, IInv, TypeOK, Request,
      RequestForm, RowForm, LateForm, Written, UploadExclusive, ImportExclusive,
      AvailableForm, BindingsStored, Refers, Holds, Makes, imports, UploadSteps,
      HoldingSteps, ImportSteps
<1>22. AnswersAreTrue' /\ ConflictsAreReal'
  BY <1>1, <1>2, <1>3, <1>4, <1>5, <1>6, <1>7, <1>8, <1>9, <1>10, AssetAssumption DEF
      MarkAssetAvailable, GoTo, Answer, Executed, MarkStatement, IInv, TypeOK, Request,
      RequestForm, RowForm, LateForm, AnswersAreTrue, ConflictsAreReal, Conflicts,
      imports, Answers, UploadSteps, HoldingSteps, ImportSteps
<1>23. left \subseteq left'
  BY <1>1, <1>2, <1>3, <1>4, <1>5, <1>6, <1>7, <1>8, <1>9, <1>10, AssetAssumption DEF
      MarkAssetAvailable, GoTo, Answer, Executed, MarkStatement, IInv, TypeOK, Request,
      RequestForm, RowForm, Accounted, Referenced, Belongings, InProgress, imports,
      UploadSteps, HoldingSteps, ImportSteps
<1>24. \A b \in Assets : asset'[b].lifecycle = "PENDING" =>
         asset[b].lifecycle = "PENDING" \/ Accounted(b)'
  BY <1>1, <1>2, <1>3, <1>4, <1>5, <1>6, <1>7, <1>8, <1>9, <1>10, AssetAssumption DEF
      MarkAssetAvailable, GoTo, Answer, Executed, MarkStatement, IInv, TypeOK, Request,
      RequestForm, RowForm, Accounted, Referenced, Belongings, InProgress, imports,
      UploadSteps, HoldingSteps, ImportSteps
<1>25. \A x \in Objects : object'[x] = "stored" /\ ~Referenced(x)' =>
         (object[x] = "stored" /\ ~Referenced(x)) \/ Accounted(x)'
  BY <1>1, <1>2, <1>3, <1>4, <1>5, <1>6, <1>7, <1>8, <1>9, <1>10, AssetAssumption DEF
      MarkAssetAvailable, GoTo, Answer, Executed, MarkStatement, IInv, TypeOK, Request,
      RequestForm, RowForm, Accounted, Referenced, Belongings, InProgress, imports,
      UploadSteps, HoldingSteps, ImportSteps
<1>26. \A x \in Belongings(p) : InProgress(p) =>
         \/ Accounted(x)'
         \/ /\ x \in Assets => asset'[x].lifecycle # "PENDING"
            /\ x \in Objects => object'[x] # "stored" \/ Referenced(x)'
  BY <1>1, <1>2, <1>3, <1>4, <1>5, <1>6, <1>7, <1>8, <1>9, <1>10, AssetAssumption DEF
      MarkAssetAvailable, GoTo, Answer, Executed, MarkStatement, IInv, TypeOK, Request,
      RequestForm, RowForm, Accounted, Referenced, Belongings, InProgress, imports,
      UploadSteps, HoldingSteps, ImportSteps
<1>27. AllAccounted'
  BY <1>1, <1>23, <1>24, <1>25, <1>26, AccountingKept DEF IInv
<1>28. QED
  BY <1>11, <1>12, <1>13, <1>14, <1>15, <1>20, <1>21, <1>22, <1>27 DEF IInv

\* What has been read back is what the row will stay, or the row is left.
LEMMA ReadBackStep ==
  ASSUME IInv, NEW p \in Requests, ReadBack(p)
  PROVE  IInv'
<1>0. \/ /\ Moves(p, "answered", "available")
         /\ asset[req[p].asset].lifecycle = "AVAILABLE"
         /\ left' = left
      \/ /\ Moves(p, "discard", req[p].answer)
         /\ asset[req[p].asset].lifecycle = "PENDING"
         /\ left' = left
      \/ /\ Moves(p, "answered", "failed")
         /\ left' = left \cup Belongings(p)
  BY AnswerMoves, GoToMoves DEF IInv, ReadBack, AnswerIncomplete, Answers, UploadSteps
<1>00. req[p].step = "readback" /\ UNCHANGED <<asset, object, imports, late>>
  BY DEF ReadBack
<1>1. \A q \in Requests : q # p => req'[q] = req[q]
  BY <1>0 DEF Moves
<1>2. TypeOK'
  BY <1>0, <1>00, <1>1, AssetAssumption DEF Moves, Belongings,
      IInv, TypeOK, Row, Request, Statement, Answers, imports
<1>3. RequestForm'
  BY <1>0, <1>00, <1>1, AssetAssumption DEF Moves, Belongings,
      IInv, TypeOK, Request, RequestForm, Answers, UploadSteps, HoldingSteps,
      ImportSteps
<1>4. RowForm' /\ RowsApart'
  BY <1>0, <1>00, <1>1, AssetAssumption DEF Moves, Belongings,
      IInv, TypeOK, Request, RequestForm, RowForm, RowsApart, LateForm, Answers,
      UploadSteps, HoldingSteps, ImportSteps
<1>5. LateForm'
  BY <1>0, <1>00, <1>1, AssetAssumption DEF Moves, Belongings,
      IInv, TypeOK, Request, RequestForm, Statement, RowForm, LateForm, UploadExclusive,
      ImportExclusive, Refers, Holds, Makes, imports, UploadSteps, HoldingSteps,
      ImportSteps
<1>6. ImportForm'
  BY <1>0, <1>00, <1>1, AssetAssumption DEF Moves, Belongings,
      IInv, TypeOK, Request, RequestForm, ImportForm, imports, UploadSteps,
      HoldingSteps, ImportSteps
<1>7. \A o \in Objects : object'[o] = "unused" => object[o] = "unused"
  BY <1>0, <1>00, <1>1, AssetAssumption DEF Moves, Belongings,
      IInv, TypeOK, Request, RequestForm, RowForm, Written, UploadExclusive,
      ImportExclusive, Refers, Holds, Makes, Statement, imports, UploadSteps,
      HoldingSteps, ImportSteps
<1>8. \A b \in Assets, o \in Objects : Refers(b, o)' => Refers(b, o)
  BY <1>0, <1>00, <1>1, AssetAssumption DEF Moves, Belongings,
      IInv, TypeOK, Request, RequestForm, RowForm, Written, UploadExclusive,
      ImportExclusive, Refers, Holds, Makes, Statement, imports, UploadSteps,
      HoldingSteps, ImportSteps
<1>9. \A q \in Requests, o \in Objects : Holds(q, o)' =>
         Holds(q, o) /\ req'[q].asset = req[q].asset /\ object'[o] = object[o]
  BY <1>0, <1>00, <1>1, AssetAssumption DEF Moves, Belongings,
      IInv, TypeOK, Request, RequestForm, RowForm, Written, UploadExclusive,
      ImportExclusive, Refers, Holds, Makes, Statement, imports, UploadSteps,
      HoldingSteps, ImportSteps
<1>10. \A q \in Requests, o \in Objects : Makes(q, o)' =>
         Makes(q, o) /\ object'[o] = object[o]
  BY <1>0, <1>00, <1>1, AssetAssumption DEF Moves, Belongings,
      IInv, TypeOK, Request, RequestForm, RowForm, Written, UploadExclusive,
      ImportExclusive, Refers, Holds, Makes, Statement, imports, UploadSteps,
      HoldingSteps, ImportSteps
<1>11. Written' /\ UploadExclusive' /\ ImportExclusive'
  BY <1>7, <1>8, <1>9, <1>10, ReferencesShrink
     DEF NoNewReference, ReadBack, imports
<1>12. AvailableForm' /\ BindingsStored'
  BY <1>0, <1>00, <1>1, AssetAssumption DEF Moves, Belongings,
      IInv, TypeOK, Request, RequestForm, RowForm, LateForm, Written, UploadExclusive,
      ImportExclusive, AvailableForm, BindingsStored, Refers, Holds, Makes, imports,
      UploadSteps, HoldingSteps, ImportSteps
<1>13. AnswersAreTrue' /\ ConflictsAreReal'
  BY <1>0, <1>00, <1>1, AssetAssumption DEF Moves, Belongings,
      IInv, TypeOK, Request, RequestForm, RowForm, LateForm, AnswersAreTrue,
      ConflictsAreReal, Conflicts, imports, Answers, UploadSteps, HoldingSteps,
      ImportSteps
<1>14. AllAccounted'
  <2>1. left \subseteq left' /\ UNCHANGED <<asset, object>>
    BY <1>0, <1>00
  <2>2. \A o \in Objects : Referenced(o)' <=> Referenced(o)
    BY <1>00 DEF Referenced, imports
  <2>3. \A x \in Belongings(p) :
           \/ Accounted(x)'
           \/ /\ x \in Assets => asset'[x].lifecycle # "PENDING"
              /\ x \in Objects => object'[x] # "stored" \/ Referenced(x)'
    BY <1>0, <1>00, <2>2, AssetAssumption DEF Moves, Belongings, IInv, TypeOK, Request,
       RequestForm, RowForm, Accounted, Referenced, InProgress, imports, UploadSteps, HoldingSteps
  <2> QED BY <1>1, <2>1, <2>2, <2>3, AccountingKept DEF IInv
<1>15. QED
  BY <1>2, <1>3, <1>4, <1>5, <1>6, <1>11, <1>12, <1>13, <1>14 DEF IInv

\* Once a row is discarded, no statement brings it back.
LEMMA DiscardPendingAssetStep ==
  ASSUME IInv, NEW p \in Requests, DiscardPendingAsset(p)
  PROVE  IInv'
<1>1. ASSUME req[p].step = "discard",
            asset[req[p].asset].lifecycle = "PENDING",
            asset' = Executed(DeleteStatement(p)),
            UNCHANGED <<object, imports, late>>,
            left' = left,
            req' = [req EXCEPT ![p] = [req[p] EXCEPT !.step = "remove"]]
     PROVE  IInv'
  <2>a. [req[p] EXCEPT !.step = "remove"] \in Request
    BY <1>1, AssetAssumption, IdleIsRequest DEF IInv, TypeOK, Request, Answers, Idle,
        Executed, DeleteStatement
  <2>b. req' \in [Requests -> Request] /\ (\A q \in Requests : q # p => req'[q] = req[q])
    BY <1>1, <2>a DEF IInv, TypeOK
  <2>c. /\ req'[p].step = "remove"
       /\ req'[p].asset = req[p].asset
       /\ req'[p].object = req[p].object
       /\ req'[p].package = req[p].package
       /\ req'[p].made = req[p].made
       /\ req'[p].answer = req[p].answer
    BY <1>1, AssetAssumption DEF IInv, TypeOK, Request, Idle, Executed, DeleteStatement
  <2>d0. req[p].asset \in Assets
    BY <1>1, <2>b, <2>c, AssetAssumption DEF IInv, TypeOK, Executed, DeleteStatement,
        Row, Request, Statement, Answers, RequestForm, RowForm, UploadSteps,
        HoldingSteps, ImportSteps
  <2>d1. DeleteStatement(p) \in Statement
    BY <1>1, <2>b, <2>c, AssetAssumption, <2>d0 DEF IInv, TypeOK, Executed,
        DeleteStatement, Row, Request, Statement, Answers, RequestForm, RowForm,
        UploadSteps, HoldingSteps, ImportSteps
  <2>d2. \A b \in Assets : b # req[p].asset => asset'[b] = asset[b]
    BY <1>1, <2>b, <2>c, AssetAssumption, <2>d0, <2>d1 DEF IInv, TypeOK, Executed,
        DeleteStatement, Row, Request, Statement, Answers, RequestForm, RowForm,
        UploadSteps, HoldingSteps, ImportSteps
  <2>d3. asset'[req[p].asset].lifecycle = "DISCARDED" /\ asset'[req[p].asset].object = asset[req[p].asset].object
    BY <1>1, <2>b, <2>c, AssetAssumption, <2>d0, <2>d1, <2>d2 DEF IInv, TypeOK,
        Executed, DeleteStatement, Row, Request, Statement, Answers, RequestForm,
        RowForm, UploadSteps, HoldingSteps, ImportSteps
  <2>d4. asset' \in [Assets -> Row]
    BY <1>1, <2>b, <2>c, AssetAssumption, <2>d0, <2>d1, <2>d2, <2>d3 DEF IInv, TypeOK,
        Executed, DeleteStatement, Row, Request, Statement, Answers, RequestForm,
        RowForm, UploadSteps, HoldingSteps, ImportSteps
  <2>f0. \A o \in Objects : Referenced(o) => Referenced(o)'
    BY <1>1, <2>b, <2>c, <2>d0, <2>d1, <2>d2, <2>d3, <2>d4, AssetAssumption DEF IInv,
        TypeOK, Request, RequestForm, Referenced, imports, UploadSteps, HoldingSteps,
        ImportSteps
  <2>f1. Belongings(p)' = Belongings(p) /\ InProgress(p) /\ InProgress(p)'
    BY <1>1, <2>b, <2>c, <2>d0, <2>d1, <2>d2, <2>d3, <2>d4, AssetAssumption, <2>f0 DEF
        IInv, TypeOK, Request, RequestForm, Belongings, InProgress, UploadSteps,
        HoldingSteps, ImportSteps
  <2>1. TypeOK'
    BY <1>1, <2>f0, <2>f1, <2>b, <2>c, <2>d0, <2>d1, <2>d2, <2>d3, <2>d4 DEF Row, imports, Statement,
        Request, IInv, TypeOK, Executed, DeleteStatement
  <2>2. RequestForm'
    BY <1>1, <2>f0, <2>f1, <2>b, <2>c, <2>d0, <2>d1, <2>d2, <2>d3, <2>d4, AssetAssumption DEF Request,
        RequestForm, Answers, UploadSteps, HoldingSteps, ImportSteps, IInv, TypeOK,
        Executed, DeleteStatement
  <2>3. RowForm' /\ RowsApart'
    BY <1>1, <2>f0, <2>f1, <2>b, <2>c, <2>d0, <2>d1, <2>d2, <2>d3, <2>d4 DEF Request, RequestForm,
        RowForm, RowsApart, LateForm, UploadSteps, HoldingSteps, ImportSteps, IInv,
        TypeOK, Executed, DeleteStatement
  <2>4. LateForm'
    BY <1>1, <2>f0, <2>f1, <2>b, <2>c, <2>d0, <2>d1, <2>d2, <2>d3, <2>d4 DEF Request, Statement,
        RequestForm, RowForm, LateForm, UploadExclusive, ImportExclusive, Refers, Holds,
        Makes, imports, UploadSteps, HoldingSteps, ImportSteps, IInv, TypeOK, Executed,
        DeleteStatement
  <2>e0. \A o \in Objects : object'[o] = "unused" => object[o] = "unused"
    BY <1>1, <2>f0, <2>f1, <2>b, <2>c, <2>d0, <2>d1, <2>d2, <2>d3, <2>d4 DEF Request, RequestForm,
        Refers, Holds, Makes, Statement, imports, UploadSteps, HoldingSteps,
        ImportSteps, IInv, TypeOK, Executed, DeleteStatement
  <2>e1. \A a \in Assets, o \in Objects : Refers(a, o)' => Refers(a, o)
    BY <1>1, <2>f0, <2>f1, <2>b, <2>c, <2>d0, <2>d1, <2>d2, <2>d3, <2>d4 DEF Request, RequestForm,
        Refers, Holds, Makes, Statement, imports, UploadSteps, HoldingSteps,
        ImportSteps, IInv, TypeOK, Executed, DeleteStatement
  <2>e2. \A q \in Requests, o \in Objects : Holds(q, o)' =>
           Holds(q, o) /\ req'[q].asset = req[q].asset /\ object'[o] = object[o]
    BY <1>1, <2>f0, <2>f1, <2>b, <2>c, <2>d0, <2>d1, <2>d2, <2>d3, <2>d4 DEF Request, RequestForm,
        Refers, Holds, Makes, Statement, imports, UploadSteps, HoldingSteps,
        ImportSteps, IInv, TypeOK, Executed, DeleteStatement
  <2>e3. \A q \in Requests, o \in Objects : Makes(q, o)' =>
           Makes(q, o) /\ object'[o] = object[o]
    BY <1>1, <2>f0, <2>f1, <2>b, <2>c, <2>d0, <2>d1, <2>d2, <2>d3, <2>d4 DEF Request, RequestForm,
        Refers, Holds, Makes, Statement, imports, UploadSteps, HoldingSteps,
        ImportSteps, IInv, TypeOK, Executed, DeleteStatement
  <2>5. Written' /\ UploadExclusive' /\ ImportExclusive'
    BY <1>1, <2>e0, <2>e1, <2>e2, <2>e3, ReferencesShrink DEF NoNewReference, imports
  <2>9. ImportForm'
    BY <1>1, <2>f0, <2>f1, <2>b, <2>c, <2>d0, <2>d1, <2>d2, <2>d3, <2>d4 DEF Request, ImportForm,
        RequestForm, imports, UploadSteps, HoldingSteps, ImportSteps, IInv, TypeOK,
        Executed, DeleteStatement
  <2>6. AvailableForm' /\ BindingsStored'
    BY <1>1, <2>f0, <2>f1, <2>b, <2>c, <2>d0, <2>d1, <2>d2, <2>d3, <2>d4 DEF Request, RequestForm,
        RowForm, LateForm, Written, UploadExclusive, ImportExclusive, AvailableForm,
        BindingsStored, Refers, Holds, Makes, imports, UploadSteps, HoldingSteps,
        ImportSteps, IInv, TypeOK, Executed, DeleteStatement
  <2>7. AnswersAreTrue' /\ ConflictsAreReal'
    BY <1>1, <2>f0, <2>f1, <2>b, <2>c, <2>d0, <2>d1, <2>d2, <2>d3, <2>d4, AssetAssumption DEF Request,
        RequestForm, RowForm, LateForm, AnswersAreTrue, ConflictsAreReal, Conflicts,
        imports, Answers, UploadSteps, HoldingSteps, ImportSteps, IInv, TypeOK,
        Executed, DeleteStatement
  <2>g0. left \subseteq left'
    BY <1>1, <2>f0, <2>f1, <2>b, <2>c, <2>d0, <2>d1, <2>d2, <2>d3, <2>d4, AssetAssumption DEF Request,
        RequestForm, RowForm, Accounted, Referenced, Belongings, InProgress, imports,
        UploadSteps, HoldingSteps, ImportSteps, IInv, TypeOK, Executed, DeleteStatement
  <2>g1. \A b \in Assets : asset'[b].lifecycle = "PENDING" =>
            asset[b].lifecycle = "PENDING" \/ Accounted(b)'
    BY <1>1, <2>f0, <2>f1, <2>b, <2>c, <2>d0, <2>d1, <2>d2, <2>d3, <2>d4, AssetAssumption DEF Request,
        RequestForm, RowForm, Accounted, Referenced, Belongings, InProgress, imports,
        UploadSteps, HoldingSteps, ImportSteps, IInv, TypeOK, Executed, DeleteStatement
  <2>g2. \A x \in Objects : object'[x] = "stored" /\ ~Referenced(x)' =>
           (object[x] = "stored" /\ ~Referenced(x)) \/ Accounted(x)'
    BY <1>1, <2>f0, <2>f1, <2>b, <2>c, <2>d0, <2>d1, <2>d2, <2>d3, <2>d4, AssetAssumption DEF Request,
        RequestForm, RowForm, Accounted, Referenced, Belongings, InProgress, imports,
        UploadSteps, HoldingSteps, ImportSteps, IInv, TypeOK, Executed, DeleteStatement
  <2>g3. \A x \in Belongings(p) : InProgress(p) =>
           \/ Accounted(x)'
           \/ /\ x \in Assets => asset'[x].lifecycle # "PENDING"
              /\ x \in Objects => object'[x] # "stored" \/ Referenced(x)'
    BY <1>1, <2>f0, <2>f1, <2>b, <2>c, <2>d0, <2>d1, <2>d2, <2>d3, <2>d4, AssetAssumption DEF Request,
        RequestForm, RowForm, Accounted, Referenced, Belongings, InProgress, imports,
        UploadSteps, HoldingSteps, ImportSteps, IInv, TypeOK, Executed, DeleteStatement
  <2>8. AllAccounted'
    BY <2>b, <2>g0, <2>g1, <2>g2, <2>g3, AccountingKept DEF IInv
  <2> QED
    BY <2>1, <2>2, <2>3, <2>4, <2>5, <2>6, <2>7, <2>8, <2>9 DEF IInv
<1>2. ASSUME req[p].step \in {"discard", "discardRow"},
            asset[req[p].asset].lifecycle = "PENDING",
            asset' = Executed(DeleteStatement(p)),
            UNCHANGED <<object, imports, late>>,
            (left' = left /\ req[p].step = "discardRow") \/ left' = left \cup Belongings(p),
            req' = [req EXCEPT ![p] = [req[p] EXCEPT !.step = "answered", !.answer = "failed"]]
     PROVE  IInv'
  <2>a. [req[p] EXCEPT !.step = "answered", !.answer = "failed"] \in Request
    BY <1>2, AssetAssumption, IdleIsRequest DEF IInv, TypeOK, Request, Answers, Idle,
        Executed, DeleteStatement, Belongings
  <2>b. req' \in [Requests -> Request] /\ (\A q \in Requests : q # p => req'[q] = req[q])
    BY <1>2, <2>a DEF IInv, TypeOK
  <2>c. /\ req'[p].step = "answered"
       /\ req'[p].answer = "failed"
       /\ req'[p].asset = req[p].asset
       /\ req'[p].object = req[p].object
       /\ req'[p].package = req[p].package
       /\ req'[p].made = req[p].made
    BY <1>2, AssetAssumption DEF IInv, TypeOK, Request, Idle, Executed, DeleteStatement,
        Belongings
  <2>d0. req[p].asset \in Assets
    BY <1>2, <2>b, <2>c, AssetAssumption DEF IInv, TypeOK, Executed, DeleteStatement,
        Belongings, Row, Request, Statement, Answers, RequestForm, RowForm, UploadSteps,
        HoldingSteps, ImportSteps
  <2>d1. DeleteStatement(p) \in Statement
    BY <1>2, <2>b, <2>c, AssetAssumption, <2>d0 DEF IInv, TypeOK, Executed,
        DeleteStatement, Belongings, Row, Request, Statement, Answers, RequestForm,
        RowForm, UploadSteps, HoldingSteps, ImportSteps
  <2>d2. \A b \in Assets : b # req[p].asset => asset'[b] = asset[b]
    BY <1>2, <2>b, <2>c, AssetAssumption, <2>d0, <2>d1 DEF IInv, TypeOK, Executed,
        DeleteStatement, Belongings, Row, Request, Statement, Answers, RequestForm,
        RowForm, UploadSteps, HoldingSteps, ImportSteps
  <2>d3. asset'[req[p].asset].lifecycle = "DISCARDED" /\ asset'[req[p].asset].object = asset[req[p].asset].object
    BY <1>2, <2>b, <2>c, AssetAssumption, <2>d0, <2>d1, <2>d2 DEF IInv, TypeOK,
        Executed, DeleteStatement, Belongings, Row, Request, Statement, Answers,
        RequestForm, RowForm, UploadSteps, HoldingSteps, ImportSteps
  <2>d4. asset' \in [Assets -> Row]
    BY <1>2, <2>b, <2>c, AssetAssumption, <2>d0, <2>d1, <2>d2, <2>d3 DEF IInv, TypeOK,
        Executed, DeleteStatement, Belongings, Row, Request, Statement, Answers,
        RequestForm, RowForm, UploadSteps, HoldingSteps, ImportSteps
  <2>1. TypeOK'
    BY <1>2, <2>b, <2>c, <2>d0, <2>d1, <2>d2, <2>d3, <2>d4 DEF Row, imports, Statement,
        Request, IInv, TypeOK, Executed, DeleteStatement, Belongings
  <2>2. RequestForm'
    BY <1>2, <2>b, <2>c, <2>d0, <2>d1, <2>d2, <2>d3, <2>d4, AssetAssumption DEF Request,
        RequestForm, Answers, UploadSteps, HoldingSteps, ImportSteps, IInv, TypeOK,
        Executed, DeleteStatement, Belongings
  <2>3. RowForm' /\ RowsApart'
    BY <1>2, <2>b, <2>c, <2>d0, <2>d1, <2>d2, <2>d3, <2>d4 DEF Request, RequestForm,
        RowForm, RowsApart, LateForm, UploadSteps, HoldingSteps, ImportSteps, IInv,
        TypeOK, Executed, DeleteStatement, Belongings
  <2>4. LateForm'
    BY <1>2, <2>b, <2>c, <2>d0, <2>d1, <2>d2, <2>d3, <2>d4 DEF Request, Statement,
        RequestForm, RowForm, LateForm, UploadExclusive, ImportExclusive, Refers, Holds,
        Makes, imports, UploadSteps, HoldingSteps, ImportSteps, IInv, TypeOK, Executed,
        DeleteStatement, Belongings
  <2>e0. \A o \in Objects : object'[o] = "unused" => object[o] = "unused"
    BY <1>2, <2>b, <2>c, <2>d0, <2>d1, <2>d2, <2>d3, <2>d4 DEF Request, RequestForm,
        Refers, Holds, Makes, Statement, imports, UploadSteps, HoldingSteps,
        ImportSteps, IInv, TypeOK, Executed, DeleteStatement, Belongings
  <2>e1. \A a \in Assets, o \in Objects : Refers(a, o)' => Refers(a, o)
    BY <1>2, <2>b, <2>c, <2>d0, <2>d1, <2>d2, <2>d3, <2>d4 DEF Request, RequestForm,
        Refers, Holds, Makes, Statement, imports, UploadSteps, HoldingSteps,
        ImportSteps, IInv, TypeOK, Executed, DeleteStatement, Belongings
  <2>e2. \A q \in Requests, o \in Objects : Holds(q, o)' =>
           Holds(q, o) /\ req'[q].asset = req[q].asset /\ object'[o] = object[o]
    BY <1>2, <2>b, <2>c, <2>d0, <2>d1, <2>d2, <2>d3, <2>d4 DEF Request, RequestForm,
        Refers, Holds, Makes, Statement, imports, UploadSteps, HoldingSteps,
        ImportSteps, IInv, TypeOK, Executed, DeleteStatement, Belongings
  <2>e3. \A q \in Requests, o \in Objects : Makes(q, o)' =>
           Makes(q, o) /\ object'[o] = object[o]
    BY <1>2, <2>b, <2>c, <2>d0, <2>d1, <2>d2, <2>d3, <2>d4 DEF Request, RequestForm,
        Refers, Holds, Makes, Statement, imports, UploadSteps, HoldingSteps,
        ImportSteps, IInv, TypeOK, Executed, DeleteStatement, Belongings
  <2>5. Written' /\ UploadExclusive' /\ ImportExclusive'
    BY <1>2, <2>e0, <2>e1, <2>e2, <2>e3, ReferencesShrink DEF NoNewReference, imports
  <2>9. ImportForm'
    BY <1>2, <2>b, <2>c, <2>d0, <2>d1, <2>d2, <2>d3, <2>d4 DEF Request, ImportForm,
        RequestForm, imports, UploadSteps, HoldingSteps, ImportSteps, IInv, TypeOK,
        Executed, DeleteStatement, Belongings
  <2>6. AvailableForm' /\ BindingsStored'
    BY <1>2, <2>b, <2>c, <2>d0, <2>d1, <2>d2, <2>d3, <2>d4 DEF Request, RequestForm,
        RowForm, LateForm, Written, UploadExclusive, ImportExclusive, AvailableForm,
        BindingsStored, Refers, Holds, Makes, imports, UploadSteps, HoldingSteps,
        ImportSteps, IInv, TypeOK, Executed, DeleteStatement, Belongings
  <2>7. AnswersAreTrue' /\ ConflictsAreReal'
    BY <1>2, <2>b, <2>c, <2>d0, <2>d1, <2>d2, <2>d3, <2>d4, AssetAssumption DEF Request,
        RequestForm, RowForm, LateForm, AnswersAreTrue, ConflictsAreReal, Conflicts,
        imports, Answers, UploadSteps, HoldingSteps, ImportSteps, IInv, TypeOK,
        Executed, DeleteStatement, Belongings
  <2>g0. left \subseteq left'
    BY <1>2, <2>b, <2>c, <2>d0, <2>d1, <2>d2, <2>d3, <2>d4, AssetAssumption DEF Request,
        RequestForm, RowForm, Accounted, Referenced, Belongings, InProgress, imports,
        UploadSteps, HoldingSteps, ImportSteps, IInv, TypeOK, Executed, DeleteStatement
  <2>g1. \A b \in Assets : asset'[b].lifecycle = "PENDING" =>
            asset[b].lifecycle = "PENDING" \/ Accounted(b)'
    BY <1>2, <2>b, <2>c, <2>d0, <2>d1, <2>d2, <2>d3, <2>d4, AssetAssumption DEF Request,
        RequestForm, RowForm, Accounted, Referenced, Belongings, InProgress, imports,
        UploadSteps, HoldingSteps, ImportSteps, IInv, TypeOK, Executed, DeleteStatement
  <2>g2. \A x \in Objects : object'[x] = "stored" /\ ~Referenced(x)' =>
           (object[x] = "stored" /\ ~Referenced(x)) \/ Accounted(x)'
    BY <1>2, <2>b, <2>c, <2>d0, <2>d1, <2>d2, <2>d3, <2>d4, AssetAssumption DEF Request,
        RequestForm, RowForm, Accounted, Referenced, Belongings, InProgress, imports,
        UploadSteps, HoldingSteps, ImportSteps, IInv, TypeOK, Executed, DeleteStatement
  <2>g3. \A x \in Belongings(p) : InProgress(p) =>
           \/ Accounted(x)'
           \/ /\ x \in Assets => asset'[x].lifecycle # "PENDING"
              /\ x \in Objects => object'[x] # "stored" \/ Referenced(x)'
    BY <1>2, <2>b, <2>c, <2>d0, <2>d1, <2>d2, <2>d3, <2>d4, AssetAssumption DEF Request,
        RequestForm, RowForm, Accounted, Referenced, Belongings, InProgress, imports,
        UploadSteps, HoldingSteps, ImportSteps, IInv, TypeOK, Executed, DeleteStatement
  <2>8. AllAccounted'
    BY <2>b, <2>g0, <2>g1, <2>g2, <2>g3, AccountingKept DEF IInv
  <2> QED
    BY <2>1, <2>2, <2>3, <2>4, <2>5, <2>6, <2>7, <2>8, <2>9 DEF IInv
<1>3. ASSUME req[p].step \in {"discard", "discardRow"},
            late' \in {late, late \cup {DeleteStatement(p)}},
            left' = left \cup Belongings(p),
            UNCHANGED <<asset, object, imports>>,
            req' = [req EXCEPT ![p] = [req[p] EXCEPT !.step = "answered", !.answer = "failed"]]
     PROVE  IInv'
  <2>a. [req[p] EXCEPT !.step = "answered", !.answer = "failed"] \in Request
    BY <1>3, AssetAssumption, IdleIsRequest DEF IInv, TypeOK, Request, Answers, Idle,
        DeleteStatement, Belongings
  <2>b. req' \in [Requests -> Request] /\ (\A q \in Requests : q # p => req'[q] = req[q])
    BY <1>3, <2>a DEF IInv, TypeOK
  <2>c. /\ req'[p].step = "answered"
       /\ req'[p].answer = "failed"
       /\ req'[p].asset = req[p].asset
       /\ req'[p].object = req[p].object
       /\ req'[p].package = req[p].package
       /\ req'[p].made = req[p].made
    BY <1>3, AssetAssumption DEF IInv, TypeOK, Request, Idle, DeleteStatement,
        Belongings
  <2>d0. req[p].asset \in Assets
    BY <1>3, <2>b, <2>c, AssetAssumption DEF IInv, TypeOK, DeleteStatement, Belongings,
        Row, Request, Statement, Answers, RequestForm, RowForm, UploadSteps,
        HoldingSteps, ImportSteps
  <2>d1. DeleteStatement(p) \in Statement
    BY <1>3, <2>b, <2>c, AssetAssumption, <2>d0 DEF IInv, TypeOK, DeleteStatement,
        Belongings, Row, Request, Statement, Answers, RequestForm, RowForm, UploadSteps,
        HoldingSteps, ImportSteps
  <2>f0. asset[req[p].asset].lifecycle # "NONE"
    BY <1>3, <2>b, <2>c, <2>d0, <2>d1, AssetAssumption DEF IInv, TypeOK, Request,
        RequestForm, RowForm, UploadSteps, HoldingSteps, ImportSteps
  <2>f1. DeleteStatement(p).object \notin Objects
    BY <1>3, <2>b, <2>c, <2>d0, <2>d1, AssetAssumption, <2>f0 DEF IInv, TypeOK, Request,
        RequestForm, DeleteStatement, UploadSteps, HoldingSteps, ImportSteps
  <2>1. TypeOK'
    BY <1>3, <2>f0, <2>f1, <2>b, <2>c, <2>d0, <2>d1 DEF Row, imports, Statement, Request, IInv,
        TypeOK, DeleteStatement, Belongings
  <2>2. RequestForm'
    BY <1>3, <2>f0, <2>f1, <2>b, <2>c, <2>d0, <2>d1, AssetAssumption DEF Request, RequestForm,
        Answers, UploadSteps, HoldingSteps, ImportSteps, IInv, TypeOK, DeleteStatement,
        Belongings
  <2>3. RowForm' /\ RowsApart'
    BY <1>3, <2>f0, <2>f1, <2>b, <2>c, <2>d0, <2>d1 DEF Request, RequestForm, RowForm, RowsApart,
        LateForm, UploadSteps, HoldingSteps, ImportSteps, IInv, TypeOK, DeleteStatement,
        Belongings
  <2>4. LateForm'
    BY <1>3, <2>f0, <2>f1, <2>b, <2>c, <2>d0, <2>d1 DEF Request, Statement, RequestForm, RowForm,
        LateForm, UploadExclusive, ImportExclusive, Refers, Holds, Makes, imports,
        UploadSteps, HoldingSteps, ImportSteps, IInv, TypeOK, DeleteStatement,
        Belongings
  <2>e0. \A o \in Objects : object'[o] = "unused" => object[o] = "unused"
    BY <1>3, <2>f0, <2>f1, <2>b, <2>c, <2>d0, <2>d1 DEF Request, RequestForm, Refers, Holds, Makes,
        Statement, imports, UploadSteps, HoldingSteps, ImportSteps, IInv, TypeOK,
        DeleteStatement, Belongings
  <2>e1. \A a \in Assets, o \in Objects : Refers(a, o)' => Refers(a, o)
    BY <1>3, <2>f0, <2>f1, <2>b, <2>c, <2>d0, <2>d1 DEF Request, RequestForm, Refers, Holds, Makes,
        Statement, imports, UploadSteps, HoldingSteps, ImportSteps, IInv, TypeOK,
        DeleteStatement, Belongings
  <2>e2. \A q \in Requests, o \in Objects : Holds(q, o)' =>
           Holds(q, o) /\ req'[q].asset = req[q].asset /\ object'[o] = object[o]
    BY <1>3, <2>f0, <2>f1, <2>b, <2>c, <2>d0, <2>d1 DEF Request, RequestForm, Refers, Holds, Makes,
        Statement, imports, UploadSteps, HoldingSteps, ImportSteps, IInv, TypeOK,
        DeleteStatement, Belongings
  <2>e3. \A q \in Requests, o \in Objects : Makes(q, o)' =>
           Makes(q, o) /\ object'[o] = object[o]
    BY <1>3, <2>f0, <2>f1, <2>b, <2>c, <2>d0, <2>d1 DEF Request, RequestForm, Refers, Holds, Makes,
        Statement, imports, UploadSteps, HoldingSteps, ImportSteps, IInv, TypeOK,
        DeleteStatement, Belongings
  <2>5. Written' /\ UploadExclusive' /\ ImportExclusive'
    BY <1>3, <2>e0, <2>e1, <2>e2, <2>e3, ReferencesShrink DEF NoNewReference, imports
  <2>9. ImportForm'
    BY <1>3, <2>f0, <2>f1, <2>b, <2>c, <2>d0, <2>d1 DEF Request, ImportForm, RequestForm, imports,
        UploadSteps, HoldingSteps, ImportSteps, IInv, TypeOK, DeleteStatement,
        Belongings
  <2>6. AvailableForm' /\ BindingsStored'
    BY <1>3, <2>f0, <2>f1, <2>b, <2>c, <2>d0, <2>d1 DEF Request, RequestForm, RowForm, LateForm,
        Written, UploadExclusive, ImportExclusive, AvailableForm, BindingsStored,
        Refers, Holds, Makes, imports, UploadSteps, HoldingSteps, ImportSteps, IInv,
        TypeOK, DeleteStatement, Belongings
  <2>7. AnswersAreTrue' /\ ConflictsAreReal'
    BY <1>3, <2>f0, <2>f1, <2>b, <2>c, <2>d0, <2>d1, AssetAssumption DEF Request, RequestForm,
        RowForm, LateForm, AnswersAreTrue, ConflictsAreReal, Conflicts, imports,
        Answers, UploadSteps, HoldingSteps, ImportSteps, IInv, TypeOK, DeleteStatement,
        Belongings
  <2>g0. left \subseteq left'
    BY <1>3, <2>f0, <2>f1, <2>b, <2>c, <2>d0, <2>d1, AssetAssumption DEF Request, RequestForm,
        RowForm, Accounted, Referenced, Belongings, InProgress, imports, UploadSteps,
        HoldingSteps, ImportSteps, IInv, TypeOK, DeleteStatement
  <2>g1. \A b \in Assets : asset'[b].lifecycle = "PENDING" =>
            asset[b].lifecycle = "PENDING" \/ Accounted(b)'
    BY <1>3, <2>f0, <2>f1, <2>b, <2>c, <2>d0, <2>d1, AssetAssumption DEF Request, RequestForm,
        RowForm, Accounted, Referenced, Belongings, InProgress, imports, UploadSteps,
        HoldingSteps, ImportSteps, IInv, TypeOK, DeleteStatement
  <2>g2. \A x \in Objects : object'[x] = "stored" /\ ~Referenced(x)' =>
           (object[x] = "stored" /\ ~Referenced(x)) \/ Accounted(x)'
    BY <1>3, <2>f0, <2>f1, <2>b, <2>c, <2>d0, <2>d1, AssetAssumption DEF Request, RequestForm,
        RowForm, Accounted, Referenced, Belongings, InProgress, imports, UploadSteps,
        HoldingSteps, ImportSteps, IInv, TypeOK, DeleteStatement
  <2>g3. \A x \in Belongings(p) : InProgress(p) =>
           \/ Accounted(x)'
           \/ /\ x \in Assets => asset'[x].lifecycle # "PENDING"
              /\ x \in Objects => object'[x] # "stored" \/ Referenced(x)'
    BY <1>3, <2>f0, <2>f1, <2>b, <2>c, <2>d0, <2>d1, AssetAssumption DEF Request, RequestForm,
        RowForm, Accounted, Referenced, Belongings, InProgress, imports, UploadSteps,
        HoldingSteps, ImportSteps, IInv, TypeOK, DeleteStatement
  <2>8. AllAccounted'
    BY <2>b, <2>g0, <2>g1, <2>g2, <2>g3, AccountingKept DEF IInv
  <2> QED
    BY <2>1, <2>2, <2>3, <2>4, <2>5, <2>6, <2>7, <2>8, <2>9 DEF IInv
<1> QED
  BY <1>1, <1>2, <1>3 DEF IInv, TypeOK, DiscardPendingAsset, GoTo, Answer, AnswerIncomplete

\* The file that goes is named by no row, statement or binding.
LEMMA DiscardUncommittedStep ==
  ASSUME IInv, NEW p \in Requests, DiscardUncommitted(p)
  PROVE  IInv'
<1>0. Moves(p, "answered", "failed")
  BY AnswerMoves DEF IInv, DiscardUncommitted, AnswerIncomplete, Answers
<1>1. \A q \in Requests : q # p => req'[q] = req[q]
  BY <1>0 DEF Moves
<1>2. req' \in [Requests -> Request]
  BY <1>0 DEF Moves
<1>3. req'[p].step = "answered" /\ req'[p].answer = "failed"
  BY <1>0 DEF Moves
<1>4. /\ req'[p].asset = req[p].asset
      /\ req'[p].object = req[p].object
      /\ req'[p].package = req[p].package
      /\ req'[p].made = req[p].made
  BY <1>0 DEF Moves
<1>5. req[p].asset \in Assets /\ req[p].object \in Objects
  BY <1>1, <1>2, <1>3, <1>4, AssetAssumption DEF DiscardUncommitted, Answer,
      AnswerIncomplete, IInv, TypeOK, Request, RequestForm, Row, Statement, Idle,
      Answers, UploadSteps, HoldingSteps, ImportSteps
<1>6. Holds(p, req[p].object) /\ asset[req[p].asset].lifecycle = "DISCARDED"
  BY <1>1, <1>2, <1>3, <1>4, <1>5, AssetAssumption DEF DiscardUncommitted, Answer,
      AnswerIncomplete, IInv, TypeOK, Request, RequestForm, Row, Statement, Idle,
      Answers, UploadSteps, HoldingSteps, ImportSteps, Holds, RowForm
<1>7. \A q \in Requests : (Holds(q, req[p].object) => q = p) /\ ~Makes(q, req[p].object)
  BY <1>1, <1>2, <1>3, <1>4, <1>5, <1>6, AssetAssumption DEF DiscardUncommitted, Answer,
      AnswerIncomplete, IInv, TypeOK, Request, RequestForm, Row, Statement, Idle,
      Answers, UploadSteps, HoldingSteps, ImportSteps, UploadExclusive
<1>8. \A a \in Assets : Refers(a, req[p].object) => a = req[p].asset
  BY <1>1, <1>2, <1>3, <1>4, <1>5, <1>6, <1>7, AssetAssumption DEF DiscardUncommitted,
      Answer, AnswerIncomplete, IInv, TypeOK, Request, RequestForm, Row, Statement,
      Idle, Answers, UploadSteps, HoldingSteps, ImportSteps, UploadExclusive
<1>9. \A k \in Packages : req[p].object \notin bindings[k]
  BY <1>1, <1>2, <1>3, <1>4, <1>5, <1>6, <1>7, <1>8, AssetAssumption DEF
      DiscardUncommitted, Answer, AnswerIncomplete, IInv, TypeOK, Request, RequestForm,
      Row, Statement, Idle, Answers, UploadSteps, HoldingSteps, ImportSteps,
      UploadExclusive
<1>10. \A s \in late : s.object = req[p].object => s.asset = req[p].asset
  BY <1>1, <1>2, <1>3, <1>4, <1>5, <1>6, <1>7, <1>8, <1>9, AssetAssumption DEF
      DiscardUncommitted, Answer, AnswerIncomplete, IInv, TypeOK, Request, RequestForm,
      Row, Statement, Idle, Answers, UploadSteps, HoldingSteps, ImportSteps, Refers
<1>11. /\ \A o \in Objects : o # req[p].object => object'[o] = object[o]
       /\ object'[req[p].object] = "removed" \/ (object' = object /\ left' = left \cup Belongings(p))
  BY <1>5 DEF DiscardUncommitted, AnswerIncomplete, IInv, TypeOK
<1>12. TypeOK'
  BY <1>2, <1>5, <1>11 DEF IInv, TypeOK, DiscardUncommitted, Answer, AnswerIncomplete,
      Belongings, imports, Request
<1>13. RequestForm'
  BY <1>1, <1>2, <1>3, <1>4, <1>5, <1>6, <1>7, <1>8, <1>9, <1>10, <1>11, AssetAssumption DEF
      DiscardUncommitted, Answer, AnswerIncomplete, IInv, TypeOK, Request, RequestForm,
      Answers, UploadSteps, HoldingSteps, ImportSteps
<1>14. RowForm' /\ RowsApart'
  <2>1. RowForm'
    BY <1>1, <1>3, <1>4, <1>5 DEF IInv, DiscardUncommitted, RowForm, RequestForm, UploadSteps, HoldingSteps, ImportSteps, TypeOK
  <2>2. RowsApart'
    BY <1>1, <1>3, <1>4, <1>5 DEF IInv, DiscardUncommitted, RowsApart, UploadSteps
  <2>3. QED
    BY <2>1, <2>2
<1>15. LateForm'
  BY <1>1, <1>2, <1>3, <1>4, <1>5, <1>6, <1>7, <1>8, <1>9, <1>10, <1>11, AssetAssumption DEF
      DiscardUncommitted, Answer, AnswerIncomplete, IInv, TypeOK, Request, RequestForm,
      Statement, RowForm, LateForm, UploadExclusive, ImportExclusive, Refers, Holds,
      Makes, imports, UploadSteps, HoldingSteps, ImportSteps
<1>16. ImportForm'
  BY <1>1, <1>2, <1>3, <1>4, <1>5, <1>6, <1>7, <1>8, <1>9, <1>10, <1>11, AssetAssumption DEF
      DiscardUncommitted, Answer, AnswerIncomplete, IInv, TypeOK, Request, RequestForm,
      ImportForm, imports, UploadSteps, HoldingSteps, ImportSteps
<1>17. \A o \in Objects : object'[o] = "unused" => object[o] = "unused"
  BY <1>1, <1>2, <1>3, <1>4, <1>5, <1>6, <1>7, <1>8, <1>9, <1>10, <1>11, AssetAssumption DEF
      DiscardUncommitted, Answer, AnswerIncomplete, IInv, TypeOK, Request, RequestForm,
      RowForm, Written, UploadExclusive, ImportExclusive, Refers, Holds, Makes,
      Statement, imports, UploadSteps, HoldingSteps, ImportSteps
<1>18. \A b \in Assets, o \in Objects : Refers(b, o)' => Refers(b, o)
  BY <1>1, <1>2, <1>3, <1>4, <1>5, <1>6, <1>7, <1>8, <1>9, <1>10, <1>11, AssetAssumption DEF
      DiscardUncommitted, Answer, AnswerIncomplete, IInv, TypeOK, Request, RequestForm,
      RowForm, Written, UploadExclusive, ImportExclusive, Refers, Holds, Makes,
      Statement, imports, UploadSteps, HoldingSteps, ImportSteps
<1>19. \A q \in Requests, o \in Objects : Holds(q, o)' =>
         Holds(q, o) /\ req'[q].asset = req[q].asset /\ object'[o] = object[o]
  BY <1>1, <1>2, <1>3, <1>4, <1>5, <1>6, <1>7, <1>8, <1>9, <1>10, <1>11, AssetAssumption DEF
      DiscardUncommitted, Answer, AnswerIncomplete, IInv, TypeOK, Request, RequestForm,
      RowForm, Written, UploadExclusive, ImportExclusive, Refers, Holds, Makes,
      Statement, imports, UploadSteps, HoldingSteps, ImportSteps
<1>20. \A q \in Requests, o \in Objects : Makes(q, o)' =>
         Makes(q, o) /\ object'[o] = object[o]
  BY <1>1, <1>2, <1>3, <1>4, <1>5, <1>6, <1>7, <1>8, <1>9, <1>10, <1>11, AssetAssumption DEF
      DiscardUncommitted, Answer, AnswerIncomplete, IInv, TypeOK, Request, RequestForm,
      RowForm, Written, UploadExclusive, ImportExclusive, Refers, Holds, Makes,
      Statement, imports, UploadSteps, HoldingSteps, ImportSteps
<1>21. Written' /\ UploadExclusive' /\ ImportExclusive'
  BY <1>17, <1>18, <1>19, <1>20, ReferencesShrink
     DEF NoNewReference, DiscardUncommitted, imports
<1>22. AvailableForm' /\ BindingsStored'
  BY <1>1, <1>2, <1>3, <1>4, <1>5, <1>6, <1>7, <1>8, <1>9, <1>10, <1>11, AssetAssumption DEF
      DiscardUncommitted, Answer, AnswerIncomplete, IInv, TypeOK, Request, RequestForm,
      RowForm, LateForm, Written, UploadExclusive, ImportExclusive, AvailableForm,
      BindingsStored, Refers, Holds, Makes, imports, UploadSteps, HoldingSteps,
      ImportSteps
<1>23. AnswersAreTrue' /\ ConflictsAreReal'
  BY <1>1, <1>2, <1>3, <1>4, <1>5, <1>6, <1>7, <1>8, <1>9, <1>10, <1>11, AssetAssumption DEF
      DiscardUncommitted, Answer, AnswerIncomplete, IInv, TypeOK, Request, RequestForm,
      RowForm, LateForm, AnswersAreTrue, ConflictsAreReal, Conflicts, imports, Answers,
      UploadSteps, HoldingSteps, ImportSteps
<1>24. left \subseteq left'
  BY <1>1, <1>2, <1>3, <1>4, <1>5, <1>6, <1>7, <1>8, <1>9, <1>10, <1>11, AssetAssumption DEF
      DiscardUncommitted, Answer, AnswerIncomplete, IInv, TypeOK, Request, RequestForm,
      RowForm, Accounted, Referenced, Belongings, InProgress, imports, UploadSteps,
      HoldingSteps, ImportSteps
<1>25. \A b \in Assets : asset'[b].lifecycle = "PENDING" =>
         asset[b].lifecycle = "PENDING" \/ Accounted(b)'
  BY <1>1, <1>2, <1>3, <1>4, <1>5, <1>6, <1>7, <1>8, <1>9, <1>10, <1>11, AssetAssumption DEF
      DiscardUncommitted, Answer, AnswerIncomplete, IInv, TypeOK, Request, RequestForm,
      RowForm, Accounted, Referenced, Belongings, InProgress, imports, UploadSteps,
      HoldingSteps, ImportSteps
<1>26. \A x \in Objects : object'[x] = "stored" /\ ~Referenced(x)' =>
         (object[x] = "stored" /\ ~Referenced(x)) \/ Accounted(x)'
  BY <1>1, <1>2, <1>3, <1>4, <1>5, <1>6, <1>7, <1>8, <1>9, <1>10, <1>11, AssetAssumption DEF
      DiscardUncommitted, Answer, AnswerIncomplete, IInv, TypeOK, Request, RequestForm,
      RowForm, Accounted, Referenced, Belongings, InProgress, imports, UploadSteps,
      HoldingSteps, ImportSteps
<1>27. \A x \in Belongings(p) : InProgress(p) =>
         \/ Accounted(x)'
         \/ /\ x \in Assets => asset'[x].lifecycle # "PENDING"
            /\ x \in Objects => object'[x] # "stored" \/ Referenced(x)'
  BY <1>1, <1>2, <1>3, <1>4, <1>5, <1>6, <1>7, <1>8, <1>9, <1>10, <1>11, AssetAssumption DEF
      DiscardUncommitted, Answer, AnswerIncomplete, IInv, TypeOK, Request, RequestForm,
      RowForm, Accounted, Referenced, Belongings, InProgress, imports, UploadSteps,
      HoldingSteps, ImportSteps
<1>28. AllAccounted'
  BY <1>1, <1>24, <1>25, <1>26, <1>27, AccountingKept DEF IInv
<1>29. QED
  BY <1>12, <1>13, <1>14, <1>15, <1>16, <1>21, <1>22, <1>23, <1>28 DEF IInv

\* A late statement changes a row only while it is PENDING.
LEMMA ExecuteLateStep ==
  ASSUME IInv, ExecuteLate
  PROVE  IInv'
<1>1. TypeOK'
  BY AssetAssumption DEF ExecuteLate, Executed, IInv, TypeOK, Row, Request, Statement,
      Answers, imports
<1>2. RequestForm'
  BY AssetAssumption DEF ExecuteLate, Executed, IInv, TypeOK, Request, RequestForm,
      Answers, UploadSteps, HoldingSteps, ImportSteps
<1>3. RowForm' /\ RowsApart'
  BY AssetAssumption DEF ExecuteLate, Executed, IInv, TypeOK, Request, RequestForm,
      RowForm, RowsApart, LateForm, Answers, UploadSteps, HoldingSteps, ImportSteps
<1>4. LateForm'
  BY AssetAssumption DEF ExecuteLate, Executed, IInv, TypeOK, Request, RequestForm,
      Statement, RowForm, LateForm, UploadExclusive, ImportExclusive, Refers, Holds,
      Makes, imports, UploadSteps, HoldingSteps, ImportSteps
<1>5. ImportForm'
  BY AssetAssumption DEF ExecuteLate, Executed, IInv, TypeOK, Request, RequestForm,
      ImportForm, imports, UploadSteps, HoldingSteps, ImportSteps
<1>6. NoNewReference
  BY AssetAssumption DEF ExecuteLate, Executed, IInv, NoNewReference, TypeOK, Request,
      RequestForm, RowForm, Written, UploadExclusive, ImportExclusive, Refers, Holds,
      Makes, Statement, imports, UploadSteps, HoldingSteps, ImportSteps
<1>7. Written' /\ UploadExclusive' /\ ImportExclusive'
  BY <1>6, ReferencesShrink
<1>8. AvailableForm' /\ BindingsStored'
  BY AssetAssumption DEF ExecuteLate, Executed, IInv, TypeOK, Request, RequestForm,
      RowForm, LateForm, Written, UploadExclusive, ImportExclusive, AvailableForm,
      BindingsStored, Refers, Holds, Makes, imports, UploadSteps, HoldingSteps,
      ImportSteps
<1>9. AnswersAreTrue' /\ ConflictsAreReal'
  BY AssetAssumption DEF ExecuteLate, Executed, IInv, TypeOK, Request, RequestForm,
      RowForm, LateForm, AnswersAreTrue, ConflictsAreReal, Conflicts, imports, Answers,
      UploadSteps, HoldingSteps, ImportSteps
<1>10. AllAccounted'
  BY AssetAssumption DEF ExecuteLate, Executed, IInv, TypeOK, Request, RequestForm,
      RowForm, Accounted, Referenced, Belongings, InProgress, imports, UploadSteps,
      HoldingSteps, ImportSteps, AllAccounted, Answers, LateForm
<1>11. QED
  BY <1>1, <1>2, <1>3, <1>4, <1>5, <1>7, <1>8, <1>9, <1>10 DEF IInv

\* A package that is there is replayed.
LEMMA BeginImportStep ==
  ASSUME IInv, NEW p \in Requests, NEW k \in Packages, BeginImport(p, k)
  PROVE  IInv'
<1>1. \A q \in Requests : q # p => req'[q] = req[q]
  BY AssetAssumption DEF BeginImport, Idle, IInv, TypeOK, Request, RequestForm, Row,
      Statement, Answers, UploadSteps, HoldingSteps, ImportSteps
<1>2. TypeOK'
  BY <1>1, AssetAssumption DEF BeginImport, Idle, IInv, TypeOK, Row, Request, Statement,
      Answers, imports
<1>3. RequestForm'
  BY <1>1, AssetAssumption DEF BeginImport, Idle, IInv, TypeOK, Request, RequestForm,
      Answers, UploadSteps, HoldingSteps, ImportSteps
<1>4. RowForm' /\ RowsApart'
  BY <1>1, AssetAssumption DEF BeginImport, Idle, IInv, TypeOK, Request, RequestForm,
      RowForm, RowsApart, LateForm, Answers, UploadSteps, HoldingSteps, ImportSteps
<1>5. LateForm'
  BY <1>1, AssetAssumption DEF BeginImport, Idle, IInv, TypeOK, Request, RequestForm,
      Statement, RowForm, LateForm, UploadExclusive, ImportExclusive, Refers, Holds,
      Makes, imports, UploadSteps, HoldingSteps, ImportSteps
<1>6. ImportForm'
  BY <1>1, AssetAssumption DEF BeginImport, Idle, IInv, TypeOK, Request, RequestForm,
      ImportForm, imports, UploadSteps, HoldingSteps, ImportSteps
<1>7. NoNewReference
  BY <1>1, AssetAssumption DEF BeginImport, Idle, IInv, NoNewReference, TypeOK, Request,
      RequestForm, RowForm, Written, UploadExclusive, ImportExclusive, Refers, Holds,
      Makes, Statement, imports, UploadSteps, HoldingSteps, ImportSteps
<1>8. Written' /\ UploadExclusive' /\ ImportExclusive'
  BY <1>7, ReferencesShrink
<1>9. AvailableForm' /\ BindingsStored'
  BY <1>1, AssetAssumption DEF BeginImport, Idle, IInv, TypeOK, Request, RequestForm,
      RowForm, LateForm, Written, UploadExclusive, ImportExclusive, AvailableForm,
      BindingsStored, Refers, Holds, Makes, imports, UploadSteps, HoldingSteps,
      ImportSteps
<1>10. AnswersAreTrue' /\ ConflictsAreReal'
  BY <1>1, AssetAssumption DEF BeginImport, Idle, IInv, TypeOK, Request, RequestForm,
      RowForm, LateForm, AnswersAreTrue, ConflictsAreReal, Conflicts, imports, Answers,
      UploadSteps, HoldingSteps, ImportSteps
<1>11. AllAccounted'
  BY <1>1, AssetAssumption DEF BeginImport, Idle, IInv, TypeOK, Request, RequestForm,
      RowForm, Accounted, Referenced, Belongings, InProgress, imports, UploadSteps,
      HoldingSteps, ImportSteps, AllAccounted, Answers, LateForm
<1>12. QED
  BY <1>2, <1>3, <1>4, <1>5, <1>6, <1>8, <1>9, <1>10, <1>11 DEF IInv

\* Under the lock, what an import finds stays so until it commits.
LEMMA LockAndCheckStep ==
  ASSUME IInv, NEW p \in Requests, LockAndCheck(p)
  PROVE  IInv'
<1>0. \/ Moves(p, "answered", "replayed") /\ req[p].package \in imported
      \/ Moves(p, "answered", "conflict") /\ Conflicts(req[p].package)
      \/ Moves(p, "ingest", req[p].answer) /\ req[p].package \notin imported
  BY AnswerMoves, GoToMoves DEF IInv, LockAndCheck, Answers, ImportSteps
<1>00. req[p].step = "lock" /\ (\A q \in Requests : req[q].step # "ingest")
       /\ UNCHANGED <<asset, object, imports, late, left>>
  BY DEF LockAndCheck
<1>1. \A q \in Requests : q # p => req'[q] = req[q]
  BY <1>0 DEF Moves
<1>2. TypeOK'
  BY <1>0, <1>00 DEF IInv, TypeOK, Moves, imports
<1>3. RequestForm'
  BY <1>0, <1>00, <1>1, AssetAssumption DEF Moves, IInv, TypeOK, Request,
      RequestForm, Answers, UploadSteps, HoldingSteps, ImportSteps
<1>4. RowForm' /\ RowsApart'
  BY <1>0, <1>00, <1>1, AssetAssumption DEF Moves, IInv, TypeOK, Request,
      RequestForm, RowForm, RowsApart, LateForm, Answers, UploadSteps, HoldingSteps,
      ImportSteps
<1>5. LateForm'
  BY <1>0, <1>00, <1>1, AssetAssumption DEF Moves, IInv, TypeOK, Request,
      RequestForm, Statement, RowForm, LateForm, UploadExclusive, ImportExclusive,
      Refers, Holds, Makes, imports, UploadSteps, HoldingSteps, ImportSteps
<1>6. ImportForm'
  BY <1>0, <1>00, <1>1, AssetAssumption DEF Moves, IInv, TypeOK, Request,
      RequestForm, ImportForm, imports, UploadSteps, HoldingSteps, ImportSteps
<1>7. NoNewReference
  BY <1>0, <1>00, <1>1, AssetAssumption DEF Moves, IInv, NoNewReference, TypeOK,
      Request, RequestForm, RowForm, Written, UploadExclusive, ImportExclusive, Refers,
      Holds, Makes, Statement, imports, UploadSteps, HoldingSteps, ImportSteps
<1>8. Written' /\ UploadExclusive' /\ ImportExclusive'
  BY <1>7, ReferencesShrink
<1>9. AvailableForm' /\ BindingsStored'
  BY <1>0, <1>00, <1>1, AssetAssumption DEF Moves, IInv, TypeOK, Request,
      RequestForm, RowForm, LateForm, Written, UploadExclusive, ImportExclusive,
      AvailableForm, BindingsStored, Refers, Holds, Makes, imports, UploadSteps,
      HoldingSteps, ImportSteps
<1>10. AnswersAreTrue' /\ ConflictsAreReal'
  BY <1>0, <1>00, <1>1, AssetAssumption DEF Moves, IInv, TypeOK, Request,
      RequestForm, RowForm, LateForm, AnswersAreTrue, ConflictsAreReal, Conflicts,
      imports, Answers, UploadSteps, HoldingSteps, ImportSteps
<1>11. AllAccounted'
  BY <1>0, <1>00, <1>1, AssetAssumption DEF Moves, IInv, TypeOK, Request,
      RequestForm, RowForm, Accounted, Referenced, Belongings, InProgress, imports,
      UploadSteps, HoldingSteps, ImportSteps, AllAccounted, Answers, LateForm
<1>12. QED
  BY <1>2, <1>3, <1>4, <1>5, <1>6, <1>8, <1>9, <1>10, <1>11 DEF IInv

\* A new file belongs to its import alone.
LEMMA ImportFileStep ==
  ASSUME IInv, NEW p \in Requests, ImportFile(p)
  PROVE  IInv'
<1>1. \A q \in Requests : q # p => req'[q] = req[q]
  BY AssetAssumption DEF ImportFile, IInv, TypeOK, Request, RequestForm, Row, Statement,
      Idle, Answers, UploadSteps, HoldingSteps, ImportSteps
<1>2. PICK o \in Objects : /\ object[o] = "unused" /\ object' = [object EXCEPT ![o] = "stored"]
                          /\ req' = [req EXCEPT ![p].made = @ \cup {o}]
  BY <1>1, AssetAssumption DEF ImportFile, IInv, TypeOK, Request, RequestForm, Row,
      Statement, Idle, Answers, UploadSteps, HoldingSteps, ImportSteps
<1>3. TypeOK'
  BY <1>2 DEF ImportFile, IInv, TypeOK, Request, imports
<1>4. RequestForm'
  BY <1>1, <1>2, AssetAssumption DEF ImportFile, IInv, TypeOK, Request, RequestForm,
      Answers, UploadSteps, HoldingSteps, ImportSteps
<1>5. RowForm' /\ RowsApart'
  BY <1>1, <1>2, AssetAssumption DEF ImportFile, IInv, TypeOK, Request, RequestForm,
      RowForm, RowsApart, LateForm, Answers, UploadSteps, HoldingSteps, ImportSteps
<1>6. LateForm'
  BY <1>1, <1>2, AssetAssumption DEF ImportFile, IInv, TypeOK, Request, RequestForm,
      Statement, RowForm, LateForm, UploadExclusive, ImportExclusive, Refers, Holds,
      Makes, imports, UploadSteps, HoldingSteps, ImportSteps
<1>7. ImportForm'
  BY <1>1, <1>2, AssetAssumption DEF ImportFile, IInv, TypeOK, Request, RequestForm,
      ImportForm, imports, UploadSteps, HoldingSteps, ImportSteps
<1>8. Written'
  BY <1>1, <1>2, AssetAssumption DEF ImportFile, IInv, TypeOK, Request, RequestForm,
      RowForm, Written, UploadExclusive, ImportExclusive, Refers, Holds, Makes,
      Statement, imports, UploadSteps, HoldingSteps, ImportSteps
<1>9. UploadExclusive'
  BY <1>1, <1>2, AssetAssumption DEF ImportFile, IInv, TypeOK, Request, RequestForm,
      RowForm, Written, UploadExclusive, ImportExclusive, Refers, Holds, Makes,
      Statement, imports, UploadSteps, HoldingSteps, ImportSteps
<1>10. ImportExclusive'
  BY <1>1, <1>2, AssetAssumption DEF ImportFile, IInv, TypeOK, Request, RequestForm,
      RowForm, Written, UploadExclusive, ImportExclusive, Refers, Holds, Makes,
      Statement, imports, UploadSteps, HoldingSteps, ImportSteps
<1>11. AvailableForm' /\ BindingsStored'
  BY <1>1, <1>2, AssetAssumption DEF ImportFile, IInv, TypeOK, Request, RequestForm,
      RowForm, LateForm, Written, UploadExclusive, ImportExclusive, AvailableForm,
      BindingsStored, Refers, Holds, Makes, imports, UploadSteps, HoldingSteps,
      ImportSteps
<1>12. AnswersAreTrue' /\ ConflictsAreReal'
  BY <1>1, <1>2, AssetAssumption DEF ImportFile, IInv, TypeOK, Request, RequestForm,
      RowForm, LateForm, AnswersAreTrue, ConflictsAreReal, Conflicts, imports, Answers,
      UploadSteps, HoldingSteps, ImportSteps
<1>13. AllAccounted'
  BY <1>1, <1>2, AssetAssumption DEF ImportFile, IInv, TypeOK, Request, RequestForm,
      RowForm, Accounted, Referenced, Belongings, InProgress, imports, UploadSteps,
      HoldingSteps, ImportSteps, AllAccounted, Answers, LateForm
<1>14. QED
  BY <1>3, <1>4, <1>5, <1>6, <1>7, <1>8, <1>9, <1>10, <1>11, <1>12, <1>13 DEF IInv

\* After a rollback, the files of an import remain its own.
LEMMA ImportFailsStep ==
  ASSUME IInv, NEW p \in Requests, ImportFails(p)
  PROVE  IInv'
<1>1. \A q \in Requests : q # p => req'[q] = req[q]
  BY AssetAssumption DEF ImportFails, GoTo, IInv, TypeOK, Request, RequestForm, Row,
      Statement, Idle, Answers, UploadSteps, HoldingSteps, ImportSteps
<1>2. req' \in [Requests -> Request]
  BY <1>1, AssetAssumption DEF ImportFails, GoTo, IInv, TypeOK, Request, RequestForm,
      Row, Statement, Idle, Answers, UploadSteps, HoldingSteps, ImportSteps
<1>3. object' \in [Objects -> {"unused", "stored", "removed"}]
  BY <1>1, <1>2, AssetAssumption DEF ImportFails, GoTo, IInv, TypeOK, Request,
      RequestForm, Row, Statement, Idle, Answers, UploadSteps, HoldingSteps, ImportSteps
<1>4. TypeOK'
  BY <1>1, <1>2, <1>3, AssetAssumption DEF ImportFails, GoTo, IInv, TypeOK, Row,
      Request, Statement, Answers, imports
<1>5. RequestForm'
  BY <1>1, <1>2, <1>3, AssetAssumption DEF ImportFails, GoTo, IInv, TypeOK, Request,
      RequestForm, Answers, UploadSteps, HoldingSteps, ImportSteps
<1>6. RowForm' /\ RowsApart'
  BY <1>1, <1>2, <1>3, AssetAssumption DEF ImportFails, GoTo, IInv, TypeOK, Request,
      RequestForm, RowForm, RowsApart, LateForm, Answers, UploadSteps, HoldingSteps,
      ImportSteps
<1>7. LateForm'
  BY <1>1, <1>2, <1>3, AssetAssumption DEF ImportFails, GoTo, IInv, TypeOK, Request,
      RequestForm, Statement, RowForm, LateForm, UploadExclusive, ImportExclusive,
      Refers, Holds, Makes, imports, UploadSteps, HoldingSteps, ImportSteps
<1>8. ImportForm'
  BY <1>1, <1>2, <1>3, AssetAssumption DEF ImportFails, GoTo, IInv, TypeOK, Request,
      RequestForm, ImportForm, imports, UploadSteps, HoldingSteps, ImportSteps
<1>9. NoNewReference
  BY <1>1, <1>2, <1>3, AssetAssumption DEF ImportFails, GoTo, IInv, NoNewReference,
      TypeOK, Request, RequestForm, RowForm, Written, UploadExclusive, ImportExclusive,
      Refers, Holds, Makes, Statement, imports, UploadSteps, HoldingSteps, ImportSteps
<1>10. Written' /\ UploadExclusive' /\ ImportExclusive'
  BY <1>9, ReferencesShrink
<1>11. AvailableForm' /\ BindingsStored'
  BY <1>1, <1>2, <1>3, AssetAssumption DEF ImportFails, GoTo, IInv, TypeOK, Request,
      RequestForm, RowForm, LateForm, Written, UploadExclusive, ImportExclusive,
      AvailableForm, BindingsStored, Refers, Holds, Makes, imports, UploadSteps,
      HoldingSteps, ImportSteps
<1>12. AnswersAreTrue' /\ ConflictsAreReal'
  BY <1>1, <1>2, <1>3, AssetAssumption DEF ImportFails, GoTo, IInv, TypeOK, Request,
      RequestForm, RowForm, LateForm, AnswersAreTrue, ConflictsAreReal, Conflicts,
      imports, Answers, UploadSteps, HoldingSteps, ImportSteps
<1>13. AllAccounted'
  BY <1>1, <1>2, <1>3, AssetAssumption DEF ImportFails, GoTo, IInv, TypeOK, Request,
      RequestForm, RowForm, Accounted, Referenced, Belongings, InProgress, imports,
      UploadSteps, HoldingSteps, ImportSteps, AllAccounted, Answers, LateForm
<1>14. QED
  BY <1>4, <1>5, <1>6, <1>7, <1>8, <1>10, <1>11, <1>12, <1>13 DEF IInv

\* All files of an import pass to its record.
LEMMA CommitImportStep ==
  ASSUME IInv, NEW p \in Requests, CommitImport(p)
  PROVE  IInv'
<1>0. \/ Moves(p, "answered", "imported")
      \/ ~CommitsAreConfirmed /\ Moves(p, "compensate", req[p].answer)
  BY AnswerMoves, GoToMoves DEF IInv, CommitImport, Answers, ImportSteps
<1>1. \A q \in Requests : q # p => req'[q] = req[q]
  BY <1>0 DEF Moves
<1>2. req' \in [Requests -> Request]
  BY <1>0 DEF Moves
<1>3. \/ req'[p].step = "answered" /\ req'[p].answer = "imported"
      \/ /\ ~CommitsAreConfirmed /\ req'[p].step = "compensate"
         /\ req'[p].answer = req[p].answer
  BY <1>0 DEF Moves
<1>4. /\ req'[p].asset = req[p].asset
      /\ req'[p].object = req[p].object
      /\ req'[p].package = req[p].package
      /\ req'[p].made = req[p].made
  BY <1>0 DEF Moves
<1>5. req[p].package \in Packages /\ req[p].made \subseteq Objects
  BY <1>1, <1>2, <1>3, <1>4, AssetAssumption DEF CommitImport, Answer, GoTo, IInv,
      TypeOK, Request, RequestForm, Row, Statement, Idle, Answers, UploadSteps,
      HoldingSteps, ImportSteps
<1>6. /\ bindings'[req[p].package] = req[p].made
      /\ \A k \in Packages : k # req[p].package => bindings'[k] = bindings[k]
  BY <1>1, <1>2, <1>3, <1>4, <1>5, AssetAssumption DEF CommitImport, Answer, GoTo, IInv,
      TypeOK, Request, RequestForm, Row, Statement, Idle, Answers, UploadSteps,
      HoldingSteps, ImportSteps
<1>7. bindings[req[p].package] = {}
  BY <1>1, <1>2, <1>3, <1>4, <1>5, <1>6, AssetAssumption DEF CommitImport, Answer, GoTo,
      IInv, TypeOK, Request, RequestForm, Row, Statement, Idle, Answers, UploadSteps,
      HoldingSteps, ImportSteps, ImportForm
<1>8. \A o \in Objects : Referenced(o) => Referenced(o)'
  BY <1>1, <1>2, <1>3, <1>4, <1>5, <1>6, <1>7, AssetAssumption DEF CommitImport, Answer,
      GoTo, IInv, TypeOK, Request, RequestForm, Row, Statement, Idle, Answers,
      UploadSteps, HoldingSteps, ImportSteps, Referenced
<1>9. \A o \in req[p].made : Referenced(o)'
  BY <1>1, <1>2, <1>3, <1>4, <1>5, <1>6, <1>7, <1>8, AssetAssumption DEF CommitImport,
      Answer, GoTo, IInv, TypeOK, Request, RequestForm, Row, Statement, Idle, Answers,
      UploadSteps, HoldingSteps, ImportSteps, Referenced
<1>10. TypeOK'
  BY <1>1, <1>2, <1>3, <1>4, <1>5, <1>6, <1>7, <1>8, <1>9, AssetAssumption DEF
      CommitImport, Answer, GoTo, IInv, TypeOK, Row, Request, Statement, Answers,
      imports
<1>11. RequestForm'
  BY <1>1, <1>2, <1>3, <1>4, <1>5, <1>6, <1>7, <1>8, <1>9, AssetAssumption DEF
      CommitImport, Answer, GoTo, IInv, TypeOK, Request, RequestForm, Answers,
      UploadSteps, HoldingSteps, ImportSteps
<1>12. RowForm' /\ RowsApart'
  BY <1>1, <1>2, <1>3, <1>4, <1>5, <1>6, <1>7, <1>8, <1>9, AssetAssumption DEF
      CommitImport, Answer, GoTo, IInv, TypeOK, Request, RequestForm, RowForm,
      RowsApart, LateForm, Answers, UploadSteps, HoldingSteps, ImportSteps
<1>13. LateForm'
  BY <1>1, <1>2, <1>3, <1>4, <1>5, <1>6, <1>7, <1>8, <1>9, AssetAssumption DEF
      CommitImport, Answer, GoTo, IInv, TypeOK, Request, RequestForm, Statement,
      RowForm, LateForm, UploadExclusive, ImportExclusive, Refers, Holds, Makes,
      imports, UploadSteps, HoldingSteps, ImportSteps
<1>14. ImportForm'
  BY <1>1, <1>2, <1>3, <1>4, <1>5, <1>6, <1>7, <1>8, <1>9, AssetAssumption DEF
      CommitImport, Answer, GoTo, IInv, TypeOK, Request, RequestForm, ImportForm,
      imports, UploadSteps, HoldingSteps, ImportSteps
<1>15. Written'
  <2>1. UNCHANGED <<asset, object, late>>
    BY DEF CommitImport
  <2>2. \A q \in Requests, o \in Objects : Holds(q, o)' => Holds(q, o)
    BY <1>1, <1>3 DEF Holds, HoldingSteps
  <2>3. \A q \in Requests, o \in Objects : Makes(q, o)' => Makes(q, o)
    BY <1>1, <1>3, <1>4 DEF Makes, CommitImport
  <2>4. \A k \in Packages, o \in Objects : o \in bindings'[k] => o \in bindings[k] \/ Makes(p, o)
    BY <1>6 DEF Makes, CommitImport
  <2>5. \A a \in Assets, o \in Objects : Refers(a, o)' => Refers(a, o)
    <3> SUFFICES ASSUME NEW a \in Assets, NEW o \in Objects, Refers(a, o)' PROVE Refers(a, o)
      OBVIOUS
    <3>1. CASE \E q \in Requests : Holds(q, o)' /\ req'[q].asset = a
      BY <3>1, <1>1, <1>4, <2>2 DEF Refers
    <3>2. CASE asset'[a].object = o \/ \E s \in late' : s.asset = a /\ s.object = o
      BY <3>2, <2>1 DEF Refers
    <3> QED BY <3>1, <3>2 DEF Refers
  <2> QED BY <2>1, <2>2, <2>3, <2>4, <2>5 DEF IInv, Written
<1>16. UploadExclusive'
  BY <1>1, <1>3, <1>4, <1>5, <1>6 DEF IInv, TypeOK, CommitImport, UploadExclusive,
      Refers, Holds, Makes, HoldingSteps
<1>17. ImportExclusive'
  BY <1>1, <1>3, <1>4, <1>5, <1>6 DEF IInv, TypeOK, CommitImport, ImportExclusive,
      Refers, Holds, Makes, HoldingSteps
<1>18. AvailableForm' /\ BindingsStored'
  BY <1>1, <1>2, <1>3, <1>4, <1>5, <1>6, <1>7, <1>8, <1>9, AssetAssumption DEF
      CommitImport, Answer, GoTo, IInv, TypeOK, Request, RequestForm, RowForm, LateForm,
      Written, UploadExclusive, ImportExclusive, AvailableForm, BindingsStored, Refers,
      Holds, Makes, imports, UploadSteps, HoldingSteps, ImportSteps
<1>19. AnswersAreTrue' /\ ConflictsAreReal'
  BY <1>1, <1>2, <1>3, <1>4, <1>5, <1>6, <1>7, <1>8, <1>9, AssetAssumption DEF
      CommitImport, Answer, GoTo, IInv, TypeOK, Request, RequestForm, RowForm, LateForm,
      AnswersAreTrue, ConflictsAreReal, Conflicts, imports, Answers, UploadSteps,
      HoldingSteps, ImportSteps
<1>20. left \subseteq left'
  BY <1>1, <1>2, <1>3, <1>4, <1>5, <1>6, <1>7, <1>8, <1>9, AssetAssumption DEF
      CommitImport, Answer, GoTo, IInv, TypeOK, Request, RequestForm, RowForm,
      Accounted, Referenced, Belongings, InProgress, imports, UploadSteps, HoldingSteps,
      ImportSteps
<1>21. \A b \in Assets : asset'[b].lifecycle = "PENDING" =>
         asset[b].lifecycle = "PENDING" \/ Accounted(b)'
  BY <1>1, <1>2, <1>3, <1>4, <1>5, <1>6, <1>7, <1>8, <1>9, AssetAssumption DEF
      CommitImport, Answer, GoTo, IInv, TypeOK, Request, RequestForm, RowForm,
      Accounted, Referenced, Belongings, InProgress, imports, UploadSteps, HoldingSteps,
      ImportSteps
<1>22. \A x \in Objects : object'[x] = "stored" /\ ~Referenced(x)' =>
         (object[x] = "stored" /\ ~Referenced(x)) \/ Accounted(x)'
  BY <1>1, <1>2, <1>3, <1>4, <1>5, <1>6, <1>7, <1>8, <1>9, AssetAssumption DEF
      CommitImport, Answer, GoTo, IInv, TypeOK, Request, RequestForm, RowForm,
      Accounted, Referenced, Belongings, InProgress, imports, UploadSteps, HoldingSteps,
      ImportSteps
<1>23. \A x \in Belongings(p) : InProgress(p) =>
         \/ Accounted(x)'
         \/ /\ x \in Assets => asset'[x].lifecycle # "PENDING"
            /\ x \in Objects => object'[x] # "stored" \/ Referenced(x)'
  BY <1>1, <1>2, <1>3, <1>4, <1>5, <1>6, <1>7, <1>8, <1>9, AssetAssumption DEF
      CommitImport, Answer, GoTo, IInv, TypeOK, Request, RequestForm, RowForm,
      Accounted, Referenced, Belongings, InProgress, imports, UploadSteps, HoldingSteps,
      ImportSteps
<1>24. AllAccounted'
  BY <1>1, <1>20, <1>21, <1>22, <1>23, AccountingKept DEF IInv
<1>25. QED
  BY <1>10, <1>11, <1>12, <1>13, <1>14, <1>15, <1>16, <1>17, <1>18, <1>19, <1>24 DEF IInv

\* The files that an import removes are named by nobody else.
LEMMA CompensateImportedAssetsStep ==
  ASSUME IInv, NEW p \in Requests, CompensateImportedAssets(p)
  PROVE  IInv'
<1>0. PICK r \in Request :
         /\ req' = [req EXCEPT ![p] = r]
         /\ r.made \subseteq req[p].made
         /\ \/ r.step = req[p].step /\ r.answer = req[p].answer
            \/ r.step = "answered" /\ r.answer = "failed" /\ req[p].made = {}
         /\ r.asset = req[p].asset /\ r.object = req[p].object /\ r.package = req[p].package
  <2>1. CASE req[p].made = {}
    <3> DEFINE q == [req[p] EXCEPT !.step = "answered", !.answer = "failed"]
    <3>1. req' = [req EXCEPT ![p] = q]
      BY <2>1 DEF CompensateImportedAssets, Answer
    <3>2. q \in Request
      BY DEF IInv, TypeOK, Request, Answers
    <3>3. QED
      BY <2>1, <3>1, <3>2 DEF IInv, TypeOK, Request
  <2>2. CASE req[p].made # {}
    <3>1. PICK o \in req[p].made : req' = [req EXCEPT ![p].made = @ \ {o}]
      BY <2>2 DEF CompensateImportedAssets
    <3> DEFINE q == [req[p] EXCEPT !.made = req[p].made \ {o}]
    <3>2. q \in Request
      BY DEF IInv, TypeOK, Request
    <3>3. req' = [req EXCEPT ![p] = q]
      BY <3>1 DEF IInv, TypeOK
    <3>4. QED
      BY <3>2, <3>3 DEF IInv, TypeOK, Request
  <2>3. QED
    BY <2>1, <2>2
<1>1. \A q \in Requests : q # p => req'[q] = req[q]
  BY <1>0 DEF IInv, TypeOK, Request
<1>2. req' \in [Requests -> Request]
  BY <1>0 DEF IInv, TypeOK, Request
<1>3. /\ req'[p].made \subseteq req[p].made
      /\ \/ req'[p].step = req[p].step /\ req'[p].answer = req[p].answer
         \/ req'[p].step = "answered" /\ req'[p].answer = "failed" /\ req[p].made = {}
  BY <1>0 DEF IInv, TypeOK, Request
<1>4. /\ req'[p].asset = req[p].asset
      /\ req'[p].object = req[p].object
      /\ req'[p].package = req[p].package
  BY <1>0 DEF IInv, TypeOK, Request
<1>5. \A o \in req[p].made : Makes(p, o) /\ o \in Objects
  BY <1>1, <1>2, <1>3, <1>4, AssetAssumption DEF CompensateImportedAssets, Answer, IInv,
      TypeOK, Request, RequestForm, Row, Statement, Idle, Answers, UploadSteps,
      HoldingSteps, ImportSteps, Makes
<1>6. \A o \in Objects : /\ object'[o] = "removed" \/ object'[o] = object[o]
                         /\ object'[o] # object[o] => o \in req[p].made /\ o \notin req'[p].made
                         /\ o \in req[p].made \ req'[p].made =>
                               object'[o] = "removed" \/ o \in left'
  BY <1>1, <1>2, <1>3, <1>4, <1>5, AssetAssumption DEF CompensateImportedAssets, Answer,
      IInv, TypeOK, Request, RequestForm, Row, Statement, Idle, Answers, UploadSteps,
      HoldingSteps, ImportSteps
<1>7. \A q \in Requests, o \in req[p].made : ~Holds(q, o) /\ (Makes(q, o) => q = p)
  BY <1>1, <1>2, <1>3, <1>4, <1>5, <1>6, AssetAssumption DEF CompensateImportedAssets,
      Answer, IInv, TypeOK, Request, RequestForm, Row, Statement, Idle, Answers,
      UploadSteps, HoldingSteps, ImportSteps, UploadExclusive, ImportExclusive
<1>8. \A a \in Assets, o \in req[p].made : ~Refers(a, o)
  BY <1>1, <1>2, <1>3, <1>4, <1>5, <1>6, <1>7, AssetAssumption DEF
      CompensateImportedAssets, Answer, IInv, TypeOK, Request, RequestForm, Row,
      Statement, Idle, Answers, UploadSteps, HoldingSteps, ImportSteps, ImportExclusive
<1>9. \A s \in late : s.object \notin req[p].made
  BY <1>1, <1>2, <1>3, <1>4, <1>5, <1>6, <1>7, <1>8, AssetAssumption DEF
      CompensateImportedAssets, Answer, IInv, TypeOK, Request, RequestForm, Row,
      Statement, Idle, Answers, UploadSteps, HoldingSteps, ImportSteps, Refers
<1>10. TypeOK'
  BY <1>1, <1>2, <1>3, <1>4, <1>5, <1>6, <1>7, <1>8, <1>9, AssetAssumption DEF
      CompensateImportedAssets, Answer, IInv, TypeOK, Row, Request, Statement, Answers,
      imports
<1>11. RequestForm'
  BY <1>1, <1>2, <1>3, <1>4, <1>5, <1>6, <1>7, <1>8, <1>9, AssetAssumption DEF
      CompensateImportedAssets, Answer, IInv, TypeOK, Request, RequestForm, Answers,
      UploadSteps, HoldingSteps, ImportSteps
<1>12. RowForm' /\ RowsApart'
  <2>1. RowForm'
    BY <1>1, <1>3, <1>4 DEF IInv, CompensateImportedAssets, RowForm, RequestForm, UploadSteps, HoldingSteps, ImportSteps, TypeOK
  <2>2. RowsApart'
    BY <1>1, <1>3, <1>4 DEF IInv, CompensateImportedAssets, RowsApart, UploadSteps
  <2>3. QED
    BY <2>1, <2>2
<1>13. LateForm'
  BY <1>1, <1>2, <1>3, <1>4, <1>5, <1>6, <1>7, <1>8, <1>9, AssetAssumption DEF
      CompensateImportedAssets, Answer, IInv, TypeOK, Request, RequestForm, Statement,
      RowForm, LateForm, UploadExclusive, ImportExclusive, Refers, Holds, Makes,
      imports, UploadSteps, HoldingSteps, ImportSteps
<1>14. ImportForm'
  BY <1>1, <1>2, <1>3, <1>4, <1>5, <1>6, <1>7, <1>8, <1>9, AssetAssumption DEF
      CompensateImportedAssets, Answer, IInv, TypeOK, Request, RequestForm, ImportForm,
      imports, UploadSteps, HoldingSteps, ImportSteps
<1>15. \A o \in Objects : object'[o] = "unused" => object[o] = "unused"
  BY <1>1, <1>2, <1>3, <1>4, <1>5, <1>6, <1>7, <1>8, <1>9, AssetAssumption DEF
      CompensateImportedAssets, Answer, IInv, TypeOK, Request, RequestForm, RowForm,
      Written, UploadExclusive, ImportExclusive, Refers, Holds, Makes, Statement,
      imports, UploadSteps, HoldingSteps, ImportSteps
<1>16. \A b \in Assets, o \in Objects : Refers(b, o)' => Refers(b, o)
  BY <1>1, <1>2, <1>3, <1>4, <1>5, <1>6, <1>7, <1>8, <1>9, AssetAssumption DEF
      CompensateImportedAssets, Answer, IInv, TypeOK, Request, RequestForm, RowForm,
      Written, UploadExclusive, ImportExclusive, Refers, Holds, Makes, Statement,
      imports, UploadSteps, HoldingSteps, ImportSteps
<1>17. \A q \in Requests, o \in Objects : Holds(q, o)' =>
         Holds(q, o) /\ req'[q].asset = req[q].asset /\ object'[o] = object[o]
  BY <1>1, <1>2, <1>3, <1>4, <1>5, <1>6, <1>7, <1>8, <1>9, AssetAssumption DEF
      CompensateImportedAssets, Answer, IInv, TypeOK, Request, RequestForm, RowForm,
      Written, UploadExclusive, ImportExclusive, Refers, Holds, Makes, Statement,
      imports, UploadSteps, HoldingSteps, ImportSteps
<1>18. \A q \in Requests, o \in Objects : Makes(q, o)' =>
         Makes(q, o) /\ object'[o] = object[o]
  BY <1>1, <1>2, <1>3, <1>4, <1>5, <1>6, <1>7, <1>8, <1>9, AssetAssumption DEF
      CompensateImportedAssets, Answer, IInv, TypeOK, Request, RequestForm, RowForm,
      Written, UploadExclusive, ImportExclusive, Refers, Holds, Makes, Statement,
      imports, UploadSteps, HoldingSteps, ImportSteps
<1>19. Written' /\ UploadExclusive' /\ ImportExclusive'
  BY <1>15, <1>16, <1>17, <1>18, ReferencesShrink
     DEF NoNewReference, CompensateImportedAssets, imports
<1>20. AvailableForm' /\ BindingsStored'
  BY <1>1, <1>2, <1>3, <1>4, <1>5, <1>6, <1>7, <1>8, <1>9, AssetAssumption DEF
      CompensateImportedAssets, Answer, IInv, TypeOK, Request, RequestForm, RowForm,
      LateForm, Written, UploadExclusive, ImportExclusive, AvailableForm,
      BindingsStored, Refers, Holds, Makes, imports, UploadSteps, HoldingSteps,
      ImportSteps
<1>21. AnswersAreTrue' /\ ConflictsAreReal'
  BY <1>1, <1>3, <1>4 DEF IInv, CompensateImportedAssets, AnswersAreTrue,
      ConflictsAreReal, Conflicts, imports
<1>22. left \subseteq left'
  BY <1>1, <1>2, <1>3, <1>4, <1>5, <1>6, <1>7, <1>8, <1>9, AssetAssumption DEF
      CompensateImportedAssets, Answer, IInv, TypeOK, Request, RequestForm, RowForm,
      Accounted, Referenced, Belongings, InProgress, imports, UploadSteps, HoldingSteps,
      ImportSteps
<1>23. \A b \in Assets : asset'[b].lifecycle = "PENDING" =>
         asset[b].lifecycle = "PENDING" \/ Accounted(b)'
  BY <1>1, <1>2, <1>3, <1>4, <1>5, <1>6, <1>7, <1>8, <1>9, AssetAssumption DEF
      CompensateImportedAssets, Answer, IInv, TypeOK, Request, RequestForm, RowForm,
      Accounted, Referenced, Belongings, InProgress, imports, UploadSteps, HoldingSteps,
      ImportSteps
<1>24. \A x \in Objects : object'[x] = "stored" /\ ~Referenced(x)' =>
         (object[x] = "stored" /\ ~Referenced(x)) \/ Accounted(x)'
  BY <1>1, <1>2, <1>3, <1>4, <1>5, <1>6, <1>7, <1>8, <1>9, AssetAssumption DEF
      CompensateImportedAssets, Answer, IInv, TypeOK, Request, RequestForm, RowForm,
      Accounted, Referenced, Belongings, InProgress, imports, UploadSteps, HoldingSteps,
      ImportSteps
<1>25. \A x \in Belongings(p) : InProgress(p) =>
         \/ Accounted(x)'
         \/ /\ x \in Assets => asset'[x].lifecycle # "PENDING"
            /\ x \in Objects => object'[x] # "stored" \/ Referenced(x)'
  BY <1>1, <1>2, <1>3, <1>4, <1>5, <1>6, <1>7, <1>8, <1>9, AssetAssumption DEF
      CompensateImportedAssets, Answer, IInv, TypeOK, Request, RequestForm, RowForm,
      Accounted, Referenced, Belongings, InProgress, imports, UploadSteps, HoldingSteps,
      ImportSteps
<1>26. AllAccounted'
  BY <1>1, <1>22, <1>23, <1>24, <1>25, AccountingKept DEF IInv
<1>27. QED
  BY <1>10, <1>11, <1>12, <1>13, <1>14, <1>19, <1>20, <1>21, <1>26 DEF IInv

\* A request that stops leaves what it has, and nothing else changes.
LEMMA EndRequestStep ==
  ASSUME IInv, NEW p \in Requests, EndRequest(p)
  PROVE  IInv'
<1>1. \A q \in Requests : q # p => req'[q] = req[q]
  BY AssetAssumption DEF EndRequest, Belongings, Idle, IInv, TypeOK, Request,
      RequestForm, Row, Statement, Answers, UploadSteps, HoldingSteps, ImportSteps
<1>2. TypeOK'
  BY <1>1, AssetAssumption DEF EndRequest, Belongings, Idle, IInv, TypeOK, Row, Request,
      Statement, Answers, imports
<1>3. RequestForm'
  BY <1>1, AssetAssumption DEF EndRequest, Belongings, Idle, IInv, TypeOK, Request,
      RequestForm, Answers, UploadSteps, HoldingSteps, ImportSteps
<1>4. RowForm' /\ RowsApart'
  BY <1>1, AssetAssumption DEF EndRequest, Belongings, Idle, IInv, TypeOK, Request,
      RequestForm, RowForm, RowsApart, LateForm, Answers, UploadSteps, HoldingSteps,
      ImportSteps
<1>5. LateForm'
  BY <1>1, AssetAssumption DEF EndRequest, Belongings, Idle, IInv, TypeOK, Request,
      RequestForm, Statement, RowForm, LateForm, UploadExclusive, ImportExclusive,
      Refers, Holds, Makes, imports, UploadSteps, HoldingSteps, ImportSteps
<1>6. ImportForm'
  BY <1>1, AssetAssumption DEF EndRequest, Belongings, Idle, IInv, TypeOK, Request,
      RequestForm, ImportForm, imports, UploadSteps, HoldingSteps, ImportSteps
<1>7. NoNewReference
  BY <1>1, AssetAssumption DEF EndRequest, Belongings, Idle, IInv, NoNewReference,
      TypeOK, Request, RequestForm, RowForm, Written, UploadExclusive, ImportExclusive,
      Refers, Holds, Makes, Statement, imports, UploadSteps, HoldingSteps, ImportSteps
<1>8. Written' /\ UploadExclusive' /\ ImportExclusive'
  BY <1>7, ReferencesShrink
<1>9. AvailableForm' /\ BindingsStored'
  BY <1>1, AssetAssumption DEF EndRequest, Belongings, Idle, IInv, TypeOK, Request,
      RequestForm, RowForm, LateForm, Written, UploadExclusive, ImportExclusive,
      AvailableForm, BindingsStored, Refers, Holds, Makes, imports, UploadSteps,
      HoldingSteps, ImportSteps
<1>10. AnswersAreTrue' /\ ConflictsAreReal'
  BY <1>1, AssetAssumption DEF EndRequest, Belongings, Idle, IInv, TypeOK, Request,
      RequestForm, RowForm, LateForm, AnswersAreTrue, ConflictsAreReal, Conflicts,
      imports, Answers, UploadSteps, HoldingSteps, ImportSteps
<1>11. AllAccounted'
  BY <1>1, AssetAssumption DEF EndRequest, Belongings, Idle, IInv, TypeOK, Request,
      RequestForm, RowForm, Accounted, Referenced, InProgress, imports, UploadSteps,
      HoldingSteps, ImportSteps, AllAccounted, Answers, LateForm
<1>12. QED
  BY <1>2, <1>3, <1>4, <1>5, <1>6, <1>8, <1>9, <1>10, <1>11 DEF IInv

-----------------------------------------------------------------------------
\* Nothing exists at first, and no request is in progress.
LEMMA InitInv == Init => IInv
<1> SUFFICES ASSUME Init PROVE IInv
  OBVIOUS
<1>1. TypeOK
  BY IdleIsRequest DEF Init, TypeOK, Row
<1>2. \A p \in Requests : req[p] = Idle
  BY DEF Init
<1>3. \A a \in Assets : asset[a].lifecycle = "NONE" /\ asset[a].object = None
  BY DEF Init
<1>4. RequestForm /\ RowForm /\ RowsApart
  <2>1. \A p \in Requests : req[p].step = "idle" /\ req[p].answer = None
    BY <1>2 DEF Idle
  <2>2. QED
    BY <2>1, AssetAssumption DEF RequestForm, RowForm, RowsApart, UploadSteps,
        HoldingSteps, ImportSteps, Answers
<1>5. LateForm /\ ImportForm
  BY <1>2 DEF Init, LateForm, ImportForm, Idle
<1>6. \A o \in Objects : object[o] = "unused"
  BY DEF Init
<1>7. \A p \in Requests, o \in Objects : ~Holds(p, o) /\ ~Makes(p, o)
  BY <1>2 DEF Holds, Makes, Idle, HoldingSteps
<1>8. \A a \in Assets, o \in Objects : ~Refers(a, o)
  BY <1>3, <1>7, AssetAssumption DEF Init, Refers
<1>9. Written /\ UploadExclusive /\ ImportExclusive
  BY <1>7, <1>8 DEF Init, Written, UploadExclusive, ImportExclusive
<1>10. AvailableForm /\ BindingsStored
  BY <1>3 DEF Init, AvailableForm, BindingsStored
<1>11. AnswersAreTrue /\ ConflictsAreReal
  BY <1>2, AssetAssumption DEF AnswersAreTrue, ConflictsAreReal, Idle, Answers
<1>12. AllAccounted
  BY <1>3, <1>6 DEF AllAccounted
<1>13. QED
  BY <1>1, <1>4, <1>5, <1>9, <1>10, <1>11, <1>12 DEF IInv

\* Nothing happens.
LEMMA StutterStep == ASSUME IInv, UNCHANGED vars PROVE IInv'
<1>1. /\ TypeOK' /\ RequestForm' /\ RowForm' /\ RowsApart' /\ LateForm' /\ ImportForm'
      /\ AvailableForm' /\ BindingsStored' /\ AnswersAreTrue' /\ ConflictsAreReal'
  BY DEF IInv, vars, imports, TypeOK, RequestForm, RowForm, RowsApart, LateForm, ImportForm,
      AvailableForm, BindingsStored, AnswersAreTrue, ConflictsAreReal, Conflicts
<1>2. Written' /\ UploadExclusive' /\ ImportExclusive'
  BY ReferencesShrink DEF NoNewReference, vars, imports, Refers, Holds, Makes
<1>3. AllAccounted'
  BY DEF IInv, vars, imports, AllAccounted, Accounted, Referenced, Belongings, InProgress
<1>4. QED
  BY <1>1, <1>2, <1>3 DEF IInv

\* The invariant holds in every state of every behaviour.
THEOREM Invariance == Spec => []IInv
<1>1. Init => IInv
  BY InitInv
<1>2. IInv /\ [Next]_vars => IInv'
  <2> SUFFICES ASSUME IInv, [Next]_vars PROVE IInv'
    OBVIOUS
  <2>1. ASSUME NEW p \in Requests, Upload(p) PROVE IInv'
    BY <2>1, CreateAssetStep, PutStep, PutFailsStep, MarkAssetAvailableStep, ReadBackStep,
        DiscardPendingAssetStep, DiscardUncommittedStep DEF Upload
  <2>2. ASSUME NEW p \in Requests, Import(p) PROVE IInv'
    BY <2>2, BeginImportStep, LockAndCheckStep, ImportFileStep, ImportFailsStep,
        CommitImportStep, CompensateImportedAssetsStep DEF Import
  <2>3. QED
    BY <2>1, <2>2, EndRequestStep, ExecuteLateStep, StutterStep DEF Next
<1>3. QED
  BY <1>1, <1>2, PTL DEF Spec

\* Every variable keeps its type.
THEOREM AssetTypeCorrect == Spec => []TypeOK
<1>1. IInv => TypeOK
  BY DEF IInv
<1>2. QED
  BY <1>1, Invariance, PTL

\* No file that an AVAILABLE Asset or an imported version refers to is removed, for any
\* number of uploads and imports, if an import learns what became of its COMMIT.
THEOREM AvailableAssetsHaveBytes ==
  ASSUME CommitsAreConfirmed PROVE Spec => []AvailableHasBytes
<1>1. IInv => AvailableHasBytes
  BY CommitsAreConfirmed DEF IInv, AvailableForm, BindingsStored, AvailableHasBytes
<1>2. QED
  BY <1>1, Invariance, PTL

\* What an upload or an import reports is so: the Asset is AVAILABLE with the file that was
\* stored, the import has its record.
THEOREM AnswersHold == Spec => []AnswersAreTrue
<1>1. IInv => AnswersAreTrue
  BY DEF IInv
<1>2. QED
  BY <1>1, Invariance, PTL

\* A package is refused as conflicting only because of another one: to import the same one
\* again, even at the same time, is a replay.
THEOREM ConflictsHold == Spec => []ConflictsAreReal
<1>1. IInv => ConflictsAreReal
  BY DEF IInv
<1>2. QED
  BY <1>1, Invariance, PTL

\* Whatever an upload or an import leaves behind, an operator can know of.
THEOREM ResidueIsKnown == Spec => []NothingIsForgotten
<1>1. IInv => NothingIsForgotten
  <2>1. AllAccounted => NothingIsForgotten
    BY DEF AllAccounted, Accounted, NothingIsForgotten
  <2>2. QED
    BY <2>1 DEF IInv
<1>2. QED
  BY <1>1, Invariance, PTL

=============================================================================
