---------------------- MODULE PlatformServicesProofs ----------------------
(***************************************************************************)
(* Proofs about the course store and the course packages, and that what    *)
(* holds of every service alone holds of the platform.  They hold for any  *)
(* sources, reviews, assets, packages, requests and users.                 *)
(***************************************************************************)
EXTENDS PlatformServices, PluginProofs, AccountProofs, FiniteSetTheorems, WellFoundedInduction,
        TLAPS

-----------------------------------------------------------------------------
(***************************************************************************)
(* Rows, versions and transactions                                         *)
(*                                                                         *)
(* A version is a row that is written once, under a key that no other      *)
(* transaction can have written, and turns from status to status.  What a  *)
(* reader chose was published at some moment since it began.               *)
(***************************************************************************)

CourseTables == {"course", "mapping", "import", "version", "asset", "assessment",
                 "publication_provenance", "import_provenance", "module", "lesson", "prerequisite"}

WholeKinds == {"exact", "latest", "stored"}

OutlineKinds == {"preferred", "explicit"}

LoadKinds == WholeKinds \cup OutlineKinds \cup {"lesson"}

\* The course that a source is stored under, and the key of its version.
CourseOf(s) == IF s \in Imported THEN "imported" ELSE HomeOf[s]

SourceKey(s) == KeyOf(CourseOf(s), NumberOf[s])

VersionFields(v) ==
    v = [table |-> v.table, id |-> v.id, source |-> v.source, status |-> v.status, origin |-> v.origin]

\* A row names its table; a version is that of its source.
RowForm(r) ==
    /\ r.table \in CourseTables
    /\ r.table = "version" =>
          VersionFields(r) /\ r.source \in Sources /\ r.id = SourceKey(r.source) /\ r.status \in Statuses

\* No two versions of one number, each of a course that is there, with the evidence of its review.
StoreForm ==
    /\ \A r \in rows : RowForm(r)
    /\ \A v, w \in VersionsOf(rows) : v.id = w.id => v = w
    /\ \A v \in VersionsOf(rows) : CourseRow(v.id.course) \in rows
    /\ \A v \in VersionsOf(rows) : v.source \notin Imported => ReviewProvenanceRow(v.id, v.source) \in rows
    /\ MappingRow("imported") \in rows => CourseRow("imported") \in rows

ErrandNames == {"step", "kind", "source", "id", "lesson", "tx", "next", "version", "found", "hidden"}

ErrandFields(c) == c = [f \in ErrandNames |-> c[f]]

Writing == {"version", "parts", "commit"}

\* The rows of a transaction are those of its own version, which nobody else has stored.
WriterForm(c) ==
    /\ c.step \notin Writing => c.tx = {}
    /\ c.step = "lock" => c.source \in Imported
    /\ c.step \in Writing =>
          /\ c.source \in Sources /\ c.id = SourceKey(c.source)
          /\ c.next \in 1..6
          /\ \A r \in c.tx : RowForm(r)
          /\ CourseRow(c.id.course) \in rows \cup c.tx
          /\ MappingRow("imported") \in c.tx => CourseRow("imported") \in c.tx
    /\ c.step = "version" => VersionsOf(c.tx) = {} /\ c.next = 1
    /\ c.step \in {"parts", "commit"} =>
          VersionsOf(c.tx) = {VersionRow(c.id, c.source)} /\ ~HasVersion(rows, c.id)
    /\ c.step \in Writing /\ (c.step = "commit" \/ c.next > 1) => ProvenanceRow(c.id, c.source) \in c.tx

\* A reader has a statement to go on with, and has seen no withdrawn version.
ReaderForm(c) ==
    /\ c.step = "load" => c.kind \in LoadKinds /\ c.next \in 1..Len(PlanOf(c.kind))
    /\ c.step \in {"load", "answered"} /\ c.kind \in LearnerKinds => c.id \notin c.hidden

ErrandForm(c) ==
    /\ c.step \in {"idle", "lock", "version", "parts", "commit", "load", "answered"}
    /\ ErrandFields(c) /\ WriterForm(c) /\ ReaderForm(c)

\* Of two transactions that have inserted a version each, the keys differ.
KeysDiffer ==
    \A p, q \in Requests :
        p # q /\ errand[p].step \in {"parts", "commit"} /\ errand[q].step \in {"parts", "commit"}
            => errand[p].id # errand[q].id

CourseInv ==
    /\ StoreForm
    /\ errand = [p \in Requests |-> errand[p]]
    /\ \A p \in Requests : ErrandForm(errand[p])
    /\ KeysDiffer

-----------------------------------------------------------------------------

PartTables == {"provenance", "asset", "assessment", "module", "lesson", "prerequisite"}

\* The tables that a read of a whole version goes through.
LEMMA WholePlan ==
  ASSUME NEW kind \in WholeKinds
  PROVE  /\ Len(PlanOf(kind)) = 7
         /\ PlanOf(kind)[1] = "version" /\ PlanOf(kind)[2] = "provenance" /\ PlanOf(kind)[3] = "asset"
         /\ PlanOf(kind)[4] = "assessment" /\ PlanOf(kind)[5] = "module" /\ PlanOf(kind)[6] = "lesson"
         /\ PlanOf(kind)[7] = "prerequisite"
<1>1. PlanOf(kind) = <<"version">> \o Parts
  BY DEF PlanOf, WholeKinds
<1> QED BY <1>1 DEF Parts

\* Only the plans that read a version whole ask for the version, and they ask first.
LEMMA Plans ==
  ASSUME NEW kind \in LoadKinds
  PROVE  /\ Len(PlanOf(kind)) \in Nat \ {0}
         /\ \A i \in 1..Len(PlanOf(kind)) :
               /\ PlanOf(kind)[i] \in PartTables \cup {"version"}
               /\ PlanOf(kind)[i] = "version" <=> kind \in WholeKinds /\ i = 1
<1>1. CASE kind \in WholeKinds
  <2>1. \A i \in 1..7 : i = 1 \/ i = 2 \/ i = 3 \/ i = 4 \/ i = 5 \/ i = 6 \/ i = 7
    OBVIOUS
  <2> QED BY <1>1, <2>1, WholePlan DEF PartTables
<1>2. CASE kind \in OutlineKinds
  <2>1. PlanOf(kind) = <<"module", "lesson", "prerequisite">>
    BY <1>2 DEF PlanOf, OutlineKinds, OutlineTables
  <2> QED BY <1>2, <2>1 DEF PartTables, WholeKinds, OutlineKinds
<1>3. CASE kind = "lesson"
  <2>1. PlanOf(kind) = <<"lesson", "module", "prerequisite">>
    BY <1>3 DEF PlanOf, LessonTables
  <2> QED BY <1>3, <2>1 DEF PartTables, WholeKinds
<1> QED BY <1>1, <1>2, <1>3 DEF LoadKinds

\* A slot without a request.
LEMMA NoErrandForm == ErrandForm(NoErrand)
BY ServicesAssumption DEF ErrandForm, NoErrand, ErrandNames, ErrandFields, WriterForm, ReaderForm, Writing

\* The store is empty.
LEMMA CourseInitInv == CourseStoreInit => CourseInv
BY NoErrandForm DEF CourseStoreInit, CourseInv, StoreForm, KeysDiffer, NoErrand, VersionsOf, RowsOf, MappingRow

\* The key that a source is stored under.
LEMMA SourceKeyHolds ==
  ASSUME NEW s \in Sources
  PROVE  /\ CourseOf(s) \in CourseIds
         /\ SourceKey(s).course = CourseOf(s) /\ SourceKey(s).number = NumberOf[s]
BY CourseStoreAssumption DEF CourseOf, CourseIds, SourceKey, KeyOf

\* The row that is made of a source is well formed.
LEMMA VersionRowForm ==
  ASSUME NEW s \in Sources
  PROVE  LET v == VersionRow(SourceKey(s), s) IN
         /\ RowForm(v) /\ v.table = "version" /\ v.id = SourceKey(s) /\ v.source = s
BY DEF VersionRow, NativeVersionRow, ImportedVersionRow, RowForm, CourseTables, Statuses, VersionFields

\* What the statements after the version insert.
LEMMA PartsForm ==
  ASSUME NEW s \in Sources, NEW key, NEW n \in 1..6, NEW r \in RowsToInsert(Parts[n], key, s)
  PROVE  RowForm(r) /\ r.table # "version" /\ r.table # "course" /\ r.table # "mapping"
<1>1. Parts[n] \in {"provenance", "asset", "assessment", "module", "lesson", "prerequisite"}
  BY DEF Parts
<1>2. CASE Parts[n] = "provenance"
  BY <1>2 DEF RowsToInsert, RowForm, CourseTables, ProvenanceRow, ImportProvenanceRow, ReviewProvenanceRow
<1>3. CASE Parts[n] = "asset"
  BY <1>3 DEF RowsToInsert, RowForm, CourseTables, AssetRows
<1>4. CASE Parts[n] = "assessment"
  BY <1>4 DEF RowsToInsert, RowForm, CourseTables, AssessmentRows
<1>5. CASE Parts[n] = "module"
  BY <1>5 DEF RowsToInsert, RowForm, CourseTables, ModuleRows
<1>6. CASE Parts[n] = "lesson"
  BY <1>6 DEF RowsToInsert, RowForm, CourseTables, LessonRows, LessonRow
<1>7. CASE Parts[n] = "prerequisite"
  BY <1>7 DEF RowsToInsert, RowForm, CourseTables, PrerequisiteRows, PrerequisiteRow
<1> QED BY <1>1, <1>2, <1>3, <1>4, <1>5, <1>6, <1>7

-----------------------------------------------------------------------------
\* A step that changes one request and no row.
LEMMA ErrandMoves ==
  ASSUME CourseInv, NEW p \in Requests, NEW c, ErrandForm(c), Advance(p, c), rows' = rows,
         c.step \in {"parts", "commit"} =>
             \A q \in Requests \ {p} : errand[q].step \in {"parts", "commit"} => errand[q].id # c.id
  PROVE  CourseInv'
<1>1. errand' = [q \in Requests |-> IF q = p THEN c ELSE errand[q]]
  BY DEF CourseInv, Advance
<1>2. errand'[p] = c /\ \A q \in Requests \ {p} : errand'[q] = errand[q]
  BY <1>1
<1>3. StoreForm'
  BY DEF CourseInv, StoreForm, VersionsOf, RowsOf, RowForm, VersionFields
<1>4. errand' = [q \in Requests |-> errand'[q]]
  BY <1>1
<1>5. ASSUME NEW q \in Requests PROVE ErrandForm(errand[q])'
  <2>1. ErrandForm(errand'[q])
    BY <1>2 DEF CourseInv
  <2> QED BY <2>1 DEF ErrandForm, ErrandFields, WriterForm, ReaderForm, RowForm, VersionFields, VersionsOf, RowsOf, HasVersion
<1>6. KeysDiffer'
  BY <1>2 DEF CourseInv, KeysDiffer
<1> QED BY <1>3, <1>4, <1>5, <1>6 DEF CourseInv

\* A step that only adds rows, none of a version, and leaves the requests.
LEMMA RowsJoin ==
  ASSUME CourseInv, NEW r, RowForm(r), r.table = "course",
         rows' = rows \cup {r}, errand' = errand
  PROVE  CourseInv'
<1>1. VersionsOf(rows') = VersionsOf(rows)
  BY DEF VersionsOf, RowsOf
<1>2. \A x \in rows' : RowForm(x)
  BY DEF CourseInv, StoreForm
<1>2a. MappingRow("imported") # r
  BY DEF MappingRow
<1>3. StoreForm'
  BY <1>1, <1>2, <1>2a DEF CourseInv, StoreForm
<1>4. ASSUME NEW q \in Requests PROVE ErrandForm(errand[q])'
  <2>1. ErrandForm(errand[q]) /\ errand'[q] = errand[q]
    BY DEF CourseInv
  <2>2. WriterForm(errand[q])'
    BY <2>1, <1>1 DEF ErrandForm, WriterForm, HasVersion
  <2> QED BY <2>1, <2>2 DEF ErrandForm, ErrandFields, ReaderForm
<1> QED BY <1>3, <1>4 DEF CourseInv, KeysDiffer

\* A course comes without versions.
LEMMA CourseCreated ==
  ASSUME CourseInv, NEW c \in CourseIds, CreateCourse(c)
  PROVE  CourseInv'
<1>1. RowForm(CourseRow(c)) /\ CourseRow(c).table = "course"
  BY DEF RowForm, CourseRow, CourseTables
<1> QED BY <1>1, RowsJoin DEF CreateCourse

\* A version changes its status alone.
LEMMA StatusTurns ==
  ASSUME CourseInv, NEW v \in VersionsOf(rows), NEW next \in Statuses,
         TransitionCourseVersionStatus(v, next)
  PROVE  CourseInv'
<1> DEFINE w == [v EXCEPT !.status = next]
<1>1. v \in rows /\ v.table = "version" /\ RowForm(v)
  BY DEF CourseInv, StoreForm, VersionsOf, RowsOf
<1>2. w.table = "version" /\ w.id = v.id /\ w.source = v.source /\ RowForm(w)
  BY <1>1, SMTT(30) DEF RowForm, VersionFields
<1>3. rows' = (rows \ {v}) \cup {w} /\ errand' = errand
  BY DEF TransitionCourseVersionStatus
<1> HIDE DEF w
<1>4. VersionsOf(rows') = (VersionsOf(rows) \ {v}) \cup {w}
  BY <1>1, <1>2, <1>3 DEF VersionsOf, RowsOf
<1>5. \A r \in rows : r.table # "version" => r \in rows'
  BY <1>1, <1>3
<1>5a. \A r \in rows' : r.table # "version" => r \in rows
  BY <1>2, <1>3
<1>6. \A c : CourseRow(c) \in rows => CourseRow(c) \in rows'
  BY <1>5 DEF CourseRow
<1>7. \A k, s : ReviewProvenanceRow(k, s) \in rows => ReviewProvenanceRow(k, s) \in rows'
  BY <1>5 DEF ReviewProvenanceRow
<1>8. MappingRow("imported") \in rows' => MappingRow("imported") \in rows
  BY <1>5a DEF MappingRow
<1>9. StoreForm'
  <2>1. \A r \in rows' : RowForm(r)
    BY <1>2, <1>3 DEF CourseInv, StoreForm
  <2>2. \A a, b \in VersionsOf(rows') : a.id = b.id => a = b
    BY <1>1, <1>2, <1>4 DEF CourseInv, StoreForm
  <2>3. \A a \in VersionsOf(rows') : CourseRow(a.id.course) \in rows'
    BY <1>2, <1>4, <1>6 DEF CourseInv, StoreForm
  <2>4. \A a \in VersionsOf(rows') : a.source \notin Imported => ReviewProvenanceRow(a.id, a.source) \in rows'
    BY <1>2, <1>4, <1>7 DEF CourseInv, StoreForm
  <2>5. MappingRow("imported") \in rows' => CourseRow("imported") \in rows'
    BY <1>6, <1>8 DEF CourseInv, StoreForm
  <2> QED BY <2>1, <2>2, <2>3, <2>4, <2>5 DEF StoreForm
<1>10. \A k : HasVersion(rows', k) => HasVersion(rows, k)
  BY <1>2, <1>4 DEF HasVersion
<1>11. ASSUME NEW q \in Requests PROVE ErrandForm(errand[q])'
  <2>1. ErrandForm(errand[q]) /\ errand'[q] = errand[q]
    BY <1>3 DEF CourseInv
  <2>2. WriterForm(errand[q])'
    BY <2>1, <1>6, <1>10 DEF ErrandForm, WriterForm
  <2> QED BY <2>1, <2>2 DEF ErrandForm, ErrandFields, ReaderForm
<1> QED BY <1>3, <1>9, <1>11 DEF CourseInv, KeysDiffer

-----------------------------------------------------------------------------
\* A request that has not begun to write, nor asked anything as a learner.
LEMMA QuietForm ==
  ASSUME NEW c, ErrandFields(c), c.tx = {}, c.step \in {"idle", "lock", "load", "answered"},
         c.step = "lock" => c.source \in Imported, c.kind \in LearnerKinds => c.id \notin c.hidden,
         c.step = "load" => c.kind \in LoadKinds /\ c.next \in 1..Len(PlanOf(c.kind))
  PROVE  ErrandForm(c)
BY DEF ErrandForm, WriterForm, ReaderForm, Writing

\* A request that ends leaves no transaction.
LEMMA ErrandEnds ==
  ASSUME CourseInv, NEW p \in Requests, EndErrand(p)
  PROVE  CourseInv'
BY NoErrandForm, ErrandMoves DEF EndErrand, NoErrand

\* A publication begins to store what was reviewed.
LEMMA StoreBegins ==
  ASSUME CourseInv, NEW p \in Requests, NEW r \in Sources \ Imported, StoreImmutableCourseVersion(p, r)
  PROVE  CourseInv'
<1> DEFINE c == [NoErrand EXCEPT !.step = "version", !.source = r, !.id = KeyOf(HomeOf[r], NumberOf[r])]
<1>1. /\ c.step = "version" /\ c.source = r /\ c.id = SourceKey(r) /\ c.tx = {} /\ c.next = 1
      /\ ErrandFields(c)
  BY DEF NoErrand, ErrandFields, ErrandNames, SourceKey, CourseOf
<1>2. Advance(p, c) /\ rows' = rows /\ CourseRow(HomeOf[r]) \in rows
  BY DEF StoreImmutableCourseVersion
<1> HIDE DEF c
<1>3. CourseRow(c.id.course) \in rows
  BY <1>1, <1>2, SourceKeyHolds DEF CourseOf
<1>4. ErrandForm(c)
  BY <1>1, <1>3 DEF ErrandForm, WriterForm, ReaderForm, Writing, VersionsOf, RowsOf
<1> QED BY <1>1, <1>2, <1>4, ErrandMoves

\* An import that was done before is answered with what it made.
LEMMA ReplayBegins ==
  ASSUME CourseInv, NEW p \in Requests, NEW k \in Imported, Replay(p, k), rows' = rows
  PROVE  CourseInv'
<1> DEFINE c == [NoErrand EXCEPT !.step = "load", !.kind = "stored", !.source = k,
                                 !.id = KeyOf("imported", NumberOf[k])]
<1>1. c.step = "load" /\ c.kind = "stored" /\ c.next = 1 /\ c.tx = {} /\ ErrandFields(c)
  BY DEF NoErrand, ErrandFields, ErrandNames
<1>2. Advance(p, c)
  BY DEF Replay
<1> HIDE DEF c
<1>3. ErrandForm(c)
  <2>1. c.kind \in LoadKinds /\ c.kind \notin LearnerKinds
    BY <1>1 DEF LoadKinds, WholeKinds, LearnerKinds
  <2>2. c.next \in 1..Len(PlanOf(c.kind))
    BY <1>1, <2>1, Plans
  <2> QED BY <1>1, <2>1, <2>2, QuietForm
<1> QED BY <1>1, <1>2, <1>3, ErrandMoves

\* An import begins.
LEMMA ImportBegins ==
  ASSUME CourseInv, NEW p \in Requests, NEW k \in Imported, BeginImportOf(p, k)
  PROVE  CourseInv'
<1> DEFINE c == [NoErrand EXCEPT !.step = "lock", !.source = k]
<1>1. c.step = "lock" /\ c.kind = None /\ c.source = k /\ c.tx = {} /\ c.id = None /\ c.hidden = {} /\ ErrandFields(c)
  BY DEF NoErrand, ErrandFields, ErrandNames
<1>2. rows' = rows /\ (Replay(p, k) \/ Advance(p, c))
  BY DEF BeginImportOf
<1> HIDE DEF c
<1>3. ErrandForm(c)
  BY <1>1, QuietForm
<1>4. CASE Advance(p, c)
  BY <1>1, <1>2, <1>3, <1>4, ErrandMoves
<1> QED BY <1>2, <1>4, ReplayBegins

\* The course of a transaction is found, made or in the way.
LEMMA CourseResolved ==
  ASSUME CourseInv, NEW p \in Requests, ResolveCourse(p)
  PROVE  CourseInv'
<1> DEFINE k == errand[p].source
           c == [NoErrand EXCEPT !.step = "version", !.source = k, !.id = KeyOf("imported", NumberOf[k]),
                                 !.tx = CourseToFill \cup {RecordOf(k)}]
<1>1. k \in Imported /\ k \in Sources
  BY CourseStoreAssumption DEF ResolveCourse, CourseInv, ErrandForm, WriterForm
<1>2. /\ c.step = "version" /\ c.source = k /\ c.id = SourceKey(k) /\ c.next = 1
      /\ c.tx = CourseToFill \cup {RecordOf(k)} /\ ErrandFields(c)
  BY <1>1 DEF NoErrand, ErrandFields, ErrandNames, SourceKey, CourseOf
<1>3. rows' = rows /\ (Replay(p, k) \/ Advance(p, c))
  BY DEF ResolveCourse
<1>4. \A r \in CourseToFill \cup {RecordOf(k)} : RowForm(r) /\ r.table # "version"
  BY DEF CourseToFill, RecordOf, RowForm, CourseTables, CourseRow, MappingRow
<1>5. /\ CourseRow("imported") \in rows \cup CourseToFill
      /\ MappingRow("imported") \in CourseToFill => CourseRow("imported") \in CourseToFill
  BY DEF CourseToFill, CourseInv, StoreForm
<1>6. MappingRow("imported") # RecordOf(k)
  BY DEF MappingRow, RecordOf
<1>7. c.id.course = "imported"
  BY <1>1, <1>2, SourceKeyHolds DEF CourseOf
<1> HIDE DEF c, k
<1>8. VersionsOf(c.tx) = {}
  BY <1>2, <1>4 DEF VersionsOf, RowsOf
<1>9. ErrandForm(c)
  <2>1. c.id = SourceKey(c.source) /\ c.source \in Sources
    BY <1>1, <1>2
  <2>2. \A r \in c.tx : RowForm(r)
    BY <1>2, <1>4
  <2>3. /\ CourseRow(c.id.course) \in rows \cup c.tx
        /\ MappingRow("imported") \in c.tx => CourseRow("imported") \in c.tx
    BY <1>2, <1>5, <1>6, <1>7
  <2>4. WriterForm(c)
    BY <1>2, <1>8, <2>1, <2>2, <2>3 DEF WriterForm, Writing
  <2> QED BY <1>2, <2>4 DEF ErrandForm, ReaderForm
<1>10. CASE Advance(p, c)
  BY <1>2, <1>3, <1>9, <1>10, ErrandMoves
<1> QED BY <1>1, <1>3, <1>10, ReplayBegins

\* The row of the version, under a key that no other transaction has written.
LEMMA VersionInserted ==
  ASSUME CourseInv, NEW p \in Requests, InsertVersion(p)
  PROVE  CourseInv'
<1> DEFINE c == errand[p]
           v == VersionRow(c.id, c.source)
           d == [c EXCEPT !.step = "parts", !.tx = c.tx \cup {v}]
<1>1. c.step = "version" /\ ErrandForm(c) /\ ErrandFields(c) /\ rows' = rows
  BY DEF InsertVersion, CourseInv, ErrandForm
<1>2. c.source \in Sources /\ c.id = SourceKey(c.source) /\ c.next = 1 /\ VersionsOf(c.tx) = {}
  BY <1>1 DEF ErrandForm, WriterForm, Writing
<1>3. RowForm(v) /\ v.table = "version" /\ v.id = c.id /\ v.source = c.source
  BY <1>2, VersionRowForm
<1>4. /\ d.step = "parts" /\ d.source = c.source /\ d.id = c.id /\ d.next = c.next /\ d.tx = c.tx \cup {v}
      /\ ErrandFields(d)
  BY <1>1 DEF ErrandFields, ErrandNames
<1>5. \/ Advance(p, NoErrand)
      \/ ~HasVersion(rows, c.id) /\ Advance(p, d)
  BY DEF InsertVersion
<1>6. \A q \in Requests : ~HasVersion(errand[q].tx, c.id)
  BY DEF InsertVersion
<1> HIDE DEF d, v
<1>7. VersionsOf(d.tx) = {v}
  BY <1>2, <1>3, <1>4 DEF VersionsOf, RowsOf
<1>8. MappingRow("imported") # v /\ CourseRow("imported") # v
  BY <1>3 DEF MappingRow, CourseRow
<1>9. ~HasVersion(rows, c.id) => ErrandForm(d)
  BY <1>1, <1>2, <1>3, <1>4, <1>7, <1>8 DEF ErrandForm, WriterForm, ReaderForm, Writing, v
<1>10. ASSUME NEW q \in Requests \ {p}, errand[q].step \in {"parts", "commit"} PROVE errand[q].id # d.id
  <2> DEFINE e == errand[q]
             w == VersionRow(e.id, e.source)
  <2>1. e.source \in Sources /\ e.id = SourceKey(e.source) /\ VersionsOf(e.tx) = {w}
    BY <1>10 DEF CourseInv, ErrandForm, WriterForm, Writing
  <2>2. w.id = e.id
    BY <2>1, VersionRowForm
  <2>3. HasVersion(e.tx, e.id)
    BY <2>1, <2>2 DEF HasVersion
  <2> QED BY <1>4, <1>6, <2>3
<1>11. CASE Advance(p, NoErrand)
  BY <1>1, <1>11, NoErrandForm, ErrandMoves DEF NoErrand
<1>12. CASE ~HasVersion(rows, c.id) /\ Advance(p, d)
  BY <1>1, <1>9, <1>10, <1>12, ErrandMoves
<1> QED BY <1>5, <1>11, <1>12

\* The rows that hang on the version.
LEMMA PartsInserted ==
  ASSUME CourseInv, NEW p \in Requests, InsertParts(p)
  PROVE  CourseInv'
<1> DEFINE c == errand[p]
           new == RowsToInsert(Parts[c.next], c.id, c.source)
           next == IF c.next = 6 THEN c.next ELSE c.next + 1
           step == IF c.next = 6 THEN "commit" ELSE c.step
           d == [c EXCEPT !.tx = c.tx \cup new, !.next = next, !.step = step]
<1>0. Len(Parts) = 6
  BY DEF Parts
<1>1. c.step = "parts" /\ ErrandForm(c) /\ ErrandFields(c) /\ rows' = rows /\ Advance(p, d)
  BY <1>0 DEF InsertParts, CourseInv, ErrandForm
<1>2. /\ c.source \in Sources /\ c.id = SourceKey(c.source) /\ c.next \in 1..6
      /\ VersionsOf(c.tx) = {VersionRow(c.id, c.source)} /\ ~HasVersion(rows, c.id)
  BY <1>1 DEF ErrandForm, WriterForm, Writing
<1>3. /\ d.step = step /\ d.source = c.source /\ d.id = c.id /\ d.next = next /\ d.tx = c.tx \cup new
      /\ ErrandFields(d) /\ d.kind = c.kind /\ d.hidden = c.hidden
  BY <1>1 DEF ErrandFields, ErrandNames
<1>4. \A r \in new : RowForm(r) /\ r.table # "version" /\ r.table # "course" /\ r.table # "mapping"
  BY <1>2, PartsForm
<1>5. c.next = 1 => ProvenanceRow(c.id, c.source) \in new
  BY DEF RowsToInsert, Parts
<1>6. next \in 1..6 /\ step \in {"parts", "commit"}
  BY <1>1, <1>2
<1> HIDE DEF d, new, next, step
<1>7. VersionsOf(d.tx) = VersionsOf(c.tx)
  BY <1>3, <1>4 DEF VersionsOf, RowsOf
<1>8. ErrandForm(d)
  <2>1. \A r \in d.tx : RowForm(r)
    BY <1>1, <1>3, <1>4 DEF ErrandForm, WriterForm, Writing
  <2>2. /\ CourseRow(d.id.course) \in rows \cup d.tx
        /\ MappingRow("imported") \in d.tx => CourseRow("imported") \in d.tx
    BY <1>1, <1>3, <1>4 DEF ErrandForm, WriterForm, Writing, MappingRow
  <2>3. ProvenanceRow(d.id, d.source) \in d.tx
    BY <1>1, <1>2, <1>3, <1>5 DEF ErrandForm, WriterForm, Writing
  <2>4. WriterForm(d)
    BY <1>2, <1>3, <1>6, <1>7, <2>1, <2>2, <2>3 DEF WriterForm, Writing
  <2> QED BY <1>3, <1>6, <2>4 DEF ErrandForm, ReaderForm
<1>9. ASSUME NEW q \in Requests \ {p}, errand[q].step \in {"parts", "commit"} PROVE errand[q].id # d.id
  BY <1>1, <1>3, <1>9 DEF CourseInv, KeysDiffer
<1> QED BY <1>1, <1>8, <1>9, ErrandMoves

\* The rows of a transaction come to the store together.
LEMMA VersionCommitted ==
  ASSUME CourseInv, NEW p \in Requests, CommitVersion(p)
  PROVE  CourseInv'
<1> DEFINE c == errand[p]
           v == VersionRow(c.id, c.source)
<1>1. c.step = "commit" /\ ErrandForm(c) /\ rows' = rows \cup c.tx /\ Advance(p, NoErrand)
  BY DEF CommitVersion, CourseInv
<1>2. /\ c.source \in Sources /\ c.id = SourceKey(c.source) /\ ProvenanceRow(c.id, c.source) \in c.tx
      /\ VersionsOf(c.tx) = {v} /\ ~HasVersion(rows, c.id)
      /\ \A r \in c.tx : RowForm(r)
      /\ CourseRow(c.id.course) \in rows \cup c.tx
      /\ MappingRow("imported") \in c.tx => CourseRow("imported") \in c.tx
  BY <1>1 DEF ErrandForm, WriterForm, Writing
<1>3. v.id = c.id /\ v.source = c.source
  BY <1>2, VersionRowForm
<1>4. /\ errand' = [q \in Requests |-> errand'[q]] /\ errand'[p] = NoErrand
      /\ \A q \in Requests \ {p} : errand'[q] = errand[q]
  BY <1>1 DEF Advance, CourseInv
<1>5. VersionsOf(rows') = VersionsOf(rows) \cup {v}
  BY <1>1, <1>2 DEF VersionsOf, RowsOf
<1>5a. ProvenanceRow(v.id, v.source) \in rows' /\ CourseRow(v.id.course) \in rows'
  BY <1>1, <1>2, <1>3
<1> HIDE DEF v
<1>6. StoreForm'
  <2>1. \A r \in rows' : RowForm(r)
    BY <1>1, <1>2 DEF CourseInv, StoreForm
  <2>2. \A a, b \in VersionsOf(rows') : a.id = b.id => a = b
    BY <1>2, <1>3, <1>5 DEF CourseInv, StoreForm, HasVersion
  <2>3. \A a \in VersionsOf(rows') : CourseRow(a.id.course) \in rows'
    BY <1>1, <1>5, <1>5a DEF CourseInv, StoreForm
  <2>4. \A a \in VersionsOf(rows') : a.source \notin Imported => ReviewProvenanceRow(a.id, a.source) \in rows'
    BY <1>1, <1>5, <1>5a DEF CourseInv, StoreForm, ProvenanceRow
  <2>5. MappingRow("imported") \in rows' => CourseRow("imported") \in rows'
    BY <1>1, <1>2 DEF CourseInv, StoreForm
  <2> QED BY <2>1, <2>2, <2>3, <2>4, <2>5 DEF StoreForm
<1>7. \A k : k # c.id /\ HasVersion(rows', k) => HasVersion(rows, k)
  BY <1>3, <1>5 DEF HasVersion
<1>8. ASSUME NEW q \in Requests PROVE ErrandForm(errand[q])'
  <2>1. CASE q = p
    <3>1. ErrandForm(NoErrand)'
      BY ServicesAssumption DEF ErrandForm, NoErrand, ErrandNames, ErrandFields, WriterForm, ReaderForm, Writing
    <3> QED BY <1>4, <2>1, <3>1
  <2>2. CASE q # p
    <3>1. ErrandForm(errand[q]) /\ errand'[q] = errand[q]
      BY <1>4, <2>2 DEF CourseInv
    <3>2. errand[q].step \in {"parts", "commit"} => errand[q].id # c.id
      BY <1>1, <2>2 DEF CourseInv, KeysDiffer
    <3>3. WriterForm(errand[q])'
      BY <1>1, <1>7, <3>1, <3>2 DEF ErrandForm, WriterForm
    <3> QED BY <3>1, <3>3 DEF ErrandForm, ErrandFields, ErrandNames, ReaderForm
  <2> QED BY <2>1, <2>2
<1>9. KeysDiffer'
  BY <1>4 DEF CourseInv, KeysDiffer, NoErrand
<1> QED BY <1>4, <1>6, <1>8, <1>9 DEF CourseInv

-----------------------------------------------------------------------------
\* What is chosen from the versions that are not withdrawn was not withdrawn.
LEMMA ReadBegins ==
  ASSUME CourseInv, NEW p \in Requests, NEW kind \in LoadKinds, NEW chosen, NEW lesson,
         BeginReadOf(p, kind, chosen, lesson),
         kind \in LearnerKinds => \A v \in chosen : v \in VersionsOf(rows) /\ v.status # "WITHDRAWN"
  PROVE  CourseInv'
<1>1. PICK v \in chosen :
          Advance(p, [NoErrand EXCEPT !.step = "load", !.kind = kind, !.id = v.id, !.lesson = lesson,
                      !.version = v, !.hidden = {v.id} \cap Withdrawn])
  BY DEF BeginReadOf
<1> DEFINE c == [NoErrand EXCEPT !.step = "load", !.kind = kind, !.id = v.id, !.lesson = lesson,
                      !.version = v, !.hidden = {v.id} \cap Withdrawn]
<1>2. /\ c.step = "load" /\ c.kind = kind /\ c.id = v.id /\ c.hidden = {v.id} \cap Withdrawn
      /\ c.tx = {} /\ c.next = 1 /\ ErrandFields(c)
  BY DEF NoErrand, ErrandNames, ErrandFields
<1>3. Advance(p, c) /\ rows' = rows
  BY <1>1 DEF BeginReadOf
<1> HIDE DEF c
<1>4. kind \in LearnerKinds => v.id \notin Withdrawn
  BY DEF CourseInv, StoreForm, Withdrawn
<1>5. ErrandForm(c)
  <2>1. c.next \in 1..Len(PlanOf(c.kind))
    BY <1>2, Plans
  <2> QED BY <1>2, <1>4, <2>1, QuietForm
<1> QED BY <1>2, <1>3, <1>5, ErrandMoves

\* An asset is served as one row.
LEMMA AssetAnswered ==
  ASSUME CourseInv, NEW p \in Requests, NEW course, NEW number, PublishedAsset(p, course, number)
  PROVE  CourseInv'
<1>1. PICK v \in PublishedAt(course, number), r \in RowsOf(rows, "asset") :
          Advance(p, [NoErrand EXCEPT !.step = "answered", !.kind = "asset", !.id = v.id,
                                       !.version = v, !.found = {r}, !.hidden = {v.id} \cap Withdrawn])
  BY DEF PublishedAsset
<1> DEFINE c == [NoErrand EXCEPT !.step = "answered", !.kind = "asset", !.id = v.id,
                                       !.version = v, !.found = {r}, !.hidden = {v.id} \cap Withdrawn]
<1>2. /\ c.step = "answered" /\ c.id = v.id /\ c.hidden = {v.id} \cap Withdrawn /\ c.tx = {}
      /\ ErrandFields(c)
  BY DEF NoErrand, ErrandNames, ErrandFields
<1>3. Advance(p, c) /\ rows' = rows
  BY <1>1 DEF PublishedAsset
<1> HIDE DEF c
<1>4. v \in VersionsOf(rows) /\ v.status = "PUBLISHED"
  BY DEF PublishedAt, PublishedOf
<1>5. v.id \notin Withdrawn
  BY <1>4 DEF CourseInv, StoreForm, Withdrawn
<1>6. ErrandForm(c)
  BY <1>2, <1>5, QuietForm
<1> QED BY <1>2, <1>3, <1>6, ErrandMoves

\* A version that is loaded as PUBLISHED, or is not there, is not withdrawn.
LEMMA LoadedIsShown ==
  ASSUME CourseInv, NEW c, c.kind \in {"exact", "latest"},
         NEW any, any = CHOOSE v \in Selected(c, "version") : TRUE, any.status = "PUBLISHED"
  PROVE  c.id \notin Withdrawn
<1>1. Selected(c, "version") = {r \in rows : r.table = "version" /\ r.id = c.id}
  BY DEF Selected, OfVersion, InTable
<1> SUFFICES ASSUME NEW w \in VersionsOf(rows), w.id = c.id PROVE w.status # "WITHDRAWN"
  BY DEF Withdrawn
<1>2. w \in Selected(c, "version")
  BY <1>1 DEF VersionsOf, RowsOf
<1>3. any \in Selected(c, "version")
  BY <1>2
<1>4. any \in VersionsOf(rows) /\ any.id = w.id
  BY <1>1, <1>3 DEF VersionsOf, RowsOf
<1> QED BY <1>4 DEF CourseInv, StoreForm

\* A read goes on to its next table.
LEMMA NextLoaded ==
  ASSUME CourseInv, NEW p \in Requests, LoadNext(p)
  PROVE  CourseInv'
<1> DEFINE c == errand[p]
           plan == PlanOf(c.kind)
           read == Selected(c, plan[c.next])
           any == CHOOSE v \in read : TRUE
           first == [c EXCEPT !.version = any, !.hidden = {c.id} \cap Withdrawn]
           more == [c EXCEPT !.found = c.found \cup read]
           then == IF plan[c.next] = "version" THEN first ELSE more
           last == [then EXCEPT !.step = "answered"]
           on == [then EXCEPT !.next = c.next + 1]
<1>1. c.step = "load" /\ ErrandForm(c) /\ ErrandFields(c) /\ rows' = rows
  BY DEF LoadNext, CourseInv, ErrandForm
<1>2. c.kind \in LoadKinds /\ c.next \in 1..Len(plan) /\ Len(plan) \in Nat
  BY <1>1, Plans DEF ErrandForm, ReaderForm
<1>3. \/ Advance(p, NoErrand)
      \/ ~NotFound(then) /\ Advance(p, last)
      \/ ~NotFound(then) /\ c.next # Len(plan) /\ Advance(p, on)
  BY DEF LoadNext
<1>4. /\ then.kind = c.kind /\ then.id = c.id /\ then.tx = c.tx /\ then.step = c.step /\ then.next = c.next
      /\ ErrandFields(then)
  <2>1. first.kind = c.kind /\ first.id = c.id /\ first.tx = c.tx /\ first.next = c.next
        /\ first.step = c.step /\ ErrandFields(first)
    <3> HIDE DEF any, read
    <3> QED BY <1>1 DEF ErrandFields, ErrandNames
  <2>2. more.kind = c.kind /\ more.id = c.id /\ more.tx = c.tx /\ more.next = c.next
        /\ more.step = c.step /\ ErrandFields(more)
    <3> HIDE DEF any, read
    <3> QED BY <1>1 DEF ErrandFields, ErrandNames
  <2> HIDE DEF first, more
  <2> QED BY <2>1, <2>2
<1>5. ASSUME ~NotFound(then), c.kind \in LearnerKinds PROVE then.id \notin then.hidden
  <2>1. CASE plan[c.next] = "version"
    <3>1. c.kind \in {"exact", "latest"}
      BY <1>2, <1>5, <2>1, Plans DEF WholeKinds, LearnerKinds
    <3>2. first.version = any /\ first.hidden = {c.id} \cap Withdrawn /\ first.id = c.id /\ first.kind = c.kind
      <4> HIDE DEF any
      <4> QED BY <1>1 DEF ErrandFields, ErrandNames
    <3>3. then = first
      BY <2>1
    <3> HIDE DEF any, first, then
    <3>4. any.status = "PUBLISHED"
      BY <1>5, <3>1, <3>2, <3>3 DEF NotFound
    <3>5. any = CHOOSE v \in Selected(c, "version") : TRUE
      BY <2>1 DEF any
    <3>6. c.id \notin Withdrawn
      BY <3>1, <3>4, <3>5, LoadedIsShown
    <3> QED BY <3>2, <3>3, <3>6
  <2>2. CASE plan[c.next] # "version"
    <3>1. more.hidden = c.hidden /\ more.id = c.id
      <4> HIDE DEF read
      <4> QED BY <1>1 DEF ErrandFields, ErrandNames
    <3>2. then = more
      BY <2>2
    <3>3. c.id \notin c.hidden
      BY <1>1, <1>5 DEF ErrandForm, ReaderForm
    <3> HIDE DEF then, more
    <3> QED BY <3>1, <3>2, <3>3
  <2> QED BY <2>1, <2>2
<1> HIDE DEF then
<1>6. /\ last.kind = c.kind /\ last.id = c.id /\ last.hidden = then.hidden /\ last.tx = c.tx
      /\ last.step = "answered" /\ ErrandFields(last)
  BY <1>4 DEF ErrandFields, ErrandNames
<1>7. /\ on.kind = c.kind /\ on.id = c.id /\ on.hidden = then.hidden /\ on.tx = c.tx
      /\ on.step = "load" /\ on.next = c.next + 1 /\ ErrandFields(on)
  BY <1>1, <1>4 DEF ErrandFields, ErrandNames
<1>8. c.tx = {}
  BY <1>1 DEF ErrandForm, WriterForm, Writing
<1> HIDE DEF last, on
<1>9. NoErrand.step = "idle"
  BY DEF NoErrand
<1>10. CASE Advance(p, NoErrand)
  BY <1>1, <1>9, <1>10, NoErrandForm, ErrandMoves
<1>11. CASE ~NotFound(then) /\ Advance(p, last)
  <2>1. ErrandForm(last)
    BY <1>4, <1>5, <1>6, <1>8, <1>11, QuietForm
  <2> QED BY <1>1, <1>6, <1>11, <2>1, ErrandMoves
<1>12. CASE ~NotFound(then) /\ c.next # Len(plan) /\ Advance(p, on)
  <2>1. on.kind \in LoadKinds /\ on.next \in 1..Len(PlanOf(on.kind))
    BY <1>2, <1>7, <1>12
  <2>2. ErrandForm(on)
    BY <1>4, <1>5, <1>7, <1>8, <1>12, <2>1, QuietForm
  <2> QED BY <1>1, <1>7, <1>12, <2>2, ErrandMoves
<1> QED BY <1>3, <1>10, <1>11, <1>12

\* One step of every operation of the course store.
LEMMA CourseNextInv == CourseInv /\ [CourseStoreNext]_courseVars => CourseInv'
<1> SUFFICES ASSUME CourseInv, [CourseStoreNext]_courseVars PROVE CourseInv'
  OBVIOUS
<1>0. {"exact", "latest", "preferred", "explicit", "lesson", "stored"} \subseteq LoadKinds
  BY DEF LoadKinds, WholeKinds, OutlineKinds
<1>1. ASSUME NEW c \in CourseIds, CreateCourse(c) PROVE CourseInv'
  BY <1>1, CourseCreated
<1>2. ASSUME NEW v \in VersionsOf(rows), NEW next \in Statuses, TransitionCourseVersionStatus(v, next)
      PROVE  CourseInv'
  BY <1>2, StatusTurns
<1>3. ASSUME NEW p \in Requests, NEW r \in Sources \ Imported, StoreImmutableCourseVersion(p, r)
      PROVE  CourseInv'
  BY <1>3, StoreBegins
<1>4. ASSUME NEW p \in Requests, NEW r \in Sources \ Imported, GetByReviewID(p, r)
      PROVE  CourseInv'
  <2>1. "stored" \notin LearnerKinds
    BY DEF LearnerKinds
  <2> QED BY <1>0, <1>4, <2>1, ReadBegins DEF GetByReviewID
<1>5. ASSUME NEW p \in Requests, NEW k \in Imported, BeginImportOf(p, k) PROVE CourseInv'
  BY <1>5, ImportBegins
<1>6. ASSUME NEW p \in Requests, NEW c \in CourseIds, Latest(p, c) PROVE CourseInv'
  <2>1. \A v \in LatestPublishedVersion(rows, c) : v \in VersionsOf(rows) /\ v.status # "WITHDRAWN"
    BY DEF LatestPublishedVersion, PublishedOf
  <2> QED BY <1>0, <1>6, <2>1, ReadBegins DEF Latest
<1>7. ASSUME NEW p \in Requests, NEW c \in CourseIds, Preferred(p, c) PROVE CourseInv'
  <2>1. \A v \in PreferredVersion(rows, c) : v \in VersionsOf(rows) /\ v.status # "WITHDRAWN"
    BY DEF PreferredVersion, PublishedOf
  <2> QED BY <1>0, <1>7, <2>1, ReadBegins DEF Preferred
<1>8. ASSUME NEW p \in Requests, NEW c, NEW n, Exact(p, c, n) PROVE CourseInv'
  <2>1. \A v \in PublishedAt(c, n) : v \in VersionsOf(rows) /\ v.status # "WITHDRAWN"
    BY DEF PublishedAt, PublishedOf
  <2> QED BY <1>0, <1>8, <2>1, ReadBegins DEF Exact
<1>9. \A c, n : \A v \in ExplicitVersion(c, n) : v \in VersionsOf(rows) /\ v.status # "WITHDRAWN"
  BY DEF ExplicitVersion, VersionAt, Servable
<1>10. ASSUME NEW p \in Requests, NEW c, NEW n, Explicit(p, c, n) PROVE CourseInv'
  BY <1>0, <1>9, <1>10, ReadBegins DEF Explicit
<1>11. ASSUME NEW p \in Requests, NEW c, NEW n, NEW lesson, Lesson(p, c, n, lesson) PROVE CourseInv'
  BY <1>0, <1>9, <1>11, ReadBegins DEF Lesson
<1>12. ASSUME NEW p \in Requests, NEW c, NEW n, PublishedAsset(p, c, n) PROVE CourseInv'
  BY <1>12, AssetAnswered
<1>13. CASE UNCHANGED courseVars
  BY <1>13 DEF courseVars, CourseInv, StoreForm, RowForm, VersionFields, VersionsOf, RowsOf, HasVersion,
      ErrandForm, ErrandFields, ErrandNames, WriterForm, ReaderForm, KeysDiffer, Writing
<1>14. CASE CourseStoreNext
  BY <1>1, <1>2, <1>3, <1>4, <1>5, <1>6, <1>7, <1>8, <1>10, <1>11, <1>12, <1>14, CourseResolved, VersionInserted,
     PartsInserted, VersionCommitted, NextLoaded, ErrandEnds DEF CourseStoreNext
<1> QED BY <1>13, <1>14

\* The invariant, along every behaviour.
LEMMA CourseInvHolds == CourseStoreSpec => []CourseInv
BY CourseInitInv, CourseNextInv, PTL DEF CourseStoreSpec

\* Every behaviour of the course store keeps the types of its tables.
THEOREM CourseStoreTypeCorrect == CourseStoreSpec => []CourseStoreTypeOK
<1>1. CourseInv => CourseStoreTypeOK
  <2> SUFFICES ASSUME CourseInv PROVE CourseStoreTypeOK
    OBVIOUS
  <2>1. ASSUME NEW v \in VersionsOf(rows) PROVE v.status \in Statuses /\ v.id.course \in CourseIds
    BY SourceKeyHolds DEF CourseInv, StoreForm, RowForm, VersionsOf, RowsOf
  <2> QED BY <2>1 DEF CourseInv, StoreForm, RowForm, CourseTables, ErrandForm, CourseStoreTypeOK
<1> QED BY <1>1, CourseInvHolds, PTL

\* A version that was withdrawn before a request looks at its status for the last time is in
\* none of its answers, although the request finds the version first and loads it after.
THEOREM WithdrawnIsHidden == CourseStoreSpec => []WithdrawnStaysHidden
<1>1. CourseInv => WithdrawnStaysHidden
  BY DEF CourseInv, ErrandForm, ReaderForm, WithdrawnStaysHidden
<1> QED BY <1>1, CourseInvHolds, PTL

\* Of the published versions of a course, no two have one number.
LEMMA NumbersDiffer ==
  ASSUME CourseInv, NEW c, NEW v \in PublishedOf(rows, c), NEW w \in PublishedOf(rows, c), v # w
  PROVE  v.id.number # w.id.number
<1>1. v.id = SourceKey(v.source) /\ w.id = SourceKey(w.source) /\ v.id # w.id
  BY DEF CourseInv, StoreForm, PublishedOf, VersionsOf, RowsOf, RowForm
<1>2. v.id.course = c /\ w.id.course = c
  BY DEF PublishedOf
<1> QED BY <1>1, <1>2 DEF SourceKey, KeyOf

\* The paths that choose a version for the learner, in SQL and in Go, choose the same one.
THEOREM SelectionsAlwaysAgree == CourseStoreSpec => []SelectionsAgree
<1>1. CourseInv => SelectionsAgree
  <2> SUFFICES ASSUME CourseInv, NEW c \in CourseIds
               PROVE  LET latest == LatestPublishedVersion(rows, c)
                      IN  /\ latest = PreferredVersion(rows, c)
                          /\ latest = {v \in Discovered(rows) : v.id.course = c}
                          /\ c # "imported" => latest = {v \in LatestOfCatalog(rows) : v.id.course = c}
    BY DEF SelectionsAgree
  <2>1. LatestPublishedVersion(rows, c) = PreferredVersion(rows, c)
    <3>1. ASSUME NEW v \in PublishedOf(rows, c), NEW w \in PublishedOf(rows, c)
          PROVE  Compare(w.id.number, v.id.number) <= 0 <=> w = v \/ MajorMinorPatch(w.id.number, v.id.number)
      <4>1. CASE w = v
        BY <4>1 DEF Compare
      <4>2. CASE w # v /\ MajorMinorPatch(w.id.number, v.id.number)
        BY <4>2, NumbersDiffer DEF Compare
      <4>3. CASE w # v /\ ~MajorMinorPatch(w.id.number, v.id.number)
        BY <4>3, NumbersDiffer DEF Compare
      <4> QED BY <4>1, <4>2, <4>3
    <3> QED BY <3>1 DEF LatestPublishedVersion, PreferredVersion
  <2>2. PreferredVersion(rows, c) = {v \in Discovered(rows) : v.id.course = c}
    <3>1. ASSUME NEW v \in PreferredVersion(rows, c) PROVE v.id.course = c /\ v \in Discovered(rows)
      <4>1. v \in VersionsOf(rows) /\ v.id.course = c
        BY DEF PreferredVersion, PublishedOf
      <4>2. CourseRow(c) \in rows
        BY <4>1 DEF CourseInv, StoreForm
      <4>3. c \in ListedCourses(rows)
        BY <4>2 DEF ListedCourses, RowsOf, CourseRow
      <4> QED BY <4>1, <4>3 DEF Discovered
    <3>2. ASSUME NEW v \in Discovered(rows), v.id.course = c PROVE v \in PreferredVersion(rows, c)
      <4>1. PICK d \in ListedCourses(rows) : v \in PreferredVersion(rows, d)
        BY DEF Discovered
      <4>2. v.id.course = d
        BY <4>1 DEF PreferredVersion, PublishedOf
      <4> QED BY <3>2, <4>1, <4>2
    <3> QED BY <3>1, <3>2
  <2>3. c # "imported" => LatestPublishedVersion(rows, c) = {v \in LatestOfCatalog(rows) : v.id.course = c}
    <3> SUFFICES ASSUME c # "imported"
                 PROVE  LatestPublishedVersion(rows, c) = {v \in LatestOfCatalog(rows) : v.id.course = c}
      OBVIOUS
    <3> DEFINE joined == {v \in VersionsOf(rows) :
                              /\ v.status = "PUBLISHED"
                              /\ \E r \in RowsOf(rows, "publication_provenance") : r.id = v.id}
    <3>1. ASSUME NEW v \in PublishedOf(rows, c) PROVE v \in joined
      <4>1. v \in VersionsOf(rows) /\ v.id.course = c /\ v.status = "PUBLISHED"
        BY DEF PublishedOf
      <4>2. v.source \in Sources /\ v.id = SourceKey(v.source)
        BY <4>1 DEF CourseInv, StoreForm, RowForm, VersionsOf, RowsOf
      <4>3. v.source \notin Imported
        BY <4>1, <4>2, SourceKeyHolds DEF CourseOf
      <4>4. ReviewProvenanceRow(v.id, v.source) \in rows
        BY <4>1, <4>3 DEF CourseInv, StoreForm
      <4>5. ReviewProvenanceRow(v.id, v.source) \in RowsOf(rows, "publication_provenance")
            /\ ReviewProvenanceRow(v.id, v.source).id = v.id
        BY <4>4 DEF ReviewProvenanceRow, RowsOf
      <4> QED BY <4>1, <4>5
    <3>2. \A v : v \in PublishedOf(rows, c) <=> v \in joined /\ v.id.course = c
      BY <3>1 DEF PublishedOf
    <3>3. LatestOfCatalog(rows) =
              {v \in joined : \A w \in joined \ {v} :
                  w.id.course = v.id.course => MajorMinorPatch(w.id.number, v.id.number)}
      BY DEF LatestOfCatalog
    <3> HIDE DEF joined
    <3> QED BY <3>2, <3>3 DEF LatestPublishedVersion
  <2> QED BY <2>1, <2>2, <2>3
<1> QED BY <1>1, CourseInvHolds, PTL

-----------------------------------------------------------------------------
(***************************************************************************)
(* Reads of whole versions                                                 *)
(*                                                                         *)
(* All rows that hang on a version come to the store with it, and stay.    *)
(* A transaction holds the rows of the inserts that it has done; a reader  *)
(* has found all rows of the tables that it has been through.  What is     *)
(* left is that these rows make the tree that they came from.              *)
(***************************************************************************)

-----------------------------------------------------------------------------

\* The rows of a list, in the place that each names.
LEMMA CardOfList ==
  ASSUME NEW n \in Nat, NEW R, \A i, j \in 1..n : R[i] = R[j] => i = j
  PROVE  Cardinality({R[i] : i \in 1..n}) = n
<1> DEFINE S == {R[i] : i \in 1..n}
           f == [i \in 1..n |-> R[i]]
<1>1. f \in Surjection(1..n, S) /\ f \in Injection(1..n, S)
  BY DEF Injection, Surjection, IsInjective
<1>2. IsFiniteSet(1..n) /\ Cardinality(1..n) = n
  BY FS_Interval
<1> HIDE DEF S, f
<1>3. Cardinality(S) = n
  BY <1>1, <1>2, FS_Surjection
<1> QED BY <1>3 DEF S

\* Rows that name their places 0, 1, 2 ... are listed in those places.
LEMMA InOrderLists ==
  ASSUME NEW n \in Nat, NEW R, \A i \in 1..n : R[i].position = i - 1
  PROVE  InOrder({R[i] : i \in 1..n}) = [i \in 1..n |-> R[i]]
<1> DEFINE S == {R[i] : i \in 1..n}
           before(r) == {s \in S : s.position < r.position}
<1>1. \A i, j \in 1..n : R[i] = R[j] => i = j
  OBVIOUS
<1>2. Cardinality(S) = n
  BY <1>1, CardOfList
<1>3. ASSUME NEW i \in 1..n PROVE Cardinality(before(R[i])) = i - 1
  <2> DEFINE m == i - 1
  <2>1. before(R[i]) = {R[j] : j \in 1..m}
    OBVIOUS
  <2>2. m \in Nat /\ \A j, k \in 1..m : R[j] = R[k] => j = k
    BY <1>1
  <2> HIDE DEF before, m
  <2>3. Cardinality(before(R[i])) = m
    BY <2>1, <2>2, CardOfList
  <2> QED BY <2>3 DEF m
<1>4. ASSUME NEW i \in 1..n PROVE (CHOOSE r \in S : Cardinality(before(r)) = i - 1) = R[i]
  <2>1. R[i] \in S /\ Cardinality(before(R[i])) = i - 1
    BY <1>3
  <2>2. ASSUME NEW r \in S, Cardinality(before(r)) = i - 1 PROVE r = R[i]
    <3>1. PICK k \in 1..n : r = R[k]
      OBVIOUS
    <3>2. k - 1 = i - 1
      BY <1>3, <2>2, <3>1
    <3> QED BY <3>1, <3>2
  <2> HIDE DEF before, S
  <2> QED BY <2>1, <2>2
<1>5. InOrder(S) = [i \in 1..n |-> CHOOSE r \in S : Cardinality(before(r)) = i - 1]
  BY <1>2 DEF InOrder
<1> HIDE DEF S, before
<1>6. InOrder(S) = [i \in 1..n |-> R[i]]
  BY <1>4, <1>5
<1> QED BY <1>6 DEF S

-----------------------------------------------------------------------------
\* The rows that belong to a version.
IsPart(r) == r.table \in {"asset", "assessment", "publication_provenance", "import_provenance",
                          "module", "lesson", "prerequisite"}

OfKey(db, table, key) == {r \in db : InTable(r, table) /\ r.id = key}

\* All that its source holds has been inserted for each version that is there, and nothing else.
StoreWhole ==
    /\ \A r \in rows : IsPart(r) => HasVersion(rows, r.id)
    /\ \A v \in VersionsOf(rows), n \in 1..6 :
          OfKey(rows, Parts[n], v.id) = RowsToInsert(Parts[n], v.id, v.source)
    /\ \A k \in Imported : RecordOf(k) \in rows => HasVersion(rows, SourceKey(k))

Inserted(c, n) ==
    IF n < c.next \/ c.step = "commit" THEN RowsToInsert(Parts[n], c.id, c.source) ELSE {}

WriterWhole(c) ==
    /\ c.step \in Writing =>
          /\ \A r \in c.tx : IsPart(r) => r.id = c.id
          /\ \A k \in Imported : RecordOf(k) \in c.tx => k = c.source
    /\ c.step = "version" => \A r \in c.tx : ~IsPart(r)
    /\ c.step = "commit" => c.next = 6
    /\ c.step \in {"parts", "commit"} => \A n \in 1..6 : OfKey(c.tx, Parts[n], c.id) = Inserted(c, n)

\* What a reader selects, told from the source of its version.
HeldBy(c, table) == RowsToInsert(table, c.id, c.version.source)

LessonHeld(c) == {r \in HeldBy(c, "lesson") : r.key = c.lesson}

HeldOfLesson(c, table) ==
    CASE table = "lesson"       -> LessonHeld(c)
      [] table = "module"       -> {r \in HeldBy(c, "module") : \E l \in LessonHeld(c) : l.module = r.key}
      [] table = "prerequisite" -> {r \in HeldBy(c, "prerequisite") : r.lesson = c.lesson}

ToSelect(c, table) == IF c.kind = "lesson" THEN HeldOfLesson(c, table) ELSE HeldBy(c, table)

\* The statements of a reader that have been answered.
Answered(c) ==
    LET plan == PlanOf(c.kind)
    IN  {i \in 1..Len(plan) : plan[i] # "version" /\ (c.step = "answered" \/ i < c.next)}

FoundSoFar(c) == c.found = UNION {ToSelect(c, PlanOf(c.kind)[i]) : i \in Answered(c)}

ReaderFound(c) ==
    c.step \in {"load", "answered"} =>
        /\ c.kind \notin LoadKinds => c.kind = "asset" /\ c.step = "answered"
        /\ c.kind = "asset" => c.found \subseteq HeldBy(c, "asset")
        /\ c.kind \in LoadKinds => FoundSoFar(c)
        /\ c.step = "load" => c.next \in 1..Len(PlanOf(c.kind))
        /\ (c.kind = "lesson" /\ (c.step = "answered" \/ c.next > 1)) => LessonHeld(c) # {}

\* The version that a reader has found stays, under its key.
ReaderVersion(c) ==
    c.step \in {"load", "answered"} =>
        /\ HasVersion(rows, c.id)
        /\ c.kind # "stored" \/ c.step = "answered" \/ c.next > 1 =>
              \E v \in VersionsOf(rows) : v.id = c.id /\ v.source = c.version.source

ReaderWhole(c) == ReaderVersion(c) /\ ReaderFound(c)

WholeInv ==
    /\ StoreWhole
    /\ \A p \in Requests : WriterWhole(errand[p]) /\ ReaderWhole(errand[p])

-----------------------------------------------------------------------------

\* The six inserts of a version.
LEMMA PartNames == 
    /\ Len(Parts) = 6 /\ \A n \in 1..6 : Parts[n] \in {"provenance", "asset", "assessment", "module", "lesson", "prerequisite"}
    /\ Parts[1] = "provenance" /\ Parts[2] = "asset" /\ Parts[3] = "assessment"
    /\ Parts[4] = "module" /\ Parts[5] = "lesson" /\ Parts[6] = "prerequisite"
BY DEF Parts

\* What an insert writes is in its table, under the key of the version.
LEMMA InsertedTables ==
  ASSUME NEW s, NEW key, NEW r,
         NEW t \in {"provenance", "asset", "assessment", "module", "lesson", "prerequisite"}, r \in RowsToInsert(t, key, s)
  PROVE  IsPart(r) /\ r.id = key /\ InTable(r, t)
<1>2. CASE t = "provenance"
  BY <1>2 DEF RowsToInsert, IsPart, InTable, ProvenanceRow, ImportProvenanceRow, ReviewProvenanceRow
<1>3. CASE t = "asset"
  BY <1>3 DEF RowsToInsert, IsPart, InTable, AssetRows
<1>4. CASE t = "assessment"
  BY <1>4 DEF RowsToInsert, IsPart, InTable, AssessmentRows
<1>5. CASE t = "module"
  BY <1>5 DEF RowsToInsert, IsPart, InTable, ModuleRows
<1>6. CASE t = "lesson"
  BY <1>6 DEF RowsToInsert, IsPart, InTable, LessonRows, LessonRow
<1>7. CASE t = "prerequisite"
  BY <1>7 DEF RowsToInsert, IsPart, InTable, PrerequisiteRows, PrerequisiteRow
<1> QED BY <1>2, <1>3, <1>4, <1>5, <1>6, <1>7

\* The inserts write to tables of their own.
LEMMA TablesDiffer ==
  ASSUME NEW r, NEW m \in 1..6, NEW n \in 1..6, InTable(r, Parts[m]), InTable(r, Parts[n])
  PROVE  m = n
BY PartNames DEF InTable

\* What is in one of these tables is a part of a version.
LEMMA InPartTable ==
  ASSUME NEW r, NEW n \in 1..6, InTable(r, Parts[n])
  PROVE  IsPart(r)
BY PartNames DEF InTable, IsPart

-----------------------------------------------------------------------------

\* A slot without a request.
LEMMA NoErrandWhole == WriterWhole(NoErrand) /\ ReaderWhole(NoErrand)
BY DEF WriterWhole, ReaderWhole, ReaderVersion, ReaderFound, NoErrand, Writing

\* The store is empty.
LEMMA WholeInit == CourseStoreInit => WholeInv
BY NoErrandWhole DEF CourseStoreInit, WholeInv, StoreWhole, VersionsOf, RowsOf

\* A step that changes one request and no row.
LEMMA WholeMoves ==
  ASSUME CourseInv, WholeInv, NEW p \in Requests, NEW c, WriterWhole(c), ReaderWhole(c),
         Advance(p, c), rows' = rows
  PROVE  WholeInv'
<1>1. errand' = [q \in Requests |-> IF q = p THEN c ELSE errand[q]]
  BY DEF CourseInv, Advance
<1>2. errand'[p] = c /\ \A q \in Requests \ {p} : errand'[q] = errand[q]
  BY <1>1
<1>3. StoreWhole'
  BY DEF WholeInv, StoreWhole, VersionsOf, RowsOf, OfKey, InTable, HasVersion, IsPart
<1>4. ASSUME NEW q \in Requests PROVE WriterWhole(errand[q])' /\ ReaderWhole(errand[q])'
  <2>1. WriterWhole(errand'[q]) /\ ReaderWhole(errand'[q])
    BY <1>2 DEF WholeInv
  <2>2. WriterWhole(errand[q])'
    BY <2>1 DEF WriterWhole, Writing, IsPart, OfKey, InTable, Inserted
  <2>3. ReaderWhole(errand[q])'
    BY <2>1 DEF ReaderWhole, ReaderVersion, ReaderFound, FoundSoFar, VersionsOf, RowsOf, HasVersion, HeldBy, ToSelect, HeldOfLesson, LessonHeld, Answered
  <2> QED BY <2>2, <2>3
<1> QED BY <1>3, <1>4 DEF WholeInv

\* A row of a course is a part of no version.
LEMMA RowsJoinWhole ==
  ASSUME WholeInv, NEW r, r.table = "course", rows' = rows \cup {r}, errand' = errand
  PROVE  WholeInv'
<1>1. VersionsOf(rows') = VersionsOf(rows)
  BY DEF VersionsOf, RowsOf
<1>2. \A k : HasVersion(rows', k) <=> HasVersion(rows, k)
  BY <1>1 DEF HasVersion
<1>3. ASSUME NEW n \in 1..6, NEW k PROVE OfKey(rows', Parts[n], k) = OfKey(rows, Parts[n], k)
  <2>1. ~InTable(r, Parts[n])
    BY InPartTable DEF IsPart
  <2> QED BY <2>1 DEF OfKey
<1>4. \A k : RecordOf(k) \in rows' => RecordOf(k) \in rows
  BY DEF RecordOf
<1>5. \A x \in rows' : IsPart(x) => x \in rows
  BY DEF IsPart
<1>6. StoreWhole'
  BY <1>1, <1>2, <1>3, <1>4, <1>5 DEF WholeInv, StoreWhole, IsPart
<1>7. ASSUME NEW q \in Requests PROVE WriterWhole(errand[q])' /\ ReaderWhole(errand[q])'
  <2>1. WriterWhole(errand[q]) /\ ReaderWhole(errand[q]) /\ errand'[q] = errand[q]
    BY DEF WholeInv
  <2>2. WriterWhole(errand[q])'
    BY <2>1 DEF WriterWhole, Writing, IsPart, OfKey, InTable, Inserted
  <2>3. ReaderVersion(errand[q])'
    BY <1>1, <1>2, <2>1 DEF ReaderWhole, ReaderVersion
  <2>4. ReaderFound(errand[q])'
    <3>1. ReaderFound(errand'[q])
      BY <2>1 DEF ReaderWhole
    <3> QED BY <3>1 DEF ReaderFound, FoundSoFar, HeldBy, ToSelect, HeldOfLesson, LessonHeld, Answered
  <2> QED BY <2>2, <2>3, <2>4 DEF ReaderWhole
<1> QED BY <1>6, <1>7 DEF WholeInv

\* A version that changes its status keeps its parts.
LEMMA StatusTurnsWhole ==
  ASSUME CourseInv, WholeInv, NEW v \in VersionsOf(rows), NEW next \in Statuses,
         TransitionCourseVersionStatus(v, next)
  PROVE  WholeInv'
<1> DEFINE w == [v EXCEPT !.status = next]
<1>1. v \in rows /\ v.table = "version" /\ RowForm(v)
  BY DEF CourseInv, StoreForm, VersionsOf, RowsOf
<1>2. w.table = "version" /\ w.id = v.id /\ w.source = v.source
  BY <1>1, SMTT(30) DEF RowForm, VersionFields
<1>3. rows' = (rows \ {v}) \cup {w} /\ errand' = errand
  BY DEF TransitionCourseVersionStatus
<1> HIDE DEF w
<1>4. VersionsOf(rows') = (VersionsOf(rows) \ {v}) \cup {w}
  BY <1>1, <1>2, <1>3 DEF VersionsOf, RowsOf
<1>5. \A r : r.table # "version" => (r \in rows' <=> r \in rows)
  BY <1>1, <1>2, <1>3
<1>6. \A k : HasVersion(rows', k) <=> HasVersion(rows, k)
  BY <1>2, <1>4 DEF HasVersion
<1>7. ASSUME NEW n \in 1..6, NEW k PROVE OfKey(rows', Parts[n], k) = OfKey(rows, Parts[n], k)
  <2>1. \A r : InTable(r, Parts[n]) => r.table # "version"
    BY InPartTable DEF IsPart
  <2> QED BY <1>5, <2>1 DEF OfKey
<1>8. \A k : RecordOf(k) \in rows' => RecordOf(k) \in rows
  BY <1>5 DEF RecordOf
<1>9. \A x \in rows' : IsPart(x) => x \in rows
  BY <1>5 DEF IsPart
<1>10. \A x \in VersionsOf(rows') : \E y \in VersionsOf(rows) : y.id = x.id /\ y.source = x.source
  BY <1>2, <1>4
<1>11. \A x \in VersionsOf(rows) : \E y \in VersionsOf(rows') : y.id = x.id /\ y.source = x.source
  BY <1>2, <1>4
<1>12. StoreWhole'
  <2>1. \A r \in rows' : IsPart(r) => HasVersion(rows', r.id)
    BY <1>6, <1>9 DEF WholeInv, StoreWhole
  <2>2. ASSUME NEW x \in VersionsOf(rows'), NEW n \in 1..6
        PROVE  OfKey(rows', Parts[n], x.id) = RowsToInsert(Parts[n], x.id, x.source)
    BY <1>7, <1>10 DEF WholeInv, StoreWhole
  <2>3. \A k \in Imported : RecordOf(k) \in rows' => HasVersion(rows', SourceKey(k))
    BY <1>6, <1>8 DEF WholeInv, StoreWhole
  <2> QED BY <2>1, <2>2, <2>3 DEF StoreWhole, IsPart
<1>13. ASSUME NEW q \in Requests PROVE WriterWhole(errand[q])' /\ ReaderWhole(errand[q])'
  <2>1. WriterWhole(errand[q]) /\ ReaderWhole(errand[q]) /\ errand'[q] = errand[q]
    BY <1>3 DEF WholeInv
  <2>2. WriterWhole(errand[q])'
    BY <2>1 DEF WriterWhole, Writing, IsPart, OfKey, InTable, Inserted
  <2>3. ReaderVersion(errand[q])'
    BY <1>6, <1>11, <2>1 DEF ReaderWhole, ReaderVersion
  <2>4. ReaderFound(errand[q])'
    <3>1. ReaderFound(errand'[q])
      BY <2>1 DEF ReaderWhole
    <3> QED BY <3>1 DEF ReaderFound, FoundSoFar, HeldBy, ToSelect, HeldOfLesson, LessonHeld, Answered
  <2> QED BY <2>2, <2>3, <2>4 DEF ReaderWhole
<1> QED BY <1>12, <1>13 DEF WholeInv

-----------------------------------------------------------------------------

\* An import that was done before.
LEMMA ReplayWhole ==
  ASSUME CourseInv, WholeInv, NEW p \in Requests, NEW k \in Imported, Replay(p, k), rows' = rows
  PROVE  WholeInv'
<1> DEFINE c == [NoErrand EXCEPT !.step = "load", !.kind = "stored", !.source = k,
                                 !.id = KeyOf("imported", NumberOf[k])]
<1>1. /\ c.step = "load" /\ c.kind = "stored" /\ c.tx = {} /\ c.id = SourceKey(k) /\ c.version = None
      /\ c.next = 1 /\ c.found = {}
  BY DEF NoErrand, SourceKey, CourseOf
<1>2. Advance(p, c) /\ RecordOf(k) \in rows
  BY DEF Replay
<1> HIDE DEF c
<1>3. WriterWhole(c)
  BY <1>1 DEF WriterWhole, Writing
<1>4. HasVersion(rows, c.id)
  BY <1>1, <1>2 DEF WholeInv, StoreWhole
<1>5. PlanOf("stored") = <<"version">> \o Parts
  BY DEF PlanOf
<1>6. Len(PlanOf("stored")) = 7
  BY <1>5 DEF Parts
<1>6a. PlanOf("stored")[1] = "version"
  BY <1>5 DEF Parts
<1>7. Answered(c) = {}
  BY <1>1, <1>6a DEF Answered
<1>8. FoundSoFar(c)
  BY <1>1, <1>7 DEF FoundSoFar
<1>8a. ReaderFound(c)
  <2>1. c.kind \in LoadKinds /\ c.kind # "asset" /\ c.kind # "lesson"
    BY <1>1 DEF LoadKinds, WholeKinds
  <2>2. c.next \in 1..Len(PlanOf(c.kind))
    <3>1. Len(PlanOf(c.kind)) = 7 /\ c.next = 1
      BY <1>1, <1>6
    <3> QED BY <3>1
  <2> QED BY <1>1, <1>8, <2>1, <2>2 DEF ReaderFound
<1>9. ReaderVersion(c)
  BY <1>1, <1>4 DEF ReaderVersion
<1> QED BY <1>2, <1>3, <1>8a, <1>9, WholeMoves DEF ReaderWhole

\* A course that is found or made.
LEMMA ResolvedWhole ==
  ASSUME CourseInv, WholeInv, NEW p \in Requests, ResolveCourse(p)
  PROVE  WholeInv'
<1> DEFINE k == errand[p].source
           c == [NoErrand EXCEPT !.step = "version", !.source = k, !.id = KeyOf("imported", NumberOf[k]),
                                 !.tx = CourseToFill \cup {RecordOf(k)}]
<1>1. k \in Imported
  BY DEF ResolveCourse, CourseInv, ErrandForm, WriterForm
<1>2. c.step = "version" /\ c.source = k /\ c.tx = CourseToFill \cup {RecordOf(k)}
  BY DEF NoErrand
<1>3. rows' = rows /\ (Replay(p, k) \/ Advance(p, c))
  BY DEF ResolveCourse
<1> HIDE DEF c, k
<1>4. \A r \in c.tx : ~IsPart(r)
  BY <1>2 DEF CourseToFill, RecordOf, CourseRow, MappingRow, IsPart
<1>5. \A m : RecordOf(m) \in c.tx => m = k
  BY <1>2 DEF CourseToFill, RecordOf, CourseRow, MappingRow
<1>6. WriterWhole(c) /\ ReaderWhole(c)
  BY <1>2, <1>4, <1>5 DEF WriterWhole, ReaderWhole, ReaderVersion, ReaderFound
<1>7. CASE Advance(p, c)
  BY <1>3, <1>6, <1>7, WholeMoves
<1> QED BY <1>1, <1>3, <1>7, ReplayWhole

\* A version that no parts hang on yet.
LEMMA InsertedWhole ==
  ASSUME CourseInv, WholeInv, NEW p \in Requests, InsertVersion(p)
  PROVE  WholeInv'
<1> DEFINE c == errand[p]
           v == VersionRow(c.id, c.source)
           d == [c EXCEPT !.step = "parts", !.tx = c.tx \cup {v}]
<1>1. c.step = "version" /\ ErrandForm(c) /\ ErrandFields(c) /\ rows' = rows /\ WriterWhole(c)
  BY DEF InsertVersion, CourseInv, ErrandForm, WholeInv
<1>2. c.source \in Sources /\ c.id = SourceKey(c.source) /\ c.next = 1
  BY <1>1 DEF ErrandForm, WriterForm, Writing
<1>3. v.table = "version"
  BY <1>2, VersionRowForm
<1>4. d.step = "parts" /\ d.source = c.source /\ d.id = c.id /\ d.next = 1 /\ d.tx = c.tx \cup {v}
  BY <1>1, <1>2 DEF ErrandFields, ErrandNames
<1>5. Advance(p, NoErrand) \/ Advance(p, d)
  BY DEF InsertVersion
<1> HIDE DEF d, v
<1>6. \A r \in d.tx : ~IsPart(r)
  BY <1>1, <1>3, <1>4 DEF WriterWhole, IsPart
<1>7. \A m \in Imported : RecordOf(m) \in d.tx => m = d.source
  BY <1>1, <1>3, <1>4 DEF WriterWhole, Writing, RecordOf
<1>8. ASSUME NEW n \in 1..6 PROVE OfKey(d.tx, Parts[n], d.id) = {} /\ Inserted(d, n) = {}
  BY <1>4, <1>6, InPartTable DEF OfKey, Inserted
<1>9. WriterWhole(d) /\ ReaderWhole(d)
  BY <1>4, <1>6, <1>7, <1>8 DEF WriterWhole, ReaderWhole, ReaderVersion, ReaderFound
<1>10. CASE Advance(p, NoErrand)
  BY <1>1, <1>10, NoErrandWhole, WholeMoves
<1>11. CASE Advance(p, d)
  BY <1>1, <1>9, <1>11, WholeMoves
<1> QED BY <1>5, <1>10, <1>11

\* The next of the six inserts.
LEMMA PartsWhole ==
  ASSUME CourseInv, WholeInv, NEW p \in Requests, InsertParts(p)
  PROVE  WholeInv'
<1> DEFINE c == errand[p]
           new == RowsToInsert(Parts[c.next], c.id, c.source)
           next == IF c.next = 6 THEN c.next ELSE c.next + 1
           step == IF c.next = 6 THEN "commit" ELSE c.step
           d == [c EXCEPT !.tx = c.tx \cup new, !.next = next, !.step = step]
<1>0. Len(Parts) = 6
  BY DEF Parts
<1>1. c.step = "parts" /\ ErrandForm(c) /\ ErrandFields(c) /\ rows' = rows /\ Advance(p, d) /\ WriterWhole(c)
  BY <1>0 DEF InsertParts, CourseInv, ErrandForm, WholeInv
<1>2. c.next \in 1..6
  BY <1>1 DEF ErrandForm, WriterForm, Writing
<1>3. d.step = step /\ d.source = c.source /\ d.id = c.id /\ d.next = next /\ d.tx = c.tx \cup new
  BY <1>1 DEF ErrandFields, ErrandNames
<1>4. \A r \in new : IsPart(r) /\ r.id = c.id /\ InTable(r, Parts[c.next])
  BY <1>2, PartNames, InsertedTables
<1>6. /\ step \in {"parts", "commit"} /\ (step = "commit" => next = 6)
      /\ \A n \in 1..6 : n < next \/ step = "commit" <=> n < c.next \/ n = c.next
  BY <1>1, <1>2
<1>6a. \A n \in 1..6 : n < c.next => n # c.next
  BY <1>2
<1> HIDE DEF d, next, step
<1>7. \A m \in Imported : RecordOf(m) \in d.tx => m = d.source
  <2>1. \A m : RecordOf(m) \notin new
    BY <1>4 DEF IsPart, RecordOf
  <2> QED BY <1>1, <1>3, <2>1 DEF WriterWhole, Writing
<1>8. ASSUME NEW n \in 1..6 PROVE OfKey(d.tx, Parts[n], d.id) = Inserted(d, n)
  <2>1. OfKey(c.tx, Parts[n], c.id) = IF n < c.next THEN RowsToInsert(Parts[n], c.id, c.source) ELSE {}
    BY <1>1 DEF WriterWhole, Inserted
  <2>2. \A r \in new : InTable(r, Parts[n]) <=> n = c.next
    BY <1>2, <1>4, TablesDiffer
  <2>3. OfKey(new, Parts[n], c.id) = IF n = c.next THEN new ELSE {}
    BY <1>4, <2>2 DEF OfKey
  <2>4. OfKey(d.tx, Parts[n], d.id) = OfKey(c.tx, Parts[n], c.id) \cup OfKey(new, Parts[n], c.id)
    BY <1>3 DEF OfKey
  <2>5. Inserted(d, n) = IF n < c.next \/ n = c.next THEN RowsToInsert(Parts[n], c.id, c.source) ELSE {}
    BY <1>3, <1>6 DEF Inserted
  <2>6. CASE n = c.next
    BY <1>6a, <2>1, <2>3, <2>4, <2>5, <2>6
  <2>7. CASE n # c.next
    BY <2>1, <2>3, <2>4, <2>5, <2>7
  <2> QED BY <2>6, <2>7
<1>9. \A r \in d.tx : IsPart(r) => r.id = d.id
  BY <1>1, <1>3, <1>4 DEF WriterWhole, Writing
<1>10. WriterWhole(d) /\ ReaderWhole(d)
  BY <1>3, <1>6, <1>7, <1>8, <1>9 DEF WriterWhole, ReaderWhole, ReaderVersion, ReaderFound
<1> QED BY <1>1, <1>10, WholeMoves

\* A version comes to the store with all of its parts, or not at all.
LEMMA CommittedWhole ==
  ASSUME CourseInv, WholeInv, NEW p \in Requests, CommitVersion(p)
  PROVE  WholeInv'
<1> DEFINE c == errand[p]
           v == VersionRow(c.id, c.source)
<1>1. c.step = "commit" /\ ErrandForm(c) /\ rows' = rows \cup c.tx /\ Advance(p, NoErrand) /\ WriterWhole(c)
  BY DEF CommitVersion, CourseInv, WholeInv
<1>2. /\ c.source \in Sources /\ c.id = SourceKey(c.source)
      /\ VersionsOf(c.tx) = {v} /\ ~HasVersion(rows, c.id)
  BY <1>1 DEF ErrandForm, WriterForm, Writing
<1>3. v.id = c.id /\ v.source = c.source
  BY <1>2, VersionRowForm
<1>4. /\ errand' = [q \in Requests |-> errand'[q]] /\ errand'[p] = NoErrand
      /\ \A q \in Requests \ {p} : errand'[q] = errand[q]
  BY <1>1 DEF Advance, CourseInv
<1>5. VersionsOf(rows') = VersionsOf(rows) \cup {v}
  BY <1>1, <1>2 DEF VersionsOf, RowsOf
<1> HIDE DEF v
<1>6. \A k : HasVersion(rows', k) <=> HasVersion(rows, k) \/ k = c.id
  BY <1>3, <1>5 DEF HasVersion
<1>7. StoreWhole'
  <2>1. \A r \in rows' : IsPart(r) => HasVersion(rows', r.id)
    BY <1>1, <1>6 DEF WholeInv, StoreWhole, WriterWhole, Writing
  <2>2. ASSUME NEW x \in VersionsOf(rows'), NEW n \in 1..6
        PROVE  OfKey(rows', Parts[n], x.id) = RowsToInsert(Parts[n], x.id, x.source)
    <3>1. OfKey(rows', Parts[n], x.id) = OfKey(rows, Parts[n], x.id) \cup OfKey(c.tx, Parts[n], x.id)
      BY <1>1 DEF OfKey
    <3>2. CASE x = v
      <4>1. OfKey(rows, Parts[n], x.id) = {}
        BY <1>2, <1>3, <3>2, InPartTable DEF OfKey, WholeInv, StoreWhole
      <4>2. OfKey(c.tx, Parts[n], x.id) = RowsToInsert(Parts[n], x.id, x.source)
        BY <1>1, <1>3, <3>2 DEF WriterWhole, Inserted
      <4> QED BY <3>1, <4>1, <4>2
    <3>3. CASE x \in VersionsOf(rows)
      <4>1. x.id # c.id
        BY <1>2, <3>3 DEF HasVersion
      <4>2. OfKey(c.tx, Parts[n], x.id) = {}
        BY <1>1, <4>1, InPartTable DEF OfKey, WriterWhole, Writing
      <4>3. OfKey(rows, Parts[n], x.id) = RowsToInsert(Parts[n], x.id, x.source)
        BY <3>3 DEF WholeInv, StoreWhole
      <4> QED BY <3>1, <4>2, <4>3
    <3> QED BY <1>5, <3>2, <3>3
  <2>3. \A k \in Imported : RecordOf(k) \in rows' => HasVersion(rows', SourceKey(k))
    BY <1>1, <1>2, <1>6 DEF WholeInv, StoreWhole, WriterWhole, Writing
  <2> QED BY <2>1, <2>2, <2>3 DEF StoreWhole, IsPart
<1>8. ASSUME NEW q \in Requests PROVE WriterWhole(errand[q])' /\ ReaderWhole(errand[q])'
  <2>0. CASE q = p
    BY <1>4, <2>0 DEF WriterWhole, ReaderWhole, ReaderVersion, ReaderFound, NoErrand, Writing
  <2>a. CASE q # p
    <3>1. WriterWhole(errand[q]) /\ ReaderWhole(errand[q]) /\ errand'[q] = errand[q]
      BY <1>4, <2>a DEF WholeInv
    <3>2. WriterWhole(errand[q])'
      BY <3>1 DEF WriterWhole, Writing, IsPart, OfKey, InTable, Inserted
    <3>3. ReaderVersion(errand[q])'
      BY <1>5, <1>6, <3>1 DEF ReaderWhole, ReaderVersion
    <3>4. ReaderFound(errand[q])'
      <4>1. ReaderFound(errand'[q])
        BY <3>1 DEF ReaderWhole
      <4> QED BY <4>1 DEF ReaderFound, FoundSoFar, HeldBy, ToSelect, HeldOfLesson, LessonHeld, Answered
    <3> QED BY <3>2, <3>3, <3>4 DEF ReaderWhole
  <2> QED BY <2>0, <2>a
<1> QED BY <1>7, <1>8 DEF WholeInv

-----------------------------------------------------------------------------
\* The tables that a read of one lesson goes through.
LEMMA LessonPlan == PlanOf("lesson") = <<"lesson", "module", "prerequisite">>
BY DEF PlanOf, LessonTables

\* A read begins with a version that is there, and therefore with all of its parts.
LEMMA ReadWholeBegins ==
  ASSUME CourseInv, WholeInv, NEW p \in Requests, NEW kind \in LoadKinds, NEW chosen \in SUBSET VersionsOf(rows),
         NEW lesson, BeginReadOf(p, kind, chosen, lesson)
  PROVE  WholeInv'
<1>1. PICK v \in chosen :
          Advance(p, [NoErrand EXCEPT !.step = "load", !.kind = kind, !.id = v.id, !.lesson = lesson,
                      !.version = v, !.hidden = {v.id} \cap Withdrawn])
  BY DEF BeginReadOf
<1> DEFINE c == [NoErrand EXCEPT !.step = "load", !.kind = kind, !.id = v.id, !.lesson = lesson,
                      !.version = v, !.hidden = {v.id} \cap Withdrawn]
<1>2. /\ c.step = "load" /\ c.kind = kind /\ c.id = v.id /\ c.version = v /\ c.tx = {} /\ c.next = 1
      /\ c.found = {}
  BY DEF NoErrand
<1>3. Advance(p, c) /\ rows' = rows
  BY <1>1 DEF BeginReadOf
<1> HIDE DEF c
<1>4. WriterWhole(c)
  BY <1>2 DEF WriterWhole, Writing
<1>5. ReaderVersion(c)
  BY <1>2 DEF ReaderVersion, HasVersion
<1>6. Answered(c) = {}
  BY <1>2, Plans DEF Answered
<1>7. ReaderFound(c)
  <2>1. c.next \in 1..Len(PlanOf(c.kind))
    BY <1>2, Plans
  <2>2. kind # "asset"
    BY DEF LoadKinds, WholeKinds, OutlineKinds
  <2>3. FoundSoFar(c)
    BY <1>2, <1>6 DEF FoundSoFar
  <2> QED BY <1>2, <2>1, <2>2, <2>3 DEF ReaderFound
<1> QED BY <1>3, <1>4, <1>5, <1>7, WholeMoves DEF ReaderWhole

\* An asset is served as one row.
LEMMA AssetWhole ==
  ASSUME CourseInv, WholeInv, NEW p \in Requests, NEW course, NEW number, PublishedAsset(p, course, number)
  PROVE  WholeInv'
<1>1. PICK v \in PublishedAt(course, number), r \in RowsOf(rows, "asset") :
          /\ r.id = v.id
          /\ Advance(p, [NoErrand EXCEPT !.step = "answered", !.kind = "asset", !.id = v.id,
                                       !.version = v, !.found = {r}, !.hidden = {v.id} \cap Withdrawn])
  BY DEF PublishedAsset
<1> DEFINE c == [NoErrand EXCEPT !.step = "answered", !.kind = "asset", !.id = v.id,
                                       !.version = v, !.found = {r}, !.hidden = {v.id} \cap Withdrawn]
<1>2. c.step = "answered" /\ c.kind = "asset" /\ c.id = v.id /\ c.version = v /\ c.found = {r} /\ c.tx = {}
  BY DEF NoErrand
<1>3. Advance(p, c) /\ rows' = rows
  BY <1>1 DEF PublishedAsset
<1> HIDE DEF c
<1>4. v \in VersionsOf(rows)
  BY DEF PublishedAt, PublishedOf
<1>5. r \in OfKey(rows, Parts[2], v.id)
  BY <1>1, PartNames DEF OfKey, RowsOf, InTable
<1>6. r \in RowsToInsert("asset", v.id, v.source)
  BY <1>4, <1>5, PartNames DEF WholeInv, StoreWhole
<1>7. ReaderVersion(c)
  BY <1>2, <1>4 DEF ReaderVersion, HasVersion
<1>8. ReaderFound(c)
  BY <1>2, <1>6 DEF ReaderFound, HeldBy, LoadKinds, WholeKinds, OutlineKinds
<1>9. WriterWhole(c)
  BY <1>2 DEF WriterWhole, Writing
<1> QED BY <1>3, <1>7, <1>8, <1>9, WholeMoves DEF ReaderWhole

\* What the next statement selects is what the source holds there.
LEMMA SelectsHeld ==
  ASSUME WholeInv, NEW c, ReaderWhole(c), c.step = "load", c.kind \in LoadKinds,
         PlanOf(c.kind)[c.next] # "version"
  PROVE  Selected(c, PlanOf(c.kind)[c.next]) = ToSelect(c, PlanOf(c.kind)[c.next])
<1> DEFINE n == c.next
           t == PlanOf(c.kind)[n]
<1>1. n \in 1..Len(PlanOf(c.kind))
  BY DEF ReaderWhole, ReaderFound
<1>2. t \in PartTables
  BY <1>1, Plans
<1>3. c.kind # "stored" \/ n > 1
  BY <1>1, Plans DEF WholeKinds
<1>4. PICK v \in VersionsOf(rows) : v.id = c.id /\ v.source = c.version.source
  BY <1>3 DEF ReaderWhole, ReaderVersion
<1>5. ASSUME NEW table \in PartTables PROVE OfVersion(c, table) = HeldBy(c, table)
  <2>1. PICK m \in 1..6 : Parts[m] = table
    BY PartNames DEF PartTables
  <2>2. OfKey(rows, Parts[m], v.id) = RowsToInsert(Parts[m], v.id, v.source)
    BY <1>4 DEF WholeInv, StoreWhole
  <2> QED BY <1>4, <2>1, <2>2 DEF OfVersion, OfKey, HeldBy
<1>6. CASE c.kind # "lesson"
  BY <1>2, <1>5, <1>6 DEF Selected, ToSelect
<1>7. CASE c.kind = "lesson"
  <2>0. PlanOf(c.kind) = <<"lesson", "module", "prerequisite">>
    BY <1>7, LessonPlan
  <2>1. CASE n = 1
    <3>1. t = "lesson"
      BY <2>0, <2>1
    <3>2. LessonByKey(c) = LessonHeld(c)
      BY <1>5 DEF LessonByKey, LessonHeld, PartTables
    <3> QED BY <1>7, <3>1, <3>2 DEF Selected, ToSelect, HeldOfLesson
  <2>2. CASE n = 2
    <3>1. t = "module"
      BY <2>0, <2>2
    <3>2. Answered(c) = {1}
      BY <2>0, <2>2 DEF Answered
    <3>3. c.found = UNION {ToSelect(c, PlanOf(c.kind)[i]) : i \in Answered(c)}
      BY DEF ReaderWhole, ReaderFound, FoundSoFar
    <3>4. c.found = ToSelect(c, PlanOf(c.kind)[1])
      BY <3>2, <3>3
    <3>5. c.found = LessonHeld(c)
      BY <1>7, <2>0, <3>4 DEF ToSelect, HeldOfLesson
    <3>6. OfVersion(c, "module") = HeldBy(c, "module")
      BY <1>5 DEF PartTables
    <3> QED BY <1>7, <3>1, <3>5, <3>6 DEF Selected, ModuleOfLesson, ToSelect, HeldOfLesson
  <2>3. CASE n = 3
    <3>1. t = "prerequisite"
      BY <2>0, <2>3
    <3>2. OfVersion(c, "prerequisite") = HeldBy(c, "prerequisite")
      BY <1>5 DEF PartTables
    <3> QED BY <1>7, <3>1, <3>2 DEF Selected, PrerequisitesOfLesson, ToSelect, HeldOfLesson
  <2> QED BY <1>1, <2>0, <2>1, <2>2, <2>3
<1> QED BY <1>6, <1>7

\* The first statement of a reader that asks for the version again.
LEMMA VersionReadAgain ==
  ASSUME CourseInv, WholeInv, NEW p \in Requests, LoadNext(p),
         PlanOf(errand[p].kind)[errand[p].next] = "version"
  PROVE  WholeInv'
<1> DEFINE c == errand[p]
           plan == PlanOf(c.kind)
           read == Selected(c, plan[c.next])
           any == CHOOSE v \in read : TRUE
           then == [c EXCEPT !.version = any, !.hidden = {c.id} \cap Withdrawn]
           last == [then EXCEPT !.step = "answered"]
           on == [then EXCEPT !.next = c.next + 1]
<1>1. c.step = "load" /\ ErrandForm(c) /\ ErrandFields(c) /\ rows' = rows /\ ReaderWhole(c)
  BY DEF LoadNext, CourseInv, ErrandForm, WholeInv
<1>2. c.kind \in LoadKinds /\ c.next \in 1..Len(plan)
  BY <1>1 DEF ReaderWhole, ReaderFound
<1>3. c.kind \in WholeKinds /\ c.next = 1
  BY <1>2, Plans
<1>4. plan[1] = "version" /\ Len(plan) = 7
  BY <1>3, WholePlan
<1>5. Len(plan) = 7
  BY <1>4
<1>6. then = IF plan[c.next] = "version"
             THEN [c EXCEPT !.version = CHOOSE v \in read : TRUE, !.hidden = {c.id} \cap Withdrawn]
             ELSE [c EXCEPT !.found = c.found \cup read]
  OBVIOUS
<1>7. Advance(p, NoErrand) \/ Advance(p, on)
  BY <1>3, <1>5 DEF LoadNext
<1>8. c.kind # "lesson"
  BY <1>3 DEF WholeKinds
<1>9. read = {r \in rows : r.table = "version" /\ r.id = c.id}
  BY <1>8 DEF Selected, OfVersion, InTable
<1>10. any \in VersionsOf(rows) /\ any.id = c.id
  <2>1. \E r \in read : TRUE
    BY <1>1, <1>9 DEF ReaderWhole, ReaderVersion, HasVersion, VersionsOf, RowsOf
  <2>2. any \in read
    BY <2>1
  <2> QED BY <1>9, <2>2 DEF VersionsOf, RowsOf
<1>11. HasVersion(rows, c.id)
  BY <1>1 DEF ReaderWhole, ReaderVersion
<1>12. c.found = {}
  <2>1. Answered(c) = {}
    BY <1>1, <1>3, <1>4 DEF Answered
  <2> QED BY <1>1, <1>2, <2>1 DEF ReaderWhole, ReaderFound, FoundSoFar
<1> HIDE DEF any, read, plan
<1>13. /\ on.step = "load" /\ on.kind = c.kind /\ on.id = c.id /\ on.version = any /\ on.next = 2
       /\ on.found = {} /\ on.tx = c.tx
  BY <1>1, <1>3, <1>12 DEF ErrandFields, ErrandNames
<1> HIDE DEF on
<1>14. WriterWhole(on)
  BY <1>13 DEF WriterWhole, Writing
<1>15. ReaderVersion(on)
  BY <1>10, <1>11, <1>13 DEF ReaderVersion
<1>16. Answered(on) = {}
  BY <1>4, <1>13 DEF Answered, plan
<1>17. ReaderFound(on)
  <2>1. on.next \in 1..Len(PlanOf(on.kind))
    BY <1>5, <1>13 DEF plan
  <2>2. on.kind # "asset" /\ on.kind # "lesson"
    BY <1>3, <1>13 DEF WholeKinds
  <2>3. FoundSoFar(on)
    BY <1>13, <1>16 DEF FoundSoFar
  <2> QED BY <1>2, <1>13, <2>1, <2>2, <2>3 DEF ReaderFound
<1>18. CASE Advance(p, on)
  BY <1>1, <1>14, <1>15, <1>17, <1>18, WholeMoves DEF ReaderWhole
<1>19. CASE Advance(p, NoErrand)
  BY <1>1, <1>19, NoErrandWhole, WholeMoves
<1> QED BY <1>7, <1>18, <1>19

\* Any other statement of a reader.
LEMMA TableRead ==
  ASSUME CourseInv, WholeInv, NEW p \in Requests, LoadNext(p),
         PlanOf(errand[p].kind)[errand[p].next] # "version"
  PROVE  WholeInv'
<1> DEFINE c == errand[p]
           n == c.next
           plan == PlanOf(c.kind)
           read == Selected(c, plan[n])
           then == [c EXCEPT !.found = c.found \cup read]
           last == [then EXCEPT !.step = "answered"]
           on == [then EXCEPT !.next = n + 1]
<1>1. c.step = "load" /\ ErrandForm(c) /\ ErrandFields(c) /\ rows' = rows /\ ReaderWhole(c)
  BY DEF LoadNext, CourseInv, ErrandForm, WholeInv
<1>2. c.kind \in LoadKinds /\ n \in 1..Len(plan) /\ Len(plan) \in Nat
  BY <1>1, Plans DEF ReaderWhole, ReaderFound
<1>3. then = IF plan[n] = "version" THEN [c EXCEPT !.version = CHOOSE v \in read : TRUE]
             ELSE [c EXCEPT !.found = c.found \cup read]
  OBVIOUS
<1>4. \/ Advance(p, NoErrand)
      \/ ~NotFound(then) /\ n = Len(plan) /\ Advance(p, last)
      \/ ~NotFound(then) /\ n # Len(plan) /\ Advance(p, on)
  BY <1>3 DEF LoadNext
<1>5. read = ToSelect(c, plan[n])
  BY <1>1, <1>2, SelectsHeld
<1>6. \E v \in VersionsOf(rows) : v.id = c.id /\ v.source = c.version.source
  <2>1. c.kind # "stored" \/ n > 1
    BY <1>2, Plans DEF WholeKinds
  <2> QED BY <1>1, <2>1 DEF ReaderWhole, ReaderVersion
<1>7. HasVersion(rows, c.id)
  BY <1>1 DEF ReaderWhole, ReaderVersion
<1>8. c.found = UNION {ToSelect(c, plan[i]) : i \in Answered(c)}
  BY <1>1, <1>2 DEF ReaderWhole, ReaderFound, FoundSoFar
<1>9. c.kind = "lesson" /\ ~NotFound(then) => LessonHeld(c) # {}
  <2> SUFFICES ASSUME c.kind = "lesson", ~NotFound(then) PROVE LessonHeld(c) # {}
    OBVIOUS
  <2>1. CASE n > 1
    BY <1>1, <2>1 DEF ReaderWhole, ReaderFound
  <2>2. CASE n = 1
    <3>1. Answered(c) = {} /\ plan[1] = "lesson"
      BY <1>1, <2>2, LessonPlan DEF Answered
    <3>2. read = LessonHeld(c) /\ c.found = {}
      BY <1>5, <1>8, <2>2, <3>1 DEF ToSelect, HeldOfLesson
    <3> HIDE DEF read, plan
    <3>3. then.found = LessonHeld(c) /\ then.kind = "lesson"
      BY <1>1, <3>2 DEF ErrandFields, ErrandNames
    <3>4. RowsOf(then.found, "lesson") # {}
      BY <3>3 DEF NotFound
    <3> QED BY <3>3, <3>4 DEF RowsOf
  <2> QED BY <1>2, <2>1, <2>2
<1> HIDE DEF read
<1>10. /\ then.step = c.step /\ then.kind = c.kind /\ then.id = c.id /\ then.version = c.version /\ then.next = n
       /\ then.found = c.found \cup read /\ then.tx = c.tx /\ then.lesson = c.lesson /\ ErrandFields(then)
  BY <1>1 DEF ErrandFields, ErrandNames
<1> HIDE DEF then, plan, n
<1>11. /\ last.step = "answered" /\ last.kind = c.kind /\ last.id = c.id /\ last.version = c.version
       /\ last.found = c.found \cup read /\ last.tx = c.tx /\ last.lesson = c.lesson
  BY <1>10 DEF ErrandFields, ErrandNames
<1>12. /\ on.step = "load" /\ on.kind = c.kind /\ on.id = c.id /\ on.version = c.version /\ on.next = n + 1
       /\ on.found = c.found \cup read /\ on.tx = c.tx /\ on.lesson = c.lesson
  BY <1>1, <1>10 DEF ErrandFields, ErrandNames
<1> HIDE DEF last, on
<1>13. ASSUME NEW d, d.kind = c.kind, d.id = c.id, d.version = c.version, d.lesson = c.lesson,
              d.found = c.found \cup read, d.tx = c.tx,
              \/ d.step = "answered" /\ n = Len(plan)
              \/ d.step = "load" /\ d.next = n + 1 /\ n # Len(plan),
              ~NotFound(then)
       PROVE  WriterWhole(d) /\ ReaderWhole(d)
  <2>1. WriterWhole(d)
    BY <1>13 DEF WriterWhole, Writing
  <2>2. ReaderVersion(d)
    BY <1>6, <1>7, <1>13 DEF ReaderVersion
  <2>3. Answered(d) = Answered(c) \cup {n}
    <3>1. ASSUME NEW i \in 1..Len(plan) PROVE (d.step = "answered" \/ i < d.next) <=> (c.step = "answered" \/ i < n) \/ i = n
      BY <1>1, <1>2, <1>13, <3>1
    <3>2. plan[n] # "version" /\ PlanOf(d.kind) = plan
      BY <1>13 DEF plan, n
    <3>3. Answered(c) = {i \in 1..Len(plan) : plan[i] # "version" /\ (c.step = "answered" \/ i < n)}
      BY DEF Answered, plan, n
    <3>4. Answered(d) = {i \in 1..Len(plan) : plan[i] # "version" /\ (d.step = "answered" \/ i < d.next)}
      BY <3>2 DEF Answered
    <3> QED BY <1>2, <3>1, <3>2, <3>3, <3>4
  <2>4. \A t : ToSelect(d, t) = ToSelect(c, t)
    BY <1>13 DEF ToSelect, HeldBy, HeldOfLesson, LessonHeld
  <2>5. FoundSoFar(d)
    <3>1. d.found = UNION {ToSelect(d, PlanOf(d.kind)[i]) : i \in Answered(d)}
      BY <1>5, <1>8, <1>13, <2>3, <2>4 DEF plan
    <3> QED BY <3>1 DEF FoundSoFar
  <2>6. LessonHeld(d) = LessonHeld(c)
    BY <1>13 DEF LessonHeld, HeldBy
  <2>7. d.step = "load" => d.next \in 1..Len(PlanOf(d.kind))
    BY <1>2, <1>13 DEF plan
  <2>8. d.kind # "asset"
    BY <1>2, <1>13 DEF LoadKinds, WholeKinds, OutlineKinds
  <2>9. d.kind = "lesson" => LessonHeld(d) # {}
    BY <1>9, <1>13, <2>6
  <2>10. d.kind \in LoadKinds
    BY <1>2, <1>13
  <2>11. ReaderFound(d)
    BY <2>5, <2>7, <2>8, <2>9, <2>10 DEF ReaderFound
  <2> QED BY <2>1, <2>2, <2>11 DEF ReaderWhole
<1>14. CASE Advance(p, NoErrand)
  BY <1>1, <1>14, NoErrandWhole, WholeMoves
<1>15. CASE ~NotFound(then) /\ n = Len(plan) /\ Advance(p, last)
  BY <1>1, <1>11, <1>13, <1>15, WholeMoves
<1>16. CASE ~NotFound(then) /\ n # Len(plan) /\ Advance(p, on)
  BY <1>1, <1>12, <1>13, <1>16, WholeMoves
<1> QED BY <1>4, <1>14, <1>15, <1>16

\* One step of every operation of the course store.
LEMMA WholeNext == CourseInv /\ WholeInv /\ [CourseStoreNext]_courseVars => WholeInv'
<1> SUFFICES ASSUME CourseInv, WholeInv, [CourseStoreNext]_courseVars PROVE WholeInv'
  OBVIOUS
<1>1. ASSUME NEW c \in CourseIds, CreateCourse(c) PROVE WholeInv'
  <2>1. CourseRow(c).table = "course"
    BY DEF CourseRow
  <2> QED BY <1>1, <2>1, RowsJoinWhole DEF CreateCourse
<1>2. ASSUME NEW v \in VersionsOf(rows), NEW next \in Statuses, TransitionCourseVersionStatus(v, next)
      PROVE  WholeInv'
  BY <1>2, StatusTurnsWhole
<1>3. ASSUME NEW p \in Requests, NEW r \in Sources \ Imported, StoreImmutableCourseVersion(p, r)
      PROVE  WholeInv'
  <2> DEFINE c == [NoErrand EXCEPT !.step = "version", !.source = r, !.id = KeyOf(HomeOf[r], NumberOf[r])]
  <2>1. c.step = "version" /\ c.tx = {}
    BY DEF NoErrand
  <2>2. Advance(p, c) /\ rows' = rows
    BY <1>3 DEF StoreImmutableCourseVersion
  <2> HIDE DEF c
  <2>3. WriterWhole(c) /\ ReaderWhole(c)
    BY <2>1 DEF WriterWhole, ReaderWhole, ReaderVersion, ReaderFound
  <2> QED BY <2>2, <2>3, WholeMoves
<1>4. \A r : {v \in VersionsOf(rows) : ReviewProvenanceRow(v.id, r) \in rows} \in SUBSET VersionsOf(rows)
  OBVIOUS
<1>5. "stored" \in LoadKinds /\ "latest" \in LoadKinds /\ "preferred" \in LoadKinds /\ "exact" \in LoadKinds
      /\ "explicit" \in LoadKinds /\ "lesson" \in LoadKinds
  BY DEF LoadKinds, WholeKinds, OutlineKinds
<1>6. ASSUME NEW p \in Requests, NEW r \in Sources \ Imported, GetByReviewID(p, r) PROVE WholeInv'
  BY <1>4, <1>5, <1>6, ReadWholeBegins DEF GetByReviewID
<1>7. ASSUME NEW p \in Requests, NEW k \in Imported, BeginImportOf(p, k) PROVE WholeInv'
  <2> DEFINE c == [NoErrand EXCEPT !.step = "lock", !.source = k]
  <2>1. c.step = "lock"
    BY DEF NoErrand
  <2>2. rows' = rows /\ (Replay(p, k) \/ Advance(p, c))
    BY <1>7 DEF BeginImportOf
  <2> HIDE DEF c
  <2>3. WriterWhole(c) /\ ReaderWhole(c)
    BY <2>1 DEF WriterWhole, ReaderWhole, ReaderVersion, ReaderFound, Writing
  <2>4. CASE Advance(p, c)
    BY <2>2, <2>3, <2>4, WholeMoves
  <2> QED BY <2>2, <2>4, ReplayWhole
<1>8. ASSUME NEW p \in Requests, NEW c \in CourseIds, Latest(p, c) PROVE WholeInv'
  <2>1. LatestPublishedVersion(rows, c) \in SUBSET VersionsOf(rows)
    BY DEF LatestPublishedVersion, PublishedOf
  <2> QED BY <1>5, <1>8, <2>1, ReadWholeBegins DEF Latest
<1>9. ASSUME NEW p \in Requests, NEW c \in CourseIds, Preferred(p, c) PROVE WholeInv'
  <2>1. PreferredVersion(rows, c) \in SUBSET VersionsOf(rows)
    BY DEF PreferredVersion, PublishedOf
  <2> QED BY <1>5, <1>9, <2>1, ReadWholeBegins DEF Preferred
<1>10. ASSUME NEW p \in Requests, NEW c, NEW n, Exact(p, c, n) PROVE WholeInv'
  <2>1. PublishedAt(c, n) \in SUBSET VersionsOf(rows)
    BY DEF PublishedAt, PublishedOf
  <2> QED BY <1>5, <1>10, <2>1, ReadWholeBegins DEF Exact
<1>11. \A c, n : ExplicitVersion(c, n) \in SUBSET VersionsOf(rows)
  BY DEF ExplicitVersion, VersionAt
<1>12. ASSUME NEW p \in Requests, NEW c, NEW n, Explicit(p, c, n) PROVE WholeInv'
  BY <1>5, <1>11, <1>12, ReadWholeBegins DEF Explicit
<1>13. ASSUME NEW p \in Requests, NEW c, NEW n, NEW lesson, Lesson(p, c, n, lesson) PROVE WholeInv'
  BY <1>5, <1>11, <1>13, ReadWholeBegins DEF Lesson
<1>14. ASSUME NEW p \in Requests, NEW c, NEW n, PublishedAsset(p, c, n) PROVE WholeInv'
  BY <1>14, AssetWhole
<1>15. ASSUME NEW p \in Requests, LoadNext(p) PROVE WholeInv'
  BY <1>15, VersionReadAgain, TableRead
<1>16. ASSUME NEW p \in Requests, EndErrand(p) PROVE WholeInv'
  BY <1>16, NoErrandWhole, WholeMoves DEF EndErrand
<1>17. CASE UNCHANGED courseVars
  <2>1. rows' = rows /\ errand' = errand
    BY <1>17 DEF courseVars
  <2>2. StoreWhole'
    BY <2>1 DEF WholeInv, StoreWhole, VersionsOf, RowsOf, OfKey, InTable, HasVersion, IsPart
  <2>3. ASSUME NEW q \in Requests PROVE WriterWhole(errand[q])' /\ ReaderWhole(errand[q])'
    <3>1. WriterWhole(errand'[q]) /\ ReaderWhole(errand'[q])
      BY <2>1 DEF WholeInv
    <3>2. WriterWhole(errand[q])'
      BY <3>1 DEF WriterWhole, Writing, IsPart, OfKey, InTable, Inserted
    <3>3. ReaderWhole(errand[q])'
      BY <2>1, <3>1 DEF ReaderWhole, ReaderVersion, ReaderFound, FoundSoFar, VersionsOf, RowsOf, HasVersion, HeldBy, ToSelect,
         HeldOfLesson, LessonHeld, Answered
    <3> QED BY <3>2, <3>3
  <2> QED BY <2>2, <2>3 DEF WholeInv
<1>18. CASE CourseStoreNext
  BY <1>1, <1>2, <1>3, <1>6, <1>7, <1>8, <1>9, <1>10, <1>12, <1>13, <1>14, <1>15, <1>16, <1>18,
     ResolvedWhole, InsertedWhole, PartsWhole, CommittedWhole DEF CourseStoreNext
<1> QED BY <1>17, <1>18

\* Both invariants, along every behaviour.
LEMMA WholeInvHolds == CourseStoreSpec => [](CourseInv /\ WholeInv)
BY CourseInitInv, CourseNextInv, WholeInit, WholeNext, PTL DEF CourseStoreSpec

-----------------------------------------------------------------------------
(* The tree that a reader puts together *)

Modules(s) == Holds[s].modules

\* A source holds modules, each under a key of its own.
LEMMA ModulesType ==
  ASSUME NEW s \in Sources
  PROVE  /\ Modules(s) \in Seq(ModuleTrees)
         /\ KeysOfTheirOwn(Modules(s))
BY CourseStoreAssumption DEF Modules

\* A module of a source holds lessons with what they require.
LEMMA LessonTypes ==
  ASSUME NEW s \in Sources, NEW i \in DOMAIN Modules(s)
  PROVE  /\ DOMAIN Modules(s) = 1..Len(Modules(s))
         /\ Modules(s)[i] = [key |-> Modules(s)[i].key, lessons |-> Modules(s)[i].lessons]
         /\ Modules(s)[i].lessons \in Seq(LessonTrees)
         /\ \A j \in DOMAIN Modules(s)[i].lessons :
               /\ Modules(s)[i].lessons[j] \in LessonTrees
               /\ Modules(s)[i].lessons[j].requires \in Seq(STRING)
<1>1. Modules(s) \in Seq(ModuleTrees)
  BY ModulesType
<1>2. Modules(s)[i] \in ModuleTrees /\ DOMAIN Modules(s) = 1..Len(Modules(s))
  BY <1>1
<1>3. /\ Modules(s)[i] = [key |-> Modules(s)[i].key, lessons |-> Modules(s)[i].lessons]
      /\ Modules(s)[i].lessons \in Seq(LessonTrees)
  BY <1>2 DEF ModuleTrees
<1>4. \A j \in DOMAIN Modules(s)[i].lessons : Modules(s)[i].lessons[j] \in LessonTrees
  BY <1>3
<1> QED BY <1>2, <1>3, <1>4 DEF LessonTrees

\* What was found has the rows of what a lesson requires, and nothing else of it.
RequiresFound(found, key, s, lesson) ==
    \A r : r.lesson = lesson => (r \in RowsOf(found, "prerequisite") <=> r \in PrerequisiteRows(key, Holds[s]))

LessonsFound(found, key, s) == RowsOf(found, "lesson") = LessonRows(key, Holds[s])

\* The rows of a lesson's prerequisites, put in order, are what it requires.
LEMMA RequiresWhole ==
  ASSUME NEW s \in Sources, NEW key, NEW found,
         NEW i \in DOMAIN Modules(s), NEW j \in DOMAIN Modules(s)[i].lessons,
         NEW l, l = Modules(s)[i].lessons[j], RequiresFound(found, key, s, l.key)
  PROVE  RequiresInOrder(found, l.key) = l.requires
<1> DEFINE lesson == l.key
           R == [k \in 1..Len(l.requires) |-> PrerequisiteRow(key, l, l.requires[k], k - 1)]
           S == {r \in PrerequisiteRows(key, Holds[s]) : r.lesson = l.key}
<1>1. l \in LessonTrees
  BY LessonTypes
<1>2. l.requires \in Seq(STRING)
  BY LessonTypes
<1> DEFINE n == Len(l.requires)
<1>2a. n \in Nat /\ DOMAIN l.requires = 1..n /\ l.requires = [k \in 1..n |-> l.requires[k]]
  BY <1>2
<1>3. S = {R[k] : k \in 1..n}
  <2>1. ASSUME NEW k \in 1..n PROVE R[k] \in S
    <3>1. R[k] = PrerequisiteRow(key, l, l.requires[k], k - 1) /\ R[k].lesson = l.key
      BY DEF PrerequisiteRow
    <3>2. l \in ToSet(Modules(s)[i].lessons) /\ Modules(s)[i] \in ToSet(Holds[s].modules)
      BY DEF ToSet, Modules
    <3>3. R[k] \in {PrerequisiteRow(key, l, l.requires[x], x - 1) : x \in DOMAIN l.requires}
      BY <1>2a, <3>1
    <3> HIDE DEF R
    <3>4. R[k] \in PrerequisiteRows(key, Holds[s])
      BY <3>2, <3>3 DEF PrerequisiteRows
    <3> QED BY <3>1, <3>4
  <2>2. ASSUME NEW r \in S PROVE \E k \in 1..n : r = R[k]
    <3>1. PICK m \in ToSet(Holds[s].modules) : \E x \in ToSet(m.lessons) :
              r \in {PrerequisiteRow(key, x, x.requires[k], k - 1) : k \in DOMAIN x.requires}
      BY DEF PrerequisiteRows
    <3>2. PICK x \in ToSet(m.lessons) : r \in {PrerequisiteRow(key, x, x.requires[k], k - 1) : k \in DOMAIN x.requires}
      BY <3>1
    <3>3. PICK a \in DOMAIN Modules(s) : m = Modules(s)[a]
      BY DEF ToSet, Modules
    <3>4. PICK b \in DOMAIN m.lessons : x = m.lessons[b]
      BY DEF ToSet
    <3>5. PICK k \in DOMAIN x.requires : r = PrerequisiteRow(key, x, x.requires[k], k - 1)
      BY <3>2
    <3>6. x.key = l.key
      BY <3>5 DEF PrerequisiteRow
    <3>7. a = i /\ b = j
      BY <3>3, <3>4, <3>6, ModulesType DEF KeysOfTheirOwn
    <3>8. x = l
      BY <3>3, <3>4, <3>7
    <3> QED BY <1>2a, <3>5, <3>8
  <2> HIDE DEF R, S, n
  <2> QED BY <2>1, <2>2
<1>4. \A k \in 1..n : R[k].position = k - 1 /\ R[k].target = l.requires[k]
  BY DEF PrerequisiteRow
<1>5. RequiresInOrder(found, lesson) = [k \in DOMAIN InOrder(S) |-> InOrder(S)[k].target]
  <2>1. {r \in RowsOf(found, "prerequisite") : r.lesson = lesson} = S
    BY DEF RequiresFound
  <2> QED BY <2>1 DEF RequiresInOrder
<1> HIDE DEF R, S, n
<1>6. InOrder(S) = [k \in 1..n |-> R[k]]
  BY <1>2a, <1>3, <1>4, InOrderLists
<1>7. RequiresInOrder(found, lesson) = [k \in 1..n |-> l.requires[k]]
  BY <1>4, <1>5, <1>6
<1> QED BY <1>2a, <1>7

\* The lessons of a module are put together as they were.
LEMMA LessonsWhole ==
  ASSUME NEW s \in Sources, NEW key, NEW found, NEW i \in DOMAIN Modules(s), NEW m,
         m.key = Modules(s)[i].key, LessonsFound(found, key, s)
  PROVE  /\ DOMAIN LessonsInOrder(found, m) = DOMAIN Modules(s)[i].lessons
         /\ \A j \in DOMAIN Modules(s)[i].lessons : LessonsInOrder(found, m)[j].key = Modules(s)[i].lessons[j].key
<1> DEFINE M == Modules(s)[i]
           n == Len(M.lessons)
           R == [j \in 1..n |-> LessonRow(key, M.key, M.lessons[j], j - 1)]
           S == {r \in LessonRows(key, Holds[s]) : r.module = M.key}
<1>1. n \in Nat /\ DOMAIN M.lessons = 1..n
  BY LessonTypes
<1>2. S = {R[j] : j \in 1..n}
  <2>1. ASSUME NEW j \in 1..n PROVE R[j] \in S
    <3>1. R[j] = LessonRow(key, M.key, M.lessons[j], j - 1) /\ R[j].module = M.key
      BY DEF LessonRow
    <3>2. M \in ToSet(Holds[s].modules)
      BY DEF ToSet, Modules
    <3>3. R[j] \in {LessonRow(key, M.key, M.lessons[x], x - 1) : x \in DOMAIN M.lessons}
      BY <1>1, <3>1
    <3> HIDE DEF M, R
    <3>4. R[j] \in LessonRows(key, Holds[s])
      BY <3>2, <3>3 DEF LessonRows
    <3> QED BY <3>1, <3>4
  <2>2. ASSUME NEW r \in S PROVE \E j \in 1..n : r = R[j]
    <3>1. PICK x \in ToSet(Holds[s].modules) :
              r \in {LessonRow(key, x.key, x.lessons[j], j - 1) : j \in DOMAIN x.lessons}
      BY DEF LessonRows
    <3>2. PICK a \in DOMAIN Modules(s) : x = Modules(s)[a]
      BY DEF ToSet, Modules
    <3>3. PICK j \in DOMAIN x.lessons : r = LessonRow(key, x.key, x.lessons[j], j - 1)
      BY <3>1
    <3>4. x.key = M.key
      BY <3>3 DEF LessonRow
    <3>5. a = i
      BY <3>2, <3>4, ModulesType DEF KeysOfTheirOwn
    <3>6. x = M
      BY <3>2, <3>5
    <3> HIDE DEF M
    <3> QED BY <1>1, <3>3, <3>6
  <2> HIDE DEF R, S, n
  <2> QED BY <2>1, <2>2
<1>3. \A j \in 1..n : R[j].position = j - 1
  BY DEF LessonRow
<1>4. LessonsInOrder(found, m) = InOrder(S)
  BY DEF LessonsInOrder, LessonsFound
<1>5. R = [j \in 1..n |-> R[j]]
  OBVIOUS
<1> HIDE DEF R, S, n
<1>6. InOrder(S) = [j \in 1..n |-> R[j]]
  BY <1>1, <1>2, <1>3, InOrderLists
<1>7. LessonsInOrder(found, m) = R
  BY <1>4, <1>5, <1>6
<1>8. DOMAIN R = 1..n /\ \A j \in 1..n : R[j].key = M.lessons[j].key
  BY DEF R, LessonRow
<1> QED BY <1>1, <1>7, <1>8

\* The rows of the modules, the lessons and what they require make the outline they came from.
LEMMA TreeWhole ==
  ASSUME NEW s \in Sources, NEW key, NEW found,
         RowsOf(found, "module") = ModuleRows(key, Holds[s]),
         RowsOf(found, "lesson") = LessonRows(key, Holds[s]),
         RowsOf(found, "prerequisite") = PrerequisiteRows(key, Holds[s])
  PROVE  CourseTree(found) = Modules(s)
<1> DEFINE M == Modules(s)
           n == Len(M)
           R == [i \in 1..n |-> [table |-> "module", id |-> key, key |-> M[i].key, position |-> i - 1]]
           RestoredTree(i) == LET m       == R[i]
                          lessons == LessonsInOrder(found, m)
                      IN  [key |-> m.key, lessons |-> [j \in DOMAIN lessons |-> Branch(found, lessons[j])]]
<1>1. n \in Nat /\ DOMAIN M = 1..n /\ M = [i \in 1..n |-> M[i]]
  BY ModulesType
<1>2. ModuleRows(key, Holds[s]) = {R[i] : i \in 1..n}
  BY <1>1 DEF ModuleRows, Modules
<1>3. \A i \in 1..n : R[i].position = i - 1 /\ R[i].key = M[i].key
  OBVIOUS
<1>4. R = [i \in 1..n |-> R[i]]
  OBVIOUS
<1>5. ModulesInOrder(found) = R
  <2> HIDE DEF R, n
  <2>1. InOrder({R[i] : i \in 1..n}) = [i \in 1..n |-> R[i]]
    BY <1>1, <1>3, InOrderLists
  <2> QED BY <1>2, <1>4, <2>1 DEF ModulesInOrder
<1>6. ASSUME NEW i \in 1..n PROVE RestoredTree(i) = M[i]
  <2> DEFINE k == Len(M[i].lessons)
             L == LessonsInOrder(found, R[i])
  <2>0. i \in DOMAIN Modules(s)
    BY <1>1
  <2>1. DOMAIN L = DOMAIN M[i].lessons /\ \A j \in DOMAIN M[i].lessons : L[j].key = M[i].lessons[j].key
    <3>1. R[i].key = Modules(s)[i].key
      BY <1>3
    <3>2. LessonsFound(found, key, s)
      BY DEF LessonsFound
    <3> HIDE DEF R, n, k
    <3> QED BY <2>0, <3>1, <3>2, LessonsWhole
  <2>2. /\ DOMAIN M[i].lessons = 1..k /\ M[i].lessons = [j \in 1..k |-> M[i].lessons[j]]
        /\ M[i] = [key |-> M[i].key, lessons |-> M[i].lessons]
    BY <2>0, LessonTypes
  <2>3. ASSUME NEW j \in 1..k PROVE Branch(found, L[j]) = M[i].lessons[j]
    <3> DEFINE l == M[i].lessons[j]
    <3>1. l \in LessonTrees
      BY <2>0, <2>2, LessonTypes
    <3>2. L[j].key = l.key
      BY <2>1, <2>2
    <3>3. RequiresInOrder(found, l.key) = l.requires
      <4>1. j \in DOMAIN Modules(s)[i].lessons
        BY <2>2
      <4>2. RequiresFound(found, key, s, l.key)
        BY DEF RequiresFound
      <4>3. l = Modules(s)[i].lessons[j]
        OBVIOUS
      <4> HIDE DEF L, k, R, n, l
      <4> QED BY <2>0, <4>1, <4>2, <4>3, RequiresWhole
    <3>4. l = [key |-> l.key, requires |-> l.requires]
      BY <3>1 DEF LessonTrees
    <3> HIDE DEF l, L
    <3>5. Branch(found, L[j]) = l
      BY <3>2, <3>3, <3>4 DEF Branch
    <3> QED BY <3>5 DEF l
  <2>4. DOMAIN L = 1..k
    BY <2>1, <2>2
  <2>5. RestoredTree(i) = [key |-> R[i].key, lessons |-> [j \in DOMAIN L |-> Branch(found, L[j])]]
    OBVIOUS
  <2> HIDE DEF L, k, RestoredTree, M, R
  <2>6. [j \in DOMAIN L |-> Branch(found, L[j])] = M[i].lessons
    BY <2>2, <2>3, <2>4
  <2> QED BY <1>3, <2>2, <2>5, <2>6
<1>7. CourseTree(found) = [i \in DOMAIN R |-> RestoredTree(i)]
  BY <1>5 DEF CourseTree
<1>8. DOMAIN R = 1..n
  OBVIOUS
<1> HIDE DEF R, RestoredTree, n, M
<1>9. CourseTree(found) = M
  BY <1>1, <1>6, <1>7, <1>8
<1> QED BY <1>9 DEF M

-----------------------------------------------------------------------------
\* The rows of one table, among those that a plan has selected.
LEMMA TableOfRow ==
  ASSUME NEW c, NEW t \in PartTables, NEW u \in PartTables \ {"provenance"}, NEW r \in HeldBy(c, t)
  PROVE  r.table = u <=> t = u
<1>1. InTable(r, t)
  BY InsertedTables DEF HeldBy, PartTables
<1> QED BY <1>1 DEF InTable, PartTables

\* A read that is answered has found all rows of each table of its plan.
LEMMA FoundByTable ==
  ASSUME NEW c, c.step = "answered", ReaderFound(c), c.kind \in WholeKinds \cup OutlineKinds,
         NEW u \in PartTables \ {"provenance"}, NEW n \in 1..Len(PlanOf(c.kind)), PlanOf(c.kind)[n] = u
  PROVE  RowsOf(c.found, u) = HeldBy(c, u)
<1> DEFINE plan == PlanOf(c.kind)
<1>1. c.kind \in LoadKinds /\ c.kind # "lesson"
  BY DEF LoadKinds, WholeKinds, OutlineKinds
<1>2. c.found = UNION {HeldBy(c, plan[i]) : i \in Answered(c)}
  BY <1>1 DEF ReaderFound, FoundSoFar, ToSelect
<1>3. Answered(c) = {i \in 1..Len(plan) : plan[i] # "version"}
  BY DEF Answered
<1>4. \A i \in 1..Len(plan) : plan[i] \in PartTables \cup {"version"}
  BY <1>1, Plans
<1>5. n \in Answered(c)
  BY <1>3 DEF PartTables
<1> HIDE DEF plan
<1>6. ASSUME NEW r \in c.found, r.table = u PROVE r \in HeldBy(c, u)
  <2>1. PICK i \in Answered(c) : r \in HeldBy(c, plan[i])
    BY <1>2
  <2>2. plan[i] \in PartTables
    BY <1>3, <1>4, <2>1
  <2>3. plan[i] = u
    BY <1>6, <2>1, <2>2, TableOfRow
  <2> QED BY <2>1, <2>3
<1>7. ASSUME NEW r \in HeldBy(c, u) PROVE r \in c.found /\ r.table = u
  BY <1>2, <1>5, TableOfRow DEF plan
<1> QED BY <1>6, <1>7 DEF RowsOf

\* A reader of one lesson, of a version from s, that has been answered.
LessonOf(c, s) == c.step = "answered" /\ c.kind = "lesson" /\ ReaderFound(c) /\ s = c.version.source

\* A read of one lesson answers with what the lesson requires.
LEMMA LessonAnswered ==
  ASSUME NEW c, NEW s \in Sources, LessonOf(c, s)
  PROVE  AnswersWhole(c)
<1> DEFINE content == Holds[s]
<1>1. PlanOf(c.kind) = <<"lesson", "module", "prerequisite">>
  BY LessonPlan DEF LessonOf
<1>2. Answered(c) = {1, 2, 3}
  <2>1. Len(PlanOf(c.kind)) = 3 /\ PlanOf(c.kind)[1] = "lesson" /\ PlanOf(c.kind)[2] = "module"
        /\ PlanOf(c.kind)[3] = "prerequisite"
    BY <1>1
  <2>2. 1..3 = {1, 2, 3}
    OBVIOUS
  <2>3. Answered(c) = {i \in {1, 2, 3} : PlanOf(c.kind)[i] # "version"}
    BY <2>1, <2>2 DEF Answered, LessonOf
  <2> QED BY <2>1, <2>3
<1>3. c.found = UNION {ToSelect(c, PlanOf(c.kind)[i]) : i \in Answered(c)}
  BY DEF LessonOf, ReaderFound, FoundSoFar, LoadKinds
<1>4. c.found = HeldOfLesson(c, "lesson") \cup HeldOfLesson(c, "module") \cup HeldOfLesson(c, "prerequisite")
  BY <1>1, <1>2, <1>3 DEF LessonOf, ToSelect
<1>5. /\ HeldOfLesson(c, "lesson") = LessonHeld(c)
      /\ HeldOfLesson(c, "module") = {r \in HeldBy(c, "module") : \E l \in LessonHeld(c) : l.module = r.key}
      /\ HeldOfLesson(c, "prerequisite") = {r \in HeldBy(c, "prerequisite") : r.lesson = c.lesson}
  BY DEF HeldOfLesson
<1>6. /\ HeldBy(c, "lesson") = LessonRows(c.id, content) /\ HeldBy(c, "module") = ModuleRows(c.id, content)
      /\ HeldBy(c, "prerequisite") = PrerequisiteRows(c.id, content)
  BY DEF HeldBy, RowsToInsert, LessonOf
<1>7. PICK row \in LessonHeld(c) : TRUE
  BY DEF LessonOf, ReaderFound
<1>8. row \in LessonRows(c.id, content) /\ row.key = c.lesson
  BY <1>6 DEF LessonHeld
\* Where a row of a lesson comes from.
<1>9. ASSUME NEW r \in LessonRows(c.id, content)
      PROVE  \E i \in DOMAIN Modules(s) : \E j \in DOMAIN Modules(s)[i].lessons :
                 r.module = Modules(s)[i].key /\ r.key = Modules(s)[i].lessons[j].key
  <2>1. PICK m \in ToSet(content.modules) : r \in {LessonRow(c.id, m.key, m.lessons[j], j - 1) : j \in DOMAIN m.lessons}
    BY DEF LessonRows
  <2>2. PICK j \in DOMAIN m.lessons : r = LessonRow(c.id, m.key, m.lessons[j], j - 1)
    BY <2>1
  <2>3. PICK i \in DOMAIN Modules(s) : m = Modules(s)[i]
    BY DEF ToSet, Modules
  <2>4. r.module = m.key /\ r.key = m.lessons[j].key
    BY <2>2 DEF LessonRow
  <2> QED BY <2>2, <2>3, <2>4
<1>10. PICK i \in DOMAIN Modules(s) : \E j \in DOMAIN Modules(s)[i].lessons :
           row.module = Modules(s)[i].key /\ row.key = Modules(s)[i].lessons[j].key
  BY <1>8, <1>9
<1>11. PICK j \in DOMAIN Modules(s)[i].lessons :
           row.module = Modules(s)[i].key /\ row.key = Modules(s)[i].lessons[j].key
  BY <1>10
<1> DEFINE m == Modules(s)[i]
           l == Modules(s)[i].lessons[j]
<1>12. l.key = c.lesson
  BY <1>8, <1>11
<1>13. ASSUME NEW r \in LessonHeld(c) PROVE r.module = m.key
  <2>1. r \in LessonRows(c.id, content) /\ r.key = c.lesson
    BY <1>6 DEF LessonHeld
  <2>2. PICK a \in DOMAIN Modules(s) : \E b \in DOMAIN Modules(s)[a].lessons :
            r.module = Modules(s)[a].key /\ r.key = Modules(s)[a].lessons[b].key
    BY <1>9, <2>1
  <2>3. a = i
    BY <1>12, <2>1, <2>2, ModulesType DEF KeysOfTheirOwn
  <2> QED BY <2>2, <2>3
<1>14. HeldOfLesson(c, "module") = {r \in HeldBy(c, "module") : r.key = m.key}
  BY <1>5, <1>7, <1>13
<1>15. \A r \in HeldBy(c, "lesson") : r.table = "lesson"
  BY TableOfRow DEF PartTables
<1>16. \A r \in HeldBy(c, "module") : r.table = "module"
  BY TableOfRow DEF PartTables
<1>17. \A r \in HeldBy(c, "prerequisite") : r.table = "prerequisite"
  BY TableOfRow DEF PartTables
<1>18. RowsOf(c.found, "module") = {r \in HeldBy(c, "module") : r.key = m.key}
  <2>1. \A r \in c.found : r.table = "module" <=> r \in HeldOfLesson(c, "module")
    <3>1. \A r \in HeldOfLesson(c, "lesson") : r.table = "lesson"
      BY <1>5, <1>15 DEF LessonHeld
    <3>2. \A r \in HeldOfLesson(c, "prerequisite") : r.table = "prerequisite"
      BY <1>5, <1>17
    <3>3. \A r \in HeldOfLesson(c, "module") : r.table = "module"
      BY <1>5, <1>16
    <3> QED BY <1>4, <3>1, <3>2, <3>3
  <2> QED BY <1>4, <1>14, <2>1 DEF RowsOf
<1>19. RowsOf(c.found, "prerequisite") = {r \in PrerequisiteRows(c.id, content) : r.lesson = c.lesson}
  <2>1. \A r \in c.found : r.table = "prerequisite" <=> r \in HeldOfLesson(c, "prerequisite")
    <3>1. \A r \in HeldOfLesson(c, "lesson") : r.table = "lesson"
      BY <1>5, <1>15 DEF LessonHeld
    <3>2. \A r \in HeldOfLesson(c, "prerequisite") : r.table = "prerequisite"
      BY <1>5, <1>17
    <3>3. \A r \in HeldOfLesson(c, "module") : r.table = "module"
      BY <1>5, <1>16
    <3> QED BY <1>4, <3>1, <3>2, <3>3
  <2> QED BY <1>4, <1>5, <1>6, <2>1 DEF RowsOf
<1>20. {r.key : r \in RowsOf(c.found, "module")} = {m.key}
  <2> DEFINE own == [table |-> "module", id |-> c.id, key |-> m.key, position |-> i - 1]
  <2>1. own \in ModuleRows(c.id, content) /\ own.key = m.key
    BY DEF ModuleRows, Modules
  <2>2. own \in RowsOf(c.found, "module")
    BY <1>6, <1>18, <2>1
  <2> HIDE DEF own, m
  <2> QED BY <1>18, <2>1, <2>2
<1>21. RequiresInOrder(c.found, l.key) = l.requires
  <2>1. RequiresFound(c.found, c.id, s, l.key)
    BY <1>12, <1>19 DEF RequiresFound
  <2>2. l = Modules(s)[i].lessons[j] /\ i \in DOMAIN Modules(s) /\ j \in DOMAIN Modules(s)[i].lessons
    OBVIOUS
  <2> HIDE DEF l
  <2> QED BY <2>1, <2>2, RequiresWhole
<1>22. l \in LessonTrees
  BY LessonTypes
<1>23. l = [key |-> l.key, requires |-> l.requires]
  BY <1>22 DEF LessonTrees
<1>24. m \in ToSet(content.modules) /\ l \in ToSet(m.lessons)
  BY DEF ToSet, Modules
<1> HIDE DEF m, l
<1>25. l = Branch(c.found, [key |-> c.lesson])
  BY <1>12, <1>21, <1>23 DEF Branch
<1> QED BY <1>20, <1>24, <1>25 DEF AnswersWhole, LessonOf

\* The rows of the assets name all assets.
LEMMA AssetsListed ==
  ASSUME NEW key, NEW content, NEW S, S = AssetRows(key, content)
  PROVE  {r.asset : r \in S} = content.assets
<1>1. ASSUME NEW r \in S PROVE r.asset \in content.assets
  BY DEF AssetRows
<1>2. ASSUME NEW a \in content.assets PROVE \E r \in S : r.asset = a
  <2>1. [table |-> "asset", id |-> key, asset |-> a] \in S
    BY DEF AssetRows
  <2> QED BY <2>1
<1> QED BY <1>1, <1>2

\* The rows of the assessments name all assessments.
LEMMA AssessmentsListed ==
  ASSUME NEW key, NEW content, NEW S, S = AssessmentRows(key, content)
  PROVE  {r.assessment : r \in S} = content.assessments
<1>1. ASSUME NEW r \in S PROVE r.assessment \in content.assessments
  BY DEF AssessmentRows
<1>2. ASSUME NEW a \in content.assessments PROVE \E r \in S : r.assessment = a
  <2>1. [table |-> "assessment", id |-> key, assessment |-> a] \in S
    BY DEF AssessmentRows
  <2> QED BY <2>1
<1> QED BY <1>1, <1>2

\* A read that is answered has its version whole.
LEMMA AnswerWhole ==
  ASSUME CourseInv, WholeInv, NEW p \in Requests, errand[p].step = "answered"
  PROVE  AnswersWhole(errand[p])
<1> DEFINE c == errand[p]
           s == c.version.source
<1>1. ReaderVersion(c) /\ ReaderFound(c)
  BY DEF WholeInv, ReaderWhole
<1>2. PICK v \in VersionsOf(rows) : v.id = c.id /\ v.source = s
  BY <1>1 DEF ReaderVersion
<1>3. s \in Sources
  BY <1>2 DEF CourseInv, StoreForm, RowForm, VersionsOf, RowsOf
<1>4. c.kind \in LoadKinds \/ c.kind = "asset"
  BY <1>1 DEF ReaderFound
<1>5. CASE c.kind = "asset"
  <2>1. c.found \subseteq AssetRows(c.id, Holds[s])
    BY <1>1, <1>5 DEF ReaderFound, HeldBy, RowsToInsert
  <2>2. {r.asset : r \in RowsOf(c.found, "asset")} \subseteq Holds[s].assets
    BY <2>1 DEF AssetRows, RowsOf
  <2> QED BY <1>5, <2>2 DEF AnswersWhole
<1>6. CASE c.kind = "lesson"
  BY <1>1, <1>3, <1>6, LessonAnswered DEF LessonOf
<1>7. CASE c.kind \in WholeKinds \cup OutlineKinds
  <2>1. ASSUME NEW u \in {"module", "lesson", "prerequisite"} PROVE RowsOf(c.found, u) = RowsToInsert(u, c.id, s)
    <3>1. \E n \in 1..Len(PlanOf(c.kind)) : PlanOf(c.kind)[n] = u
      <4>1. CASE c.kind \in WholeKinds
        <5>3. Len(PlanOf(c.kind)) = 7 /\ PlanOf(c.kind)[5] = "module" /\ PlanOf(c.kind)[6] = "lesson"
              /\ PlanOf(c.kind)[7] = "prerequisite"
          BY <4>1, WholePlan
        <5> QED BY <5>3
      <4>2. CASE c.kind \in OutlineKinds
        <5>1. PlanOf(c.kind) = <<"module", "lesson", "prerequisite">>
          BY <4>2 DEF PlanOf, OutlineKinds, OutlineTables
        <5>2. Len(PlanOf(c.kind)) = 3 /\ PlanOf(c.kind)[1] = "module" /\ PlanOf(c.kind)[2] = "lesson"
              /\ PlanOf(c.kind)[3] = "prerequisite"
          BY <5>1
        <5> QED BY <5>2
      <4> QED BY <1>7, <4>1, <4>2
    <3> QED BY <1>1, <1>7, <3>1, FoundByTable DEF PartTables, HeldBy
  <2>2. /\ RowsOf(c.found, "module") = ModuleRows(c.id, Holds[s])
        /\ RowsOf(c.found, "lesson") = LessonRows(c.id, Holds[s])
        /\ RowsOf(c.found, "prerequisite") = PrerequisiteRows(c.id, Holds[s])
    BY <2>1 DEF RowsToInsert
  <2>3. CourseTree(c.found) = Holds[s].modules
    BY <1>3, <2>2, TreeWhole DEF Modules
  <2>4. c.kind \in WholeKinds =>
            /\ {r.asset : r \in RowsOf(c.found, "asset")} = Holds[s].assets
            /\ {r.assessment : r \in RowsOf(c.found, "assessment")} = Holds[s].assessments
    <3> SUFFICES ASSUME c.kind \in WholeKinds
                 PROVE  /\ {r.asset : r \in RowsOf(c.found, "asset")} = Holds[s].assets
                        /\ {r.assessment : r \in RowsOf(c.found, "assessment")} = Holds[s].assessments
      OBVIOUS
    <3>3. Len(PlanOf(c.kind)) = 7 /\ PlanOf(c.kind)[3] = "asset" /\ PlanOf(c.kind)[4] = "assessment"
      BY WholePlan
    <3>4. RowsOf(c.found, "asset") = HeldBy(c, "asset")
      BY <1>1, <1>7, <3>3, FoundByTable DEF PartTables
    <3>5. RowsOf(c.found, "assessment") = HeldBy(c, "assessment")
      BY <1>1, <1>7, <3>3, FoundByTable DEF PartTables
    <3>6. RowsOf(c.found, "asset") = AssetRows(c.id, Holds[s])
      BY <3>4 DEF HeldBy, RowsToInsert
    <3>7. RowsOf(c.found, "assessment") = AssessmentRows(c.id, Holds[s])
      BY <3>5 DEF HeldBy, RowsToInsert
    <3>8. {r.asset : r \in RowsOf(c.found, "asset")} = Holds[s].assets
      BY <3>6, AssetsListed
    <3>9. {r.assessment : r \in RowsOf(c.found, "assessment")} = Holds[s].assessments
      BY <3>7, AssessmentsListed
    <3> QED BY <3>8, <3>9
  <2>5. c.kind # "asset" /\ c.kind # "lesson"
    BY <1>7 DEF WholeKinds, OutlineKinds
  <2> QED BY <2>3, <2>4, <2>5 DEF AnswersWhole, WholeKinds
<1> QED BY <1>4, <1>5, <1>6, <1>7 DEF LoadKinds

\* A read that goes from table to table, while versions are stored, imported and withdrawn
\* beside it, answers with a version as it was published or imported, whole and in order.
THEOREM ReadsAnswerWhole == CourseStoreSpec => []ReadsAreWhole
<1>1. CourseInv /\ WholeInv => ReadsAreWhole
  BY AnswerWhole DEF ReadsAreWhole
<1> QED BY <1>1, WholeInvHolds, PTL

-----------------------------------------------------------------------------
(***************************************************************************)
(* Courses on their way                                                    *)
(*                                                                         *)
(* What one station accepts implies what the next one asks for, whatever   *)
(* the review has frozen: the rules of the editor and of Authoring imply   *)
(* those of Courses, these the ones of the exporter, and a package that    *)
(* an academy has written is one that the reader takes and from which the  *)
(* same course comes out.  An import is stored under the lock of its       *)
(* course, after a look that found none, and after every release that its  *)
(* widgets are pinned to was found.                                        *)
(***************************************************************************)

KeysApart(S) == \A a, b \in S : a.key = b.key => a = b

BelowIn(S, a) == {c \in S : c.key < a.key}

\* Bindings of different keys can be numbered by how many are before them.
LEMMA KeysHaveRanks ==
  ASSUME NEW S, IsFiniteSet(S), \A a \in S : a.key \in Nat, KeysApart(S)
  PROVE  \A i \in 1..Cardinality(S) : \E a \in S : Cardinality(BelowIn(S, a)) = i - 1
<1> DEFINE n == Cardinality(S)
           rank == [a \in S |-> Cardinality(BelowIn(S, a))]
           T == {rank[a] : a \in S}
<1>1. n \in Nat
  BY FS_CardinalityType
<1>2. \A a \in S : /\ IsFiniteSet(BelowIn(S, a)) /\ rank[a] \in Nat /\ rank[a] < n
  <2> TAKE a \in S
  <2>1. IsFiniteSet(S \ {a}) /\ Cardinality(S \ {a}) = n - 1
    BY FS_RemoveElement
  <2>2. BelowIn(S, a) \in SUBSET (S \ {a})
    BY DEF BelowIn
  <2>3. IsFiniteSet(BelowIn(S, a)) /\ Cardinality(BelowIn(S, a)) <= n - 1
    BY <2>1, <2>2, FS_Subset
  <2>4. Cardinality(BelowIn(S, a)) \in Nat
    BY <2>3, FS_CardinalityType
  <2> QED BY <2>3, <2>4, <1>1
<1>3. \A a, b \in S : a.key < b.key => rank[a] < rank[b]
  <2> SUFFICES ASSUME NEW a \in S, NEW b \in S, a.key < b.key PROVE rank[a] < rank[b]
    OBVIOUS
  <2>1. BelowIn(S, a) \cup {a} \in SUBSET BelowIn(S, b) /\ a \notin BelowIn(S, a)
    BY DEF BelowIn
  <2>2. Cardinality(BelowIn(S, a) \cup {a}) = rank[a] + 1
    BY <1>2, <2>1, FS_AddElement
  <2>3. Cardinality(BelowIn(S, a) \cup {a}) <= rank[b]
    BY <1>2, <2>1, FS_Subset
  <2> QED BY <1>2, <2>2, <2>3
<1>4. \A a, b \in S : rank[a] = rank[b] => a = b
  <2> SUFFICES ASSUME NEW a \in S, NEW b \in S, rank[a] = rank[b] PROVE a.key = b.key
    BY DEF KeysApart
  <2>1. ~(a.key < b.key) /\ ~(b.key < a.key)
    BY <1>2, <1>3
  <2> QED BY <2>1
<1>5. rank \in Surjection(S, T) /\ rank \in Injection(S, T)
  BY <1>4 DEF Surjection, Injection, IsInjective
<1>6. IsFiniteSet(T) /\ Cardinality(T) = n
  <2> HIDE DEF rank, T
  <2> QED BY <1>5, FS_Surjection
<1>7. T = 0..(n - 1)
  <2>1. T \in SUBSET (0..(n - 1))
    BY <1>1, <1>2
  <2>2. IsFiniteSet(0..(n - 1)) /\ Cardinality(0..(n - 1)) = n
    BY <1>1, FS_Interval
  <2> HIDE DEF T, n
  <2> QED BY <2>1, <2>2, <1>6, FS_Subset
<1> SUFFICES ASSUME NEW i \in 1..n
             PROVE  \E a \in S : Cardinality(BelowIn(S, a)) = i - 1
  OBVIOUS
<1>8. i - 1 \in 0..(n - 1)
  BY <1>1
<1>9. i - 1 \in T
  BY <1>7, <1>8
<1>10. PICK a \in S : i - 1 = rank[a]
  BY <1>9
<1> QED BY <1>10

\* A list by key has every binding once, in ascending order.
LEMMA ListedByKey ==
  ASSUME NEW S, IsFiniteSet(S), \A a \in S : a.key \in Nat, KeysApart(S)
  PROVE  /\ ByKey(S) \in Seq(S) /\ Len(ByKey(S)) = Cardinality(S)
         /\ ToSet(ByKey(S)) = S
         /\ UniqueKeys(ByKey(S)) /\ Ascending(ByKey(S))
<1> DEFINE n == Cardinality(S)
           list == ByKey(S)
           Rank(a) == Cardinality(BelowIn(S, a))
<1>1. n \in Nat
  BY FS_CardinalityType
<1>2. \A i \in 1..n : list[i] \in S /\ Rank(list[i]) = i - 1
  <2> TAKE i \in 1..n
  <2>1. list[i] = CHOOSE b \in S : Cardinality({c \in S : c.key < b.key}) = i - 1
    BY DEF ByKey
  <2>2. \E b \in S : Cardinality({c \in S : c.key < b.key}) = i - 1
    BY KeysHaveRanks DEF BelowIn
  <2> QED BY <2>1, <2>2 DEF BelowIn
<1>3. DOMAIN list = 1..n
  BY DEF ByKey
<1>4. list \in Seq(S) /\ Len(list) = n
  <2> DEFINE Chosen(i) == CHOOSE b \in S : Cardinality({c \in S : c.key < b.key}) = i - 1
  <2>0. list = [i \in 1..n |-> Chosen(i)]
    BY DEF ByKey
  <2> HIDE DEF Chosen, list, n
  <2>1. list = [i \in 1..n |-> list[i]]
    BY <2>0
  <2> QED BY <1>1, <1>2, <2>1
<1>5. \A a, b \in S : a.key < b.key => Rank(a) < Rank(b)
  <2> SUFFICES ASSUME NEW a \in S, NEW b \in S, a.key < b.key PROVE Rank(a) < Rank(b)
    OBVIOUS
  <2>0. BelowIn(S, b) \in SUBSET S
    BY DEF BelowIn
  <2>1. BelowIn(S, a) \cup {a} \in SUBSET BelowIn(S, b) /\ a \notin BelowIn(S, a)
    BY DEF BelowIn
  <2>2. IsFiniteSet(BelowIn(S, b)) /\ IsFiniteSet(BelowIn(S, a))
    BY <2>0, <2>1, FS_Subset
  <2>3. Cardinality(BelowIn(S, a) \cup {a}) = Rank(a) + 1
    BY <2>1, <2>2, FS_AddElement
  <2>4. Cardinality(BelowIn(S, a) \cup {a}) <= Rank(b)
    BY <2>1, <2>2, FS_Subset
  <2>5. Rank(a) \in Nat /\ Rank(b) \in Nat
    BY <2>2, FS_CardinalityType
  <2> QED BY <2>3, <2>4, <2>5
<1>6. \A i, j \in 1..n : i < j => list[i].key < list[j].key
  <2> SUFFICES ASSUME NEW i \in 1..n, NEW j \in 1..n, i < j PROVE list[i].key < list[j].key
    OBVIOUS
  <2>1. list[i] # list[j] /\ ~(Rank(list[j]) < Rank(list[i]))
    BY <1>2
  <2>2. list[i].key \in Nat /\ list[j].key \in Nat /\ list[i].key # list[j].key
    BY <1>2, <2>1 DEF KeysApart
  <2>3. ~(list[j].key < list[i].key)
    BY <1>2, <1>5, <2>1
  <2> QED BY <2>2, <2>3
<1>7. UniqueKeys(list)
  <2> SUFFICES ASSUME NEW i \in 1..n, NEW j \in 1..n, list[i].key = list[j].key PROVE i = j
    BY <1>3 DEF UniqueKeys
  <2>1. list[i].key \in Nat
    BY <1>2
  <2>2. ~(i < j) /\ ~(j < i)
    BY <1>6, <2>1
  <2> QED BY <2>2
<1>8. Ascending(list)
  BY <1>1, <1>4, <1>6 DEF Ascending
<1>9. ToSet(list) = S
  <2>1. ToSet(list) = {list[i] : i \in 1..n}
    BY <1>3 DEF ToSet
  <2>2. \A i, j \in 1..n : list[i] = list[j] => i = j
    BY <1>3, <1>7 DEF UniqueKeys
  <2> DEFINE T == {list[i] : i \in 1..n}
             f == [i \in 1..n |-> list[i]]
  <2>3. T \in SUBSET S
    BY <1>2
  <2>4. f \in Surjection(1..n, T) /\ f \in Injection(1..n, T)
    BY <2>2 DEF Injection, Surjection, IsInjective
  <2>5. IsFiniteSet(1..n) /\ Cardinality(1..n) = n
    BY <1>1, FS_Interval
  <2> HIDE DEF T, f, n, list
  <2>6. Cardinality(T) = n
    BY <2>4, <2>5, FS_Surjection
  <2>7. T = S
    BY <2>3, <2>6, FS_Subset DEF n
  <2> QED BY <2>1, <2>7 DEF T
<1> QED BY <1>4, <1>7, <1>8, <1>9

\* Lists with neighbours in ascending order have every key once.
LEMMA AscendingKeys ==
  ASSUME NEW X, \A x \in X : x.key \in Nat, NEW list \in Seq(X), Ascending(list)
  PROVE  UniqueKeys(list)
<1> DEFINE T == {j \in 1..Len(list) : \E i \in 1..Len(list) : i < j /\ ~(list[i].key < list[j].key)}
<1>1. \A i \in 1..Len(list) : list[i].key \in Nat
  OBVIOUS
<1>2. T = {}
  <2> SUFFICES ASSUME T # {} PROVE FALSE
    OBVIOUS
  <2>1. T \subseteq Nat /\ T # {}
    OBVIOUS
  <2>2. PICK j \in T : \A k \in T : ~(<<k, j>> \in OpToRel(<, Nat))
    <3> HIDE DEF T
    <3> QED BY <2>1, NatLessThanWellFounded, WFMin
  <2>3. \A k \in T : ~(k < j)
    BY <2>1, <2>2 DEF OpToRel
  <2>4. PICK i \in 1..Len(list) : i < j /\ ~(list[i].key < list[j].key)
    OBVIOUS
  <2>5. j \in 2..Len(list) /\ j - 1 \in 1..Len(list)
    BY <2>4
  <2>6. list[j - 1].key < list[j].key
    BY <2>5 DEF Ascending
  <2>7. j - 1 \notin T
    BY <2>3, <2>5
  <2>8. i = j - 1 \/ list[i].key < list[j - 1].key
    BY <2>4, <2>5, <2>7
  <2> QED BY <1>1, <2>4, <2>5, <2>6, <2>8
<1>3. \A i, j \in 1..Len(list) : i < j => list[i].key < list[j].key
  BY <1>2
<1> SUFFICES ASSUME NEW i \in 1..Len(list), NEW j \in 1..Len(list), list[i].key = list[j].key
             PROVE  i = j
  BY DEF UniqueKeys
<1>4. ~(i < j) /\ ~(j < i)
  BY <1>1, <1>3
<1> QED BY <1>4

\* As many keys as there are items.
LEMMA KeysAreCounted ==
  ASSUME NEW X, NEW list \in Seq(X), UniqueKeys(list)
  PROVE  IsFiniteSet(KeysOf(list)) /\ Cardinality(KeysOf(list)) = Len(list)
<1> DEFINE n == Len(list)
           K == KeysOf(list)
           f == [i \in 1..n |-> list[i].key]
<1>1. K = {list[i].key : i \in 1..n}
  BY DEF KeysOf, ToSet
<1>2. f \in Surjection(1..n, K) /\ f \in Injection(1..n, K)
  BY <1>1 DEF Surjection, Injection, IsInjective, UniqueKeys
<1>3. IsFiniteSet(1..n) /\ Cardinality(1..n) = n
  <2>1. n \in Nat
    OBVIOUS
  <2> HIDE DEF n
  <2> QED BY <2>1, FS_Interval
<1> HIDE DEF f, K
<1> QED BY <1>2, <1>3, FS_Surjection DEF K

\* As many values as there are places, when none is repeated.
LEMMA ValuesAreCounted ==
  ASSUME NEW X, NEW list \in Seq(X), \A i, j \in 1..Len(list) : list[i] = list[j] => i = j
  PROVE  IsFiniteSet(ToSet(list)) /\ Cardinality(ToSet(list)) = Len(list)
<1> DEFINE n == Len(list)
           K == ToSet(list)
<1>2. list \in Surjection(1..n, K) /\ list \in Injection(1..n, K)
  BY DEF Surjection, Injection, IsInjective, ToSet
<1>3. IsFiniteSet(1..n) /\ Cardinality(1..n) = n
  <2>1. n \in Nat
    OBVIOUS
  <2> HIDE DEF n
  <2> QED BY <2>1, FS_Interval
<1> HIDE DEF K
<1> QED BY <1>2, <1>3, FS_Surjection DEF K

-----------------------------------------------------------------------------
(* From the editor to the store: questions *)

\* What the editor accepts as a choice is one that Courses stores.
LEMMA ChoicesArePublished ==
  ASSUME NEW q \in FrozenQuestions, ValidChoices(q)
  PROVE  PublishedOptions(q)
<1>1. q.options \in Seq(FrozenItems) /\ q.correct \in Seq(STRING)
  BY DEF FrozenQuestions
<1>2. 2 <= Len(q.options) /\ Len(q.options) <= 20
  <2> DEFINE n == Len(q.options)
  <2>1. n \in 2..20
    BY DEF ValidChoices
  <2> HIDE DEF n
  <2>2. 2 <= n /\ n <= 20
    BY <2>1
  <2> QED BY <2>2 DEF n
<1>3. Cardinality(KeysOf(q.options)) = Len(q.options)
  BY <1>1, KeysAreCounted DEF ValidChoices
<1>4. Cardinality(ToSet(q.correct)) = Len(q.correct)
  <2>1. \A i, j \in 1..Len(q.correct) : q.correct[i] = q.correct[j] => i = j
    BY <1>1 DEF ValidChoices, IsInjective
  <2> QED BY <1>1, <2>1, ValuesAreCounted
<1> QED BY <1>2, <1>3, <1>4 DEF ValidChoices, PublishedOptions, InPlace

\* Pairs that name no item twice, as many as there are items, name all of them.
LEMMA PairsNameAll ==
  ASSUME NEW X, NEW list \in Seq(X), UniqueKeys(list),
         NEW n \in Nat, n = Len(list), NEW names \in [1..n -> KeysOf(list)],
         \A i, j \in 1..n : names[i] = names[j] => i = j
  PROVE  {names[i] : i \in 1..n} = KeysOf(list)
<1> DEFINE T == {names[i] : i \in 1..n}
<1>1. names \in Surjection(1..n, T) /\ names \in Injection(1..n, T)
  BY DEF Surjection, Injection, IsInjective
<1>2. IsFiniteSet(1..n) /\ Cardinality(1..n) = n
  <2>1. n \in Nat
    OBVIOUS
  <2> QED BY ONLY <2>1, FS_Interval
<1>3. T \in SUBSET KeysOf(list)
  OBVIOUS
<1> HIDE DEF T
<1>4. Cardinality(T) = n
  BY <1>1, <1>2, FS_Surjection
<1>5. T = KeysOf(list)
  BY <1>3, <1>4, KeysAreCounted, FS_Subset
<1> QED BY <1>5 DEF T

\* What the editor accepts as a matching is a bijection.
LEMMA MatchingIsPublished ==
  ASSUME NEW q \in FrozenQuestions, ValidMatching(q)
  PROVE  PublishedMatching(q)
<1> DEFINE n == Len(q.pairs)
           first == [i \in 1..n |-> q.pairs[i][1]]
           second == [i \in 1..n |-> q.pairs[i][2]]
<1>1. /\ q.left \in Seq(FrozenItems) /\ q.right \in Seq(FrozenItems)
      /\ q.pairs \in Seq(STRING \X STRING) /\ n \in Nat /\ DOMAIN q.pairs = 1..n
  BY DEF FrozenQuestions
<1>2. Len(q.left) = n /\ Len(q.right) = n /\ UniqueKeys(q.left) /\ UniqueKeys(q.right)
  BY <1>1 DEF ValidMatching
<1>3. \A i \in 1..n : q.pairs[i][1] \in KeysOf(q.left) /\ q.pairs[i][2] \in KeysOf(q.right)
  BY <1>1 DEF ValidMatching, ToSet
<1>4. \A i, j \in 1..n : i # j => q.pairs[i][1] # q.pairs[j][1] /\ q.pairs[i][2] # q.pairs[j][2]
  BY <1>1 DEF ValidMatching
<1>5. {first[i] : i \in 1..n} = KeysOf(q.left)
  <2>1. first \in [1..n -> KeysOf(q.left)] /\ \A i, j \in 1..n : first[i] = first[j] => i = j
    BY <1>3, <1>4
  <2> DEFINE list == q.left
  <2>2. list \in Seq(FrozenItems) /\ UniqueKeys(list) /\ n \in Nat /\ n = Len(list)
    BY <1>1, <1>2
  <2>3. first \in [1..n -> KeysOf(list)]
    BY <2>1
  <2> HIDE DEF first, n, list
  <2>4. {first[i] : i \in 1..n} = KeysOf(list)
    BY <2>1, <2>2, <2>3, PairsNameAll
  <2> QED BY <2>4 DEF list
<1>6. {second[i] : i \in 1..n} = KeysOf(q.right)
  <2>1. second \in [1..n -> KeysOf(q.right)] /\ \A i, j \in 1..n : second[i] = second[j] => i = j
    BY <1>3, <1>4
  <2> DEFINE list == q.right
  <2>2. list \in Seq(FrozenItems) /\ UniqueKeys(list) /\ n \in Nat /\ n = Len(list)
    BY <1>1, <1>2
  <2>3. second \in [1..n -> KeysOf(list)]
    BY <2>1
  <2> HIDE DEF second, n, list
  <2>4. {second[i] : i \in 1..n} = KeysOf(list)
    BY <2>1, <2>2, <2>3, PairsNameAll
  <2> QED BY <2>4 DEF list
<1>7. /\ {pair[1] : pair \in ToSet(q.pairs)} = {first[i] : i \in 1..n}
      /\ {pair[2] : pair \in ToSet(q.pairs)} = {second[i] : i \in 1..n}
  BY <1>1 DEF ToSet
<1>8. Cardinality(KeysOf(q.left)) = n /\ Cardinality(KeysOf(q.right)) = n
  BY <1>1, <1>2, KeysAreCounted
<1>9. 1 <= n /\ n <= 20
  <2>1. Len(q.left) \in 1..20
    BY DEF ValidMatching
  <2> HIDE DEF n
  <2> QED BY <2>1, <1>2
<1> QED BY <1>2, <1>5, <1>6, <1>7, <1>8, <1>9 DEF PublishedMatching, ValidMatching

\* A question that the editor accepts is one that Courses stores.
LEMMA QuestionIsPublished ==
  ASSUME NEW q \in FrozenQuestions, ValidQuestion(q)
  PROVE  PublishedQuestion(q)
<1>1. q.type \in QuestionTypes
  BY DEF FrozenQuestions
<1>2. CASE q.type = "MATCHING"
  <2>1. q.options = <<>> /\ q.correct = <<>> /\ ValidMatching(q)
    BY <1>2 DEF ValidQuestion
  <2> QED BY <1>2, <2>1, MatchingIsPublished DEF PublishedQuestion
<1>3. CASE q.type # "MATCHING"
  <2>1. /\ q.left = <<>> /\ q.right = <<>> /\ q.pairs = <<>> /\ ValidChoices(q)
        /\ IF q.type = "SINGLE_CHOICE" THEN Len(q.correct) = 1 ELSE q.correct # <<>>
    BY <1>3 DEF ValidQuestion
  <2>2. q.left \o q.right = <<>>
    BY <2>1
  <2>3. q.correct \in Seq(STRING)
    BY DEF FrozenQuestions
  <2>4. q.correct # <<>> /\ (q.type = "SINGLE_CHOICE" => Len(q.correct) = 1)
    <3>1. Len(<<>>) # 1
      OBVIOUS
    <3>2. CASE q.type = "SINGLE_CHOICE"
      <4>1. Len(q.correct) = 1
        BY <2>1, <3>2
      <4>2. q.correct # <<>>
        BY <3>1, <4>1
      <4> QED BY <4>1, <4>2
    <3>3. CASE q.type # "SINGLE_CHOICE"
      BY <2>1, <3>3
    <3> QED BY <3>2, <3>3
  <2> QED BY <1>1, <1>3, <2>1, <2>2, <2>4, ChoicesArePublished DEF PublishedQuestion, QuestionTypes
<1> QED BY <1>2, <1>3

\* And so is an assessment, once it holds a question.
LEMMA BindingIsValid ==
  ASSUME NEW a \in FrozenAssessments, EditorAccepts(a.questions), a.questions # <<>>
  PROVE  ValidBinding(a)
<1>1. a.questions \in Seq(FrozenQuestions)
  BY DEF FrozenAssessments
<1>2. Len(a.questions) \in 1..100
  <2> DEFINE list == a.questions
             n == Len(list)
  <2>1. n <= 100
    BY DEF EditorAccepts
  <2>2. list \in Seq(FrozenQuestions) /\ list # <<>>
    BY <1>1
  <2> HIDE DEF list
  <2>3. n \in Nat /\ n # 0
    BY <2>2
  <2> HIDE DEF n
  <2>4. n \in 1..100
    BY ONLY <2>1, <2>3
  <2> QED BY <2>4 DEF n, list
<1>3. ToSet(a.questions) \subseteq FrozenQuestions
  BY <1>1 DEF ToSet
<1> QED BY <1>2, <1>3, QuestionIsPublished DEF EditorAccepts, ValidBinding

-----------------------------------------------------------------------------
(* From the review to the store *)

AssetBinding(k) == [key |-> k, media |-> Assets[k].media, digest |-> Assets[k].digest]

\* Every lesson of a module is one of the lessons of the course.
LEMMA LessonsAreListed ==
  ASSUME NEW modules, NEW i \in DOMAIN modules, NEW j \in DOMAIN modules[i].lessons
  PROVE  modules[i].lessons[j] \in ToSet(LessonsOf(modules))
<1>1. <<i, j>> \in PlacesOf(modules)
  BY DEF PlacesOf
<1>2. LessonsOf(modules)[<<i, j>>] = modules[i].lessons[j]
  BY <1>1 DEF LessonsOf
<1>3. DOMAIN LessonsOf(modules) = PlacesOf(modules)
  BY DEF LessonsOf
<1> QED BY <1>1, <1>2, <1>3 DEF ToSet

\* Assets that a course shows, and may show, are bound by their keys.
LEMMA AssetsResolve ==
  ASSUME NEW d \in Drafts, NEW s, \A use \in UsesOf(s) : AssetIsUsable(d, use)
  PROVE  /\ ToSet(ResolvedAssets(s)) = {AssetBinding(u.key) : u \in UsesOf(s)}
         /\ UniqueKeys(ResolvedAssets(s)) /\ Ascending(ResolvedAssets(s))
         /\ ByKey(ToSet(ResolvedAssets(s))) = ResolvedAssets(s)
<1> DEFINE S == {AssetBinding(u.key) : u \in UsesOf(s)}
           g == [k \in DOMAIN Assets |-> AssetBinding(k)]
           T == {g[k] : k \in DOMAIN Assets}
<1>1. \A u \in UsesOf(s) : u.key \in DOMAIN Assets
  BY DEF AssetIsUsable
<1>2. IsFiniteSet(T)
  <2>1. g \in Surjection(DOMAIN Assets, T)
    BY DEF Surjection
  <2> HIDE DEF g, T
  <2> QED BY <2>1, CoursePackagesAssumption, FS_Surjection
<1>3. S \in SUBSET T
  <2> SUFFICES ASSUME NEW u \in UsesOf(s) PROVE AssetBinding(u.key) \in T
    OBVIOUS
  <2>1. g[u.key] = AssetBinding(u.key)
    BY <1>1
  <2> QED BY <1>1, <2>1
<1>4. IsFiniteSet(S)
  <2> HIDE DEF S, T
  <2> QED BY <1>2, <1>3, FS_Subset
<1>5. \A a \in S : a.key \in Nat /\ a = AssetBinding(a.key)
  BY <1>1, CoursePackagesAssumption DEF AssetBinding
<1>6. KeysApart(S)
  <2> HIDE DEF S
  <2> QED BY <1>5 DEF KeysApart
<1>7. ResolvedAssets(s) = ByKey(S)
  BY DEF ResolvedAssets, AssetBinding
<1> HIDE DEF S
<1>8. /\ ToSet(ByKey(S)) = S /\ UniqueKeys(ByKey(S)) /\ Ascending(ByKey(S))
  BY <1>4, <1>5, <1>6, ListedByKey
<1> QED BY <1>7, <1>8 DEF S

\* Assessments that a course asks for are bound by their keys.
LEMMA AssessmentsResolve ==
  ASSUME NEW s \in FrozenReviews, Ascending(s.assessments)
  PROVE  /\ ToSet(ResolvedAssessments(s)) = {a \in ToSet(s.assessments) : a.key \in ChecksOf(s.modules)}
         /\ UniqueKeys(ResolvedAssessments(s)) /\ Ascending(ResolvedAssessments(s))
<1> DEFINE list == s.assessments
           S == {a \in ToSet(list) : a.key \in ChecksOf(s.modules)}
<1>1. list \in Seq(FrozenAssessments) /\ \A a \in FrozenAssessments : a.key \in Nat
  BY DEF FrozenReviews, FrozenAssessments
<1> HIDE DEF list
<1>2. UniqueKeys(list)
  BY <1>1, AscendingKeys DEF list
<1>3. \A i, j \in 1..Len(list) : list[i] = list[j] => i = j
  BY <1>1, <1>2 DEF UniqueKeys
<1>4. IsFiniteSet(ToSet(list))
  BY <1>1, <1>3, ValuesAreCounted
<1>5. \A a \in ToSet(list) : a.key \in Nat
  BY <1>1 DEF ToSet
<1>6. \A a, b \in ToSet(list) : a.key = b.key => a = b
  BY <1>1, <1>2 DEF ToSet, UniqueKeys
<1>7. S \in SUBSET ToSet(list)
  OBVIOUS
<1>8. IsFiniteSet(S) /\ (\A a \in S : a.key \in Nat) /\ KeysApart(S)
  <2>1. IsFiniteSet(S)
    <3> HIDE DEF S
    <3> QED BY <1>4, <1>7, FS_Subset
  <2> QED BY <1>5, <1>6, <2>1 DEF KeysApart
<1>9. ResolvedAssessments(s) = ByKey(S)
  BY DEF ResolvedAssessments, list
<1> HIDE DEF S
<1>10. /\ ToSet(ByKey(S)) = S /\ UniqueKeys(ByKey(S)) /\ Ascending(ByKey(S))
  BY <1>8, ListedByKey
<1> QED BY <1>9, <1>10 DEF S, list

\* What Authoring looks up of a block is what Courses finds referenced by it.
LEMMA UsesAreReferences ==
  ASSUME NEW b
  PROVE  AssetUses(b) = AssetReferences(b)
BY DEF AssetUses, AssetReferences, Transcripts

\* The assets of a course that may be published are bound as Courses demands.
LEMMA AssetsAreBound ==
  ASSUME NEW d \in Drafts, \A use \in UsesOf(Snapshot[d]) : AssetIsUsable(d, use)
  PROVE  BoundAssets(Converted(d))
<1> DEFINE s == Snapshot[d]
           v == Converted(d)
           references == UNION {AssetReferences(b) : b \in BlocksOf(v.modules)}
<1>1. v.modules = s.modules /\ v.assets = ResolvedAssets(s)
  BY DEF Converted
<1>2. references = UsesOf(s)
  BY <1>1, UsesAreReferences DEF UsesOf
<1>3. /\ ToSet(v.assets) = {AssetBinding(u.key) : u \in UsesOf(s)}
      /\ Ascending(v.assets)
  BY <1>1, AssetsResolve
<1>4. \A k : AssetBinding(k).key = k /\ AssetBinding(k).media = Assets[k].media
  BY DEF AssetBinding
<1>5. KeysOf(v.assets) = {u.key : u \in UsesOf(s)}
  BY <1>3, <1>4 DEF KeysOf
<1>6. \A r \in UsesOf(s), b \in ToSet(v.assets) : r.key = b.key => r.media \in {None, b.media}
  BY <1>3, <1>4 DEF AssetIsUsable
<1> HIDE DEF v, s, references
<1> QED BY <1>2, <1>3, <1>5, <1>6 DEF BoundAssets, v, s, references

\* And so are its assessments.
LEMMA AssessmentsAreBound ==
  ASSUME NEW d \in Drafts, SnapshotAccepted(Snapshot[d]), AssessmentsComplete(Snapshot[d])
  PROVE  BoundAssessments(Converted(d))
<1> DEFINE s == Snapshot[d]
           v == Converted(d)
<1>0. s \in FrozenReviews
  BY CoursePackagesAssumption
<1>1. v.modules = s.modules /\ v.assessments = ResolvedAssessments(s)
  BY DEF Converted
<1>2. /\ Ascending(s.assessments)
      /\ \A a \in ToSet(s.assessments) : EditorAccepts(a.questions)
  BY DEF SnapshotAccepted
<1>3. /\ ToSet(v.assessments) = {a \in ToSet(s.assessments) : a.key \in ChecksOf(s.modules)}
      /\ Ascending(v.assessments)
  BY <1>0, <1>1, <1>2, AssessmentsResolve
<1>4. /\ s.assessments \in Seq(FrozenAssessments)
      /\ \A a \in FrozenAssessments : a.key \in Nat
      /\ ToSet(s.assessments) \subseteq FrozenAssessments
  <2> HIDE DEF s
  <2>1. s.assessments \in Seq(FrozenAssessments)
    BY <1>0 DEF FrozenReviews
  <2>2. \A a \in FrozenAssessments : a.key \in Nat
    BY DEF FrozenAssessments
  <2>3. ToSet(s.assessments) \subseteq FrozenAssessments
    BY <2>1 DEF ToSet
  <2> QED BY <2>1, <2>2, <2>3
<1>5. UniqueKeys(s.assessments)
  <2> HIDE DEF s
  <2> QED BY <1>2, <1>4, AscendingKeys
<1>6. \A a, b \in ToSet(s.assessments) : a.key = b.key => a = b
  BY <1>5 DEF ToSet, UniqueKeys
<1>7. \A key \in ChecksOf(s.modules) : \E a \in ToSet(s.assessments) : a.key = key /\ a.questions # <<>>
  BY DEF AssessmentsComplete
<1> HIDE DEF s, v
<1>8. \A a \in ToSet(v.assessments) : ValidBinding(a)
  <2> SUFFICES ASSUME NEW a \in ToSet(v.assessments) PROVE ValidBinding(a)
    OBVIOUS
  <2>1. a \in FrozenAssessments /\ a \in ToSet(s.assessments) /\ a.key \in ChecksOf(s.modules)
    BY <1>3, <1>4
  <2>2. a.questions # <<>>
    BY <1>6, <1>7, <2>1
  <2> QED BY <1>2, <2>1, <2>2, BindingIsValid
<1>9. KeysOf(v.assessments) = ChecksOf(v.modules)
  <2>1. \A key \in ChecksOf(s.modules) : \E a \in ToSet(v.assessments) : a.key = key
    BY <1>3, <1>7
  <2> QED BY <1>1, <1>3, <2>1 DEF KeysOf
<1> QED BY <1>3, <1>8, <1>9 DEF BoundAssessments, v

\* A course that may be published, as far as its author is told, is one that Courses stores.
LEMMA PublishableIsStorable ==
  ASSUME NEW d \in Drafts, SnapshotAccepted(Snapshot[d]), Publishable(d)
  PROVE  Storable(Converted(d))
<1> DEFINE s == Snapshot[d]
           v == Converted(d)
<1>1. v.modules = s.modules /\ v.sound = s.sound /\ v.objectives = s.objectives
  BY DEF Converted
<1>2. /\ \A use \in UsesOf(s) : AssetIsUsable(d, use)
      /\ AssessmentsComplete(s) /\ PublishableStructure(s)
  BY DEF Publishable
<1>3. BoundAssets(v) /\ BoundAssessments(v)
  BY <1>2, AssetsAreBound, AssessmentsAreBound
<1> HIDE DEF v
<1>4. v.sound /\ v.objectives > 0
  BY <1>1, <1>2 DEF PublishableStructure
<1>5. ASSUME NEW i \in DOMAIN v.modules
      PROVE  /\ v.modules[i].position = i - 1 /\ v.modules[i].sound
             /\ \A j \in DOMAIN v.modules[i].lessons :
                   LET l == v.modules[i].lessons[j] IN
                   l.position = j - 1 /\ l.sound /\ l.objectives > 0 /\ ValidContent(l.blocks)
  <2>1. /\ v.modules[i].position = i - 1 /\ v.modules[i].sound
        /\ \A j \in DOMAIN v.modules[i].lessons :
              LET l == v.modules[i].lessons[j] IN l.position = j - 1 /\ l.sound /\ l.objectives > 0
    BY <1>1, <1>2 DEF PublishableStructure
  <2>2. ASSUME NEW j \in DOMAIN v.modules[i].lessons PROVE ValidContent(v.modules[i].lessons[j].blocks)
    <3>1. v.modules[i].lessons[j] \in ToSet(LessonsOf(s.modules))
      BY <1>1, LessonsAreListed
    <3> QED BY <3>1 DEF SnapshotAccepted
  <2> QED BY <2>1, <2>2
<1>6. /\ UniqueKeys(v.modules) /\ UniqueKeys(LessonsOf(v.modules))
      /\ \A l \in ToSet(LessonsOf(v.modules)) : ValidPrerequisites(l, KeysOf(LessonsOf(v.modules)))
  BY <1>1 DEF SnapshotAccepted
<1> QED BY <1>3, <1>4, <1>5, <1>6 DEF Storable, v

-----------------------------------------------------------------------------
(* From the store to a package, and into another store *)

\* What an export writes into a package, file by file.
LEMMA FilesOfPackage ==
  ASSUME NEW d, NEW v, NEW L
  PROVE  /\ DOMAIN PackageOf(d, v, L).files =
               {<<"course">>, <<"assessments">>} \cup {<<"assets", a.key>> : a \in ToSet(v.assets)}
                                                 \cup {<<"translations", l>> : l \in L}
         /\ CourseIn(PackageOf(d, v, L)) =
               [sound |-> v.sound, objectives |-> v.objectives, modules |-> v.modules]
         /\ AssessmentsIn(PackageOf(d, v, L)) = v.assessments
         /\ \A a \in ToSet(v.assets) :
               PackageOf(d, v, L).files[<<"assets", a.key>>] =
                  (CHOOSE b \in ToSet(v.assets) : b.key = a.key).digest
         /\ \A l \in L :
               PackageOf(d, v, L).files[<<"translations", l>>] =
                  [source |-> d, texts |-> CountedIn(v.modules)]
<1> DEFINE f == PayloadFiles(v)
           g == AssetFiles(v)
           h == TranslationFiles(d, v, L)
           files == PackageOf(d, v, L).files
           A == {<<"assets", a.key>> : a \in ToSet(v.assets)}
           T == {<<"translations", l>> : l \in L}
           course == [sound |-> v.sound, objectives |-> v.objectives, modules |-> v.modules]
           Bound(k) == (CHOOSE b \in ToSet(v.assets) : b.key = k).digest
           text == [source |-> d, texts |-> CountedIn(v.modules)]
<1>1. files = Together(f, Together(g, h))
  BY DEF PackageOf
<1>2. /\ f = [path \in {<<"course">>, <<"assessments">>} |->
                 IF path = <<"course">> THEN course ELSE v.assessments]
      /\ g = [path \in A |-> Bound(path[2])]
      /\ h = [path \in T |-> text]
  BY DEF PayloadFiles, AssetFiles, TranslationFiles
<1> HIDE DEF course, Bound, text, f, g, h, files
<1>3. files = [path \in DOMAIN f \cup (DOMAIN g \cup DOMAIN h) |->
                  IF path \in DOMAIN f THEN f[path]
                  ELSE IF path \in DOMAIN g THEN g[path] ELSE h[path]]
  <2>1. \A x, y : DOMAIN Together(x, y) = DOMAIN x \cup DOMAIN y
    BY DEF Together
  <2>2. \A x, y : \A path \in DOMAIN x \cup DOMAIN y :
           Together(x, y)[path] = IF path \in DOMAIN x THEN x[path] ELSE y[path]
    BY DEF Together
  <2>3. Together(f, Together(g, h)) =
           [path \in DOMAIN f \cup DOMAIN Together(g, h) |->
               IF path \in DOMAIN f THEN f[path] ELSE Together(g, h)[path]]
    BY DEF Together
  <2>4. \A path \in DOMAIN f \cup (DOMAIN g \cup DOMAIN h) : path \notin DOMAIN f =>
           Together(g, h)[path] = IF path \in DOMAIN g THEN g[path] ELSE h[path]
    BY <2>2
  <2> QED BY <1>1, <2>1, <2>3, <2>4
<1>4. DOMAIN f = {<<"course">>, <<"assessments">>} /\ DOMAIN g = A /\ DOMAIN h = T
  BY <1>2
<1>5. <<"course">> # <<"assessments">>
  OBVIOUS
<1>6. \A k : <<"assets", k>> \notin {<<"course">>, <<"assessments">>}
  OBVIOUS
<1>7. \A l : <<"translations", l>> \notin {<<"course">>, <<"assessments">>}
  OBVIOUS
<1>8. \A l, k : <<"translations", l>> # <<"assets", k>>
  OBVIOUS
<1>9. DOMAIN files = {<<"course">>, <<"assessments">>} \cup A \cup T
  BY <1>3, <1>4
<1>10. files[<<"course">>] = course /\ files[<<"assessments">>] = v.assessments
  <2>1. files[<<"course">>] = f[<<"course">>] /\ files[<<"assessments">>] = f[<<"assessments">>]
    BY <1>3, <1>4
  <2> QED BY <1>2, <1>5, <2>1
<1>11. ASSUME NEW a \in ToSet(v.assets) PROVE files[<<"assets", a.key>>] = Bound(a.key)
  <2>1. <<"assets", a.key>> \in A /\ <<"assets", a.key>>[2] = a.key
    OBVIOUS
  <2>2. files[<<"assets", a.key>>] = g[<<"assets", a.key>>]
    BY <1>3, <1>4, <1>6, <2>1
  <2> QED BY <1>2, <2>1, <2>2
<1>12. ASSUME NEW l \in L PROVE files[<<"translations", l>>] = text
  <2>1. <<"translations", l>> \in T /\ <<"translations", l>> \notin A
    BY <1>8
  <2>2. files[<<"translations", l>>] = h[<<"translations", l>>]
    BY <1>3, <1>4, <1>7, <2>1
  <2> QED BY <1>2, <2>1, <2>2
<1> QED BY <1>9, <1>10, <1>11, <1>12 DEF CourseIn, AssessmentsIn, course, Bound, text, files

\* What a package leaves to translate is at most what an academy counts.
LEMMA RequiredIsCounted ==
  ASSUME NEW modules
  PROVE  RequiredIn(modules) \subseteq CountedIn(modules)
<1>1. \A b : RequiredTexts(b) \subseteq CountedTexts(b)
  BY DEF RequiredTexts, CountedTexts
<1> DEFINE c == [b \in BlocksOf(modules) |-> CountedTexts(b)]
           q == [b \in BlocksOf(modules) |-> RequiredTexts(b)]
<1>2. \A l \in ToSet(LessonsOf(modules)) : \A b \in ToSet(l.blocks) : b \in BlocksOf(modules)
  BY DEF BlocksOf
<1>3. \A l \in ToSet(LessonsOf(modules)) : \A b \in ToSet(l.blocks) : q[b] \subseteq c[b]
  BY <1>1, <1>2
<1> HIDE DEF c, q
<1>4. TextsOf(modules, q) \subseteq TextsOf(modules, c)
  <2> SUFFICES ASSUME NEW x \in TextsOf(modules, q) PROVE x \in TextsOf(modules, c)
    OBVIOUS
  <2>1. PICK l \in ToSet(LessonsOf(modules)) :
           x \in UNION {{<<l.key, b.key, name>> : name \in q[b]} : b \in ToSet(l.blocks)}
    BY DEF TextsOf
  <2>2. PICK b \in ToSet(l.blocks) : x \in {<<l.key, b.key, name>> : name \in q[b]}
    BY <2>1
  <2>3. x \in {<<l.key, b.key, name>> : name \in c[b]}
    BY <1>3, <2>2
  <2>4. x \in UNION {{<<l.key, y.key, name>> : name \in c[y]} : y \in ToSet(l.blocks)}
    BY <2>3
  <2> QED BY <2>4 DEF TextsOf
<1> QED BY <1>4 DEF RequiredIn, CountedIn, c, q

\* A lesson of the course is a lesson of one of its modules.
LEMMA LessonsArePlaced ==
  ASSUME NEW modules, NEW l \in ToSet(LessonsOf(modules))
  PROVE  \E i \in DOMAIN modules : \E j \in DOMAIN modules[i].lessons : l = modules[i].lessons[j]
<1>1. DOMAIN LessonsOf(modules) = PlacesOf(modules)
  BY DEF LessonsOf
<1>2. PICK place \in PlacesOf(modules) : l = LessonsOf(modules)[place]
  BY <1>1 DEF ToSet
<1>3. PICK i \in DOMAIN modules : place \in {<<i, j>> : j \in DOMAIN modules[i].lessons}
  BY <1>2 DEF PlacesOf
<1>4. PICK j \in DOMAIN modules[i].lessons : place = <<i, j>>
  BY <1>3
<1>5. l = modules[i].lessons[j]
  BY <1>2, <1>4 DEF LessonsOf
<1> QED BY <1>5

\* The course of a draft that may be published holds, as it is stored.
PublishedAs(d, v) ==
  /\ d \in Drafts /\ v = Converted(d)
  /\ SnapshotAccepted(Snapshot[d]) /\ Publishable(d)

\* What every station reads of a stored course.
LEMMA StoredCourse ==
  ASSUME NEW d, NEW v, PublishedAs(d, v)
  PROVE  /\ Storable(v)
         /\ UniqueKeys(v.assets) /\ AssetEntries(v) = v.assets
         /\ UniqueKeys(v.assessments)
         /\ v.modules = Snapshot[d].modules
<1> DEFINE s == Snapshot[d]
<1>1. d \in Drafts /\ v = Converted(d) /\ SnapshotAccepted(s) /\ Publishable(d) /\ s \in FrozenReviews
  BY CoursePackagesAssumption DEF PublishedAs
<1>2. Storable(v)
  BY <1>1, PublishableIsStorable
<1>3. /\ v.modules = s.modules /\ v.assets = ResolvedAssets(s)
      /\ v.assessments = ResolvedAssessments(s)
  BY <1>1 DEF Converted
<1>4. \A use \in UsesOf(s) : AssetIsUsable(d, use)
  BY <1>1 DEF Publishable
<1>5. UniqueKeys(v.assets) /\ AssetEntries(v) = v.assets
  BY <1>1, <1>3, <1>4, AssetsResolve DEF AssetEntries
<1>6. UniqueKeys(v.assessments)
  BY <1>1, <1>3, AssessmentsResolve DEF SnapshotAccepted
<1> QED BY <1>2, <1>3, <1>5, <1>6

\* What the exporter and the reader find referenced is what Courses found.
LEMMA ReferencesAgree ==
  ASSUME NEW b
  PROVE  /\ ReferencesInExport(b) \subseteq {r.key : r \in AssetReferences(b)}
         /\ PackageReferences(b) = {r.key : r \in AssetReferences(b)}
<1>1. \A k, m : Use(k, m).key = k
  BY DEF Use
<1>2. CASE b.type = "IMAGE"
  BY <1>1, <1>2 DEF ReferencesInExport, PackageReferences, AssetReferences
<1>3. CASE b.type = "DOWNLOAD"
  BY <1>1, <1>3 DEF ReferencesInExport, PackageReferences, AssetReferences
<1>4. CASE b.type = "VIDEO"
  <2>1. {r.key : r \in AssetReferences(b)} =
           {b.asset, b.captions} \cup (IF b.transcript = None THEN {} ELSE {b.transcript})
    BY <1>1, <1>4 DEF AssetReferences, Transcripts
  <2>2. ReferencesInExport(b) = {b.asset, b.captions, b.transcript} \ {None}
    BY <1>4 DEF ReferencesInExport
  <2> QED BY <1>4, <2>1, <2>2 DEF PackageReferences
<1>5. CASE b.type = "AUDIO"
  <2>1. {r.key : r \in AssetReferences(b)} =
           {b.asset} \cup (IF b.transcript = None THEN {} ELSE {b.transcript})
    BY <1>1, <1>5 DEF AssetReferences, Transcripts
  <2>2. ReferencesInExport(b) = {b.asset, b.transcript} \ {None}
    BY <1>5 DEF ReferencesInExport
  <2> QED BY <1>5, <2>1, <2>2 DEF PackageReferences
<1>6. CASE b.type \notin {"IMAGE", "DOWNLOAD", "VIDEO", "AUDIO"}
  BY <1>6 DEF ReferencesInExport, PackageReferences, AssetReferences
<1> QED BY <1>2, <1>3, <1>4, <1>5, <1>6

\* A stored course leaves as a package.
LEMMA StoredIsExportable ==
  ASSUME NEW d, NEW v, PublishedAs(d, v)
  PROVE  Exportable(v)
<1>1. /\ Storable(v) /\ UniqueKeys(v.assets) /\ UniqueKeys(v.assessments)
      /\ v.modules = Snapshot[d].modules
  BY StoredCourse
<1>2. /\ v.sound /\ UniqueKeys(LessonsOf(v.modules)) /\ BoundAssets(v) /\ BoundAssessments(v)
      /\ \A l \in ToSet(LessonsOf(v.modules)) : ValidPrerequisites(l, KeysOf(LessonsOf(v.modules)))
  BY <1>1 DEF Storable
<1>3. \A b \in ToSet(v.assessments) : ValidBinding(b)
  BY <1>2 DEF BoundAssessments
<1> SUFFICES ASSUME NEW l \in ToSet(LessonsOf(v.modules))
             PROVE  /\ ValidContent(l.blocks)
                    /\ ToSet(l.requires) \subseteq KeysOf(LessonsOf(v.modules))
                    /\ \A b \in ToSet(l.blocks) :
                          /\ ReferencesInExport(b) \subseteq KeysOf(v.assets)
                          /\ b.type = "KNOWLEDGE_CHECK" => b.check \in KeysOf(v.assessments)
  BY <1>1, <1>2, <1>3 DEF Exportable
<1>4. ValidContent(l.blocks)
  BY <1>1 DEF PublishedAs, SnapshotAccepted
<1>5. ToSet(l.requires) \subseteq KeysOf(LessonsOf(v.modules))
  BY <1>2 DEF ValidPrerequisites
<1>6. ASSUME NEW b \in ToSet(l.blocks)
      PROVE  /\ ReferencesInExport(b) \subseteq KeysOf(v.assets)
             /\ b.type = "KNOWLEDGE_CHECK" => b.check \in KeysOf(v.assessments)
  <2>1. b \in BlocksOf(v.modules)
    BY DEF BlocksOf
  <2>2. {r.key : r \in AssetReferences(b)} \subseteq KeysOf(v.assets)
    BY <1>2, <2>1 DEF BoundAssets
  <2>3. b.type = "KNOWLEDGE_CHECK" => b.check \in KeysOf(v.assessments)
    BY <1>2, <2>1 DEF BoundAssessments, ChecksOf
  <2> QED BY <2>2, <2>3, ReferencesAgree
<1> QED BY <1>4, <1>5, <1>6

\* The package of a stored course holds that course, and may be read and stored elsewhere.
LEMMA PackageIsReadable ==
  ASSUME NEW d, NEW v, NEW L, PublishedAs(d, v)
  PROVE  /\ ImmutableFromPlan(PackageOf(d, v, L)) = v
         /\ Readable(PackageOf(d, v, L))
         /\ ImportableTranslations(PackageOf(d, v, L))
<1> DEFINE p == PackageOf(d, v, L)
           c == CourseIn(p)
<1>1. /\ Storable(v) /\ UniqueKeys(v.assets) /\ UniqueKeys(v.assessments)
      /\ AssetEntries(v) = v.assets /\ v.modules = Snapshot[d].modules
  BY StoredCourse
<1>2. /\ p.origin = d /\ p.license = v.license /\ p.languages = L /\ p.assets = v.assets
      /\ p.checksums = p.files
  BY <1>1 DEF PackageOf
<1>3. /\ DOMAIN p.files = {<<"course">>, <<"assessments">>} \cup {<<"assets", a.key>> : a \in ToSet(v.assets)}
                                                            \cup {<<"translations", l>> : l \in L}
      /\ c = [sound |-> v.sound, objectives |-> v.objectives, modules |-> v.modules]
      /\ AssessmentsIn(p) = v.assessments
      /\ \A a \in ToSet(v.assets) :
            p.files[<<"assets", a.key>>] = (CHOOSE b \in ToSet(v.assets) : b.key = a.key).digest
      /\ \A l \in L : p.files[<<"translations", l>>] = [source |-> d, texts |-> CountedIn(v.modules)]
  BY FilesOfPackage
<1>4. c.sound = v.sound /\ c.objectives = v.objectives /\ c.modules = v.modules
  BY <1>3
<1> HIDE DEF p, c
<1>5. ImmutableFromPlan(p) = v
  <2>1. v = [course |-> d, license |-> v.license, sound |-> v.sound, objectives |-> v.objectives,
             modules |-> v.modules, assets |-> v.assets, assessments |-> v.assessments]
    BY DEF PublishedAs, Converted
  <2> QED BY <1>2, <1>3, <1>4, <2>1 DEF ImmutableFromPlan, c
<1>6. InventoryMatches(p)
  <2>1. ASSUME NEW a \in ToSet(v.assets)
        PROVE  (CHOOSE b \in ToSet(v.assets) : b.key = a.key) = a
    BY <1>1 DEF UniqueKeys, ToSet
  <2>2. ASSUME NEW a \in ToSet(v.assets) PROVE p.files[<<"assets", a.key>>] = a.digest
    <3>1. p.files[<<"assets", a.key>>] = (CHOOSE b \in ToSet(v.assets) : b.key = a.key).digest
      BY <1>3
    <3>2. (CHOOSE b \in ToSet(v.assets) : b.key = a.key) = a
      BY <2>1
    <3> QED BY <3>1, <3>2, Zenon
  <2> QED BY <1>1, <1>2, <1>3, <2>2 DEF InventoryMatches
<1>7. ReadableStructure(c)
  <2>1. SnapshotAccepted(Snapshot[d]) /\ Storable(v)
    BY <1>1 DEF PublishedAs
  <2>2. /\ v.sound /\ v.objectives > 0 /\ UniqueKeys(v.modules) /\ InPlace(v.modules)
        /\ UniqueKeys(LessonsOf(v.modules))
        /\ \A m \in ToSet(v.modules) : m.sound /\ InPlace(m.lessons)
        /\ \A l \in ToSet(LessonsOf(v.modules)) :
              l.sound /\ ValidContent(l.blocks) /\ ValidPrerequisites(l, KeysOf(LessonsOf(v.modules)))
    BY <1>1, <2>1 DEF SnapshotAccepted, Storable
  <2>3. \A l \in ToSet(LessonsOf(v.modules)) : l.objectives > 0
    BY <2>1, LessonsArePlaced DEF Storable
  <2> QED BY <1>4, <2>2, <2>3 DEF ReadableStructure
<1>8. ReadableAssessments(p)
  <2>1. BoundAssessments(v)
    BY <1>1 DEF Storable
  <2> QED BY <1>1, <1>3, <1>4, <2>1 DEF BoundAssessments, ReadableAssessments, c
<1>9. ReadableAssets(p)
  <2>1. KeysOf(v.assets) = {r.key : r \in UNION {AssetReferences(b) : b \in BlocksOf(v.modules)}}
    BY <1>1 DEF Storable, BoundAssets
  <2>2. UNION {PackageReferences(b) : b \in BlocksOf(v.modules)} = KeysOf(v.assets)
    BY <2>1, ReferencesAgree
  <2> QED BY <1>2, <1>4, <2>2 DEF ReadableAssets, c
<1>10. \A l \in L : p.files[<<"translations", l>>].source = d
                    /\ p.files[<<"translations", l>>].texts = CountedIn(v.modules)
  <2> TAKE l \in L
  <2> DEFINE text == [source |-> d, texts |-> CountedIn(v.modules)]
  <2>1. p.files[<<"translations", l>>] = text
    BY <1>3
  <2>2. text.source = d /\ text.texts = CountedIn(v.modules)
    OBVIOUS
  <2> HIDE DEF text
  <2>3. p.files[<<"translations", l>>].source = text.source
    BY <2>1, Zenon
  <2>4. p.files[<<"translations", l>>].texts = text.texts
    BY <2>1, Zenon
  <2> QED BY <2>2, <2>3, <2>4, Zenon
<1>11. \A l \in p.languages : ReadableTranslation(p, l)
  BY <1>2, <1>4, <1>10, RequiredIsCounted DEF ReadableTranslation, c
<1>12. ImportableTranslations(p)
  BY <1>2, <1>4, <1>10 DEF ImportableTranslations, c
<1> QED BY <1>5, <1>6, <1>7, <1>8, <1>9, <1>11, <1>12 DEF Readable, p, c

-----------------------------------------------------------------------------
(* The invariant of the stations *)

PackageSteps ==
    {"resting", "checking", "locking", "locked", "inserted", "answered", "collided", "conflict", "pluginMissing"}

HoldingSteps == {"locked", "inserted"}

JobNames == {"step", "package", "record", "left", "unseen"}

JobFields(j) == j = [f \in JobNames |-> j[f]]

\* A request is at a step that a course reaches, with a package and a record that are there.
\* What it has not seen available, of A, it has still to look up.
JobHolds(j, P, I, A) ==
  /\ JobFields(j) /\ j.step \in PackageSteps
  /\ j.package \in P \cup {None} /\ j.record \in I \cup {None}
  /\ j.step # "resting" => j.package \in P
  /\ j.step = "answered" => j.record \in I /\ j.record.origin = j.package.origin
  /\ j.step # "checking" => j.left = {}
  /\ j.left # {} => j.left \subseteq WidgetsOf(j.package)
  /\ j.unseen \subseteq j.left \ A

\* Whoever holds the lock of a course is alone with it, and found no import of it.
LocksHold ==
  /\ \A r \in ImportsAt(HoldingSteps) : \A i \in imports : i.origin # job[r].package.origin
  /\ \A r, s \in ImportsAt(HoldingSteps) : job[r].package.origin = job[s].package.origin => r = s

VersionsHold ==
  /\ trees \in [Drafts -> SUBSET TargetLanguages]
  /\ DOMAIN versions \subseteq Drafts
  /\ \A d \in DOMAIN versions : PublishedAs(d, versions[d])

PackagesHold ==
  /\ previews \subseteq packages
  /\ \A p \in packages :
        /\ p.origin \in DOMAIN versions /\ p.languages \subseteq TargetLanguages
        /\ p = PackageOf(p.origin, versions[p.origin], p.languages)

ImportsHold ==
  /\ \A i \in imports : i.origin \in DOMAIN versions /\ i.version = versions[i.origin]
  /\ \A i, j \in imports : i.origin = j.origin => i = j

JobsHold ==
  /\ DOMAIN job = Requests /\ available \subseteq Widgets
  /\ \A r \in Requests : JobHolds(job[r], packages, imports, available)

PackagesInv == VersionsHold /\ PackagesHold /\ ImportsHold /\ JobsHold /\ LocksHold

\* The parts of a request.
LEMMA AtFields ==
  /\ \A step, p :
        /\ JobFields(At(step, p)) /\ At(step, p).step = step /\ At(step, p).package = p
        /\ At(step, p).record = None /\ At(step, p).left = {} /\ At(step, p).unseen = {}
  /\ Resting.step = "resting" /\ Resting.package = None /\ Resting.record = None
  /\ JobFields(Resting) /\ Resting.left = {} /\ Resting.unseen = {}
BY DEF At, Resting, JobFields, JobNames

Stepped(j, s) == [j EXCEPT !.step = s]

Recorded(j, i) == [j EXCEPT !.record = i]

Checking(j, L, U) == [[j EXCEPT !.left = L] EXCEPT !.unseen = U]

\* A request of which one part changes keeps the others.
LEMMA ChangedFields ==
  ASSUME NEW j, JobFields(j), NEW s, NEW i, NEW L, NEW U
  PROVE  /\ JobFields(Stepped(j, s)) /\ Stepped(j, s).step = s /\ Stepped(j, s).package = j.package
         /\ Stepped(j, s).record = j.record /\ Stepped(j, s).left = j.left /\ Stepped(j, s).unseen = j.unseen
         /\ JobFields(Recorded(j, i)) /\ Recorded(j, i).step = j.step /\ Recorded(j, i).package = j.package
         /\ Recorded(j, i).record = i /\ Recorded(j, i).left = j.left /\ Recorded(j, i).unseen = j.unseen
         /\ JobFields(Checking(j, L, U)) /\ Checking(j, L, U).step = j.step
         /\ Checking(j, L, U).package = j.package /\ Checking(j, L, U).record = j.record
         /\ Checking(j, L, U).left = L /\ Checking(j, L, U).unseen = U
<1>1. JobFields(Stepped(j, s)) /\ Stepped(j, s).step = s /\ Stepped(j, s).package = j.package
      /\ Stepped(j, s).record = j.record /\ Stepped(j, s).left = j.left /\ Stepped(j, s).unseen = j.unseen
  BY DEF Stepped, JobFields, JobNames
<1>2. JobFields(Recorded(j, i)) /\ Recorded(j, i).step = j.step /\ Recorded(j, i).package = j.package
      /\ Recorded(j, i).record = i /\ Recorded(j, i).left = j.left /\ Recorded(j, i).unseen = j.unseen
  BY DEF Recorded, JobFields, JobNames
<1>3. JobFields(Checking(j, L, U)) /\ Checking(j, L, U).step = j.step
      /\ Checking(j, L, U).package = j.package /\ Checking(j, L, U).record = j.record
      /\ Checking(j, L, U).left = L /\ Checking(j, L, U).unseen = U
  BY DEF Checking, JobFields, JobNames
<1> QED BY <1>1, <1>2, <1>3

\* A request that changes to one that holds leaves all of them holding.
LEMMA JobChanges ==
  ASSUME JobsHold, NEW r \in Requests, NEW j,
         packages \subseteq packages', imports \subseteq imports', available' = available,
         JobHolds(j, packages', imports', available), job' = [job EXCEPT ![r] = j]
  PROVE  /\ JobsHold'
         /\ job'[r] = j /\ \A s \in Requests : s # r => job'[s] = job[s]
<1>1. /\ DOMAIN job' = Requests
      /\ job'[r] = j /\ \A s \in Requests : s # r => job'[s] = job[s]
  BY DEF JobsHold
<1>2. \A s \in Requests : JobHolds(job'[s], packages', imports', available)
  <2> SUFFICES ASSUME NEW s \in Requests, s # r PROVE JobHolds(job[s], packages', imports', available)
    BY <1>1
  <2>1. JobHolds(job[s], packages, imports, available)
    BY DEF JobsHold
  <2> QED BY <2>1 DEF JobHolds
<1> QED BY <1>1, <1>2 DEF JobsHold

\* A request that does not come to hold a lock disturbs none.
LEMMA LocksStay ==
  ASSUME JobsHold, LocksHold, NEW r \in Requests, job'[r].step \notin HoldingSteps,
         \A s \in Requests : s # r => job'[s] = job[s], imports' = imports
  PROVE  LocksHold'
<1>1. \A s \in ImportsAt(HoldingSteps)' : s \in ImportsAt(HoldingSteps) /\ job'[s] = job[s]
  BY DEF ImportsAt
<1> QED BY <1>1 DEF LocksHold

\* Requests that are left alone, with what they refer to, hold on.
LEMMA JobsStay ==
  ASSUME JobsHold, LocksHold, job' = job,
         packages \subseteq packages', imports' = imports, available' = available
  PROVE  JobsHold' /\ LocksHold'
BY DEF JobsHold, LocksHold, ImportsAt, JobHolds

\* A published course is stored: the author was told of everything.
LEMMA PublishKeeps ==
  ASSUME PackagesInv, NEW r \in Requests, NEW d \in Drafts, PublishCourse(r, d)
  PROVE  PackagesInv'
<1>1. /\ d \notin DOMAIN versions /\ SnapshotAccepted(Snapshot[d]) /\ Publishable(d)
      /\ UNCHANGED <<trees, packages, previews, imports, available>>
  BY DEF PublishCourse
<1>2. PublishedAs(d, Converted(d))
  BY <1>1 DEF PublishedAs
<1>3. Storable(Converted(d))
  BY <1>1, PublishableIsStorable
<1>4. /\ versions' = [e \in DOMAIN versions \cup {d} |-> IF e = d THEN Converted(d) ELSE versions[e]]
      /\ job' = job
  BY <1>3 DEF PublishCourse
<1>5. /\ DOMAIN versions' = DOMAIN versions \cup {d} /\ versions'[d] = Converted(d)
      /\ \A e \in DOMAIN versions : versions'[e] = versions[e]
  BY <1>1, <1>4
<1>6. VersionsHold'
  BY <1>1, <1>2, <1>5 DEF PackagesInv, VersionsHold
<1>7. PackagesHold'
  BY <1>1, <1>5 DEF PackagesInv, PackagesHold
<1>8. ImportsHold'
  BY <1>1, <1>5 DEF PackagesInv, ImportsHold
<1>9. JobsHold' /\ LocksHold'
  BY <1>1, <1>4, JobsStay DEF PackagesInv
<1> QED BY <1>6, <1>7, <1>8, <1>9 DEF PackagesInv

\* A translation of a published course is published.
LEMMA TreeKeeps ==
  ASSUME PackagesInv, NEW d \in Drafts, NEW l \in TargetLanguages, PublishTree(d, l)
  PROVE  PackagesInv'
<1>1. /\ trees' = [trees EXCEPT ![d] = @ \cup {l}]
      /\ UNCHANGED <<versions, packages, previews, imports, job, available>>
  BY DEF PublishTree
<1>2. trees' \in [Drafts -> SUBSET TargetLanguages]
  BY <1>1 DEF PackagesInv, VersionsHold
<1>3. VersionsHold' /\ PackagesHold' /\ ImportsHold'
  BY <1>1, <1>2 DEF PackagesInv, VersionsHold, PackagesHold, ImportsHold
<1>4. JobsHold' /\ LocksHold'
  BY <1>1, JobsStay DEF PackagesInv
<1> QED BY <1>3, <1>4 DEF PackagesInv

\* A stored course is exported: nothing stands against it.
LEMMA ExportKeeps ==
  ASSUME PackagesInv, NEW r \in Requests, NEW d \in Drafts, Export(r, d)
  PROVE  PackagesInv'
<1> DEFINE p == PackageOf(d, versions[d], trees[d])
<1>1. d \in DOMAIN versions /\ UNCHANGED <<versions, trees, previews, imports, available>>
  BY DEF Export
<1>2. PublishedAs(d, versions[d])
  BY <1>1 DEF PackagesInv, VersionsHold
<1>3. Exportable(versions[d])
  BY <1>2, StoredIsExportable
<1>4. packages' = packages \cup {p} /\ job' = job
  BY <1>3 DEF Export
<1>5. p.origin = d /\ p.languages = trees[d]
  BY DEF PackageOf
<1>6. trees[d] \subseteq TargetLanguages
  BY DEF PackagesInv, VersionsHold
<1>7. VersionsHold' /\ ImportsHold'
  BY <1>1 DEF PackagesInv, VersionsHold, ImportsHold
<1>8. p = PackageOf(p.origin, versions[p.origin], p.languages)
  BY <1>5
<1> HIDE DEF p
<1>9. PackagesHold'
  BY <1>1, <1>4, <1>5, <1>6, <1>8 DEF PackagesInv, PackagesHold
<1>10. JobsHold' /\ LocksHold'
  BY <1>1, <1>4, JobsStay DEF PackagesInv
<1> QED BY <1>7, <1>9, <1>10 DEF PackagesInv

\* A package is what an academy has written of a stored course.
LEMMA PackagesAreStored ==
  ASSUME PackagesInv, NEW p \in packages
  PROVE  /\ p.origin \in DOMAIN versions /\ PublishedAs(p.origin, versions[p.origin])
         /\ ImmutableFromPlan(p) = versions[p.origin]
         /\ Readable(p) /\ ImportableTranslations(p)
<1>1. p.origin \in DOMAIN versions /\ PublishedAs(p.origin, versions[p.origin])
  BY DEF PackagesInv, PackagesHold, VersionsHold
<1>2. p = PackageOf(p.origin, versions[p.origin], p.languages)
  BY DEF PackagesInv, PackagesHold
<1> DEFINE v == versions[p.origin]
           L == p.languages
           d == p.origin
           q == PackageOf(d, v, L)
<1>3. ImmutableFromPlan(q) = v /\ Readable(q) /\ ImportableTranslations(q)
  BY <1>1, PackageIsReadable
<1>4. q = p
  BY <1>2
<1> HIDE DEF q
<1> QED BY <1>1, <1>3, <1>4

\* The reader of another academy takes every package.
LEMMA PreviewKeeps ==
  ASSUME PackagesInv, NEW r \in Requests, NEW p \in packages, PreviewPackage(r, p)
  PROVE  PackagesInv'
<1>1. Readable(p)
  BY PackagesAreStored
<1>2. previews' = previews \cup {p} /\ UNCHANGED <<versions, trees, packages, imports, job, available>>
  BY <1>1 DEF PreviewPackage
<1>3. VersionsHold' /\ PackagesHold' /\ ImportsHold'
  BY <1>2 DEF PackagesInv, VersionsHold, PackagesHold, ImportsHold
<1>4. JobsHold' /\ LocksHold'
  BY <1>2, JobsStay DEF PackagesInv
<1> QED BY <1>3, <1>4 DEF PackagesInv

\* A token ends.
LEMMA ForgetKeeps ==
  ASSUME PackagesInv, NEW p \in previews, ForgetPreview(p)
  PROVE  PackagesInv'
<1>1. previews' = previews \ {p} /\ UNCHANGED <<versions, trees, packages, imports, job, available>>
  BY DEF ForgetPreview
<1>2. VersionsHold' /\ PackagesHold' /\ ImportsHold'
  BY <1>1 DEF PackagesInv, VersionsHold, PackagesHold, ImportsHold
<1>3. JobsHold' /\ LocksHold'
  BY <1>1, JobsStay DEF PackagesInv
<1> QED BY <1>2, <1>3 DEF PackagesInv

\* A request that goes on without a lock, and changes nothing else, keeps the invariant.
LEMMA RequestKeeps ==
  ASSUME PackagesInv, NEW r \in Requests, NEW j, JobHolds(j, packages, imports, available),
         j.step \notin HoldingSteps,
         job' = [job EXCEPT ![r] = j], previews' \subseteq previews,
         UNCHANGED <<versions, trees, packages, imports, available>>
  PROVE  PackagesInv'
<1>1. /\ JobsHold' /\ job'[r] = j /\ \A s \in Requests : s # r => job'[s] = job[s]
  <2>1. JobsHold /\ packages \subseteq packages' /\ imports \subseteq imports' /\ available' = available
        /\ JobHolds(j, packages', imports', available)
    BY DEF PackagesInv
  <2> QED BY <2>1, JobChanges
<1>2. LocksHold'
  <2>1. JobsHold /\ LocksHold /\ job'[r].step \notin HoldingSteps
    BY <1>1 DEF PackagesInv
  <2> QED BY <1>1, <2>1, LocksStay
<1>3. VersionsHold' /\ PackagesHold' /\ ImportsHold'
  BY DEF PackagesInv, VersionsHold, PackagesHold, ImportsHold
<1> QED BY <1>1, <1>2, <1>3 DEF PackagesInv

\* A request that stops with a package, or goes on without widgets to look up.
LEMMA AtHolds ==
  ASSUME NEW p \in packages, NEW step \in PackageSteps \ {"answered"}
  PROVE  /\ JobHolds(At(step, p), packages, imports, available)
         /\ At(step, p).step = step /\ At(step, p).package = p
BY AtFields DEF JobHolds

\* A request with no widget to look up goes on.
LEMMA SteppedHolds ==
  ASSUME PackagesInv, NEW r \in Requests, job[r].step # "resting", job[r].left = {},
         NEW step \in PackageSteps \ {"answered", "resting"}
  PROVE  /\ JobHolds(Stepped(job[r], step), packages, imports, available)
         /\ Stepped(job[r], step).step = step /\ Stepped(job[r], step).package = job[r].package
<1>1. JobHolds(job[r], packages, imports, available)
  BY DEF PackagesInv, JobsHold
<1>2. JobFields(job[r])
  BY <1>1 DEF JobHolds
<1> QED BY <1>1, <1>2, ChangedFields DEF JobHolds

\* What a known fingerprint answers with is of the same course, or nothing.
LEMMA ReplayHolds ==
  ASSUME NEW p \in packages, NEW i \in imports
  PROVE  /\ JobHolds(ReplayImport(p, i), packages, imports, available)
         /\ ReplayImport(p, i).step \notin HoldingSteps
<1>1. CASE i.origin = p.origin
  <2>1. ReplayImport(p, i) = Recorded(At("answered", p), i)
    BY <1>1 DEF ReplayImport, Recorded
  <2>2. JobFields(At("answered", p))
    BY AtFields
  <2> DEFINE j == Recorded(At("answered", p), i)
  <2>3. /\ JobFields(j) /\ j.step = "answered" /\ j.package = p /\ j.record = i
        /\ j.left = {} /\ j.unseen = {}
    BY <2>2, AtFields, ChangedFields
  <2> HIDE DEF j
  <2>4. JobHolds(j, packages, imports, available) /\ j.step \notin HoldingSteps
    BY <1>1, <2>3 DEF JobHolds, PackageSteps, HoldingSteps
  <2> QED BY <2>1, <2>4 DEF j
<1>2. CASE i.origin # p.origin
  <2>1. ReplayImport(p, i) = At("collided", p)
    BY <1>2 DEF ReplayImport
  <2> QED BY <2>1, AtHolds DEF PackageSteps, HoldingSteps
<1> QED BY <1>1, <1>2

\* The releases of another academy change: what a request has seen it has seen.
LEMMA ReleaseKeeps ==
  ASSUME PackagesInv, NEW w \in Widgets, ChangeRelease(w)
  PROVE  PackagesInv'
<1>1. /\ available' \subseteq Widgets /\ UNCHANGED <<versions, trees, packages, previews, imports>>
      /\ job' = [r \in Requests |-> [job[r] EXCEPT !.unseen = job[r].unseen \ available']]
  BY DEF ChangeRelease, PackagesInv, JobsHold
<1>2. ASSUME NEW r \in Requests
      PROVE  /\ JobHolds(job'[r], packages, imports, available')
             /\ job'[r].step = job[r].step /\ job'[r].package = job[r].package
  <2> DEFINE j == job[r]
             U == j.unseen \ available'
             k == [j EXCEPT !.unseen = U]
  <2>1. JobHolds(j, packages, imports, available)
    BY DEF PackagesInv, JobsHold
  <2>2. job'[r] = k
    BY <1>1
  <2>3. JobFields(k) /\ k.step = j.step /\ k.package = j.package /\ k.record = j.record /\ k.left = j.left
        /\ k.unseen = U
    BY <2>1 DEF JobHolds, JobFields, JobNames
  <2> HIDE DEF k
  <2>4. JobHolds(k, packages, imports, available')
    BY <2>1, <2>3 DEF JobHolds
  <2> QED BY <2>2, <2>3, <2>4
<1>3. JobsHold'
  BY <1>1, <1>2 DEF JobsHold
<1>4. LocksHold'
  <2>1. imports' = imports /\ LocksHold
    BY <1>1 DEF PackagesInv
  <2>2. \A r \in Requests : job'[r].step = job[r].step /\ job'[r].package = job[r].package
    BY <1>2
  <2>3. \A r \in ImportsAt(HoldingSteps)' :
            r \in ImportsAt(HoldingSteps) /\ job'[r].package.origin = job[r].package.origin
    BY <2>2 DEF ImportsAt, HoldingSteps
  <2> QED BY <2>1, <2>3 DEF LocksHold
<1>5. VersionsHold' /\ PackagesHold' /\ ImportsHold'
  BY <1>1 DEF PackagesInv, VersionsHold, PackagesHold, ImportsHold
<1> QED BY <1>3, <1>4, <1>5 DEF PackagesInv

\* An import begins, with every widget of the package to look up.
LEMMA BeginKeeps ==
  ASSUME PackagesInv, NEW r \in Requests, NEW p \in previews, BeginExecute(r, p)
  PROVE  PackagesInv'
<1> DEFINE j == Checking(At("checking", p), WidgetsOf(p), WidgetsOf(p) \ available)
<1>1. p \in packages
  BY DEF PackagesInv, PackagesHold
<1>2. UNCHANGED <<versions, trees, packages, previews, imports, available>> /\ job' = [job EXCEPT ![r] = j]
  BY DEF BeginExecute, Checking
<1>3. JobFields(At("checking", p))
  BY AtFields
<1>4. /\ JobFields(j) /\ j.step = "checking" /\ j.package = p /\ j.record = None
      /\ j.left = WidgetsOf(p) /\ j.unseen = WidgetsOf(p) \ available
  BY <1>3, AtFields, ChangedFields
<1> HIDE DEF j
<1>5. JobHolds(j, packages, imports, available) /\ j.step \notin HoldingSteps
  BY <1>1, <1>4 DEF JobHolds, PackageSteps, HoldingSteps
<1> QED BY <1>2, <1>5, RequestKeeps

\* A widget is looked up: it is available, or the import ends.
LEMMA CheckKeeps ==
  ASSUME PackagesInv, NEW r \in Requests, CheckWidget(r)
  PROVE  PackagesInv'
<1>1. /\ JobHolds(job[r], packages, imports, available) /\ job[r].step = "checking"
      /\ UNCHANGED <<versions, trees, packages, previews, imports, available>>
  BY DEF CheckWidget, PackagesInv, JobsHold
<1>2. job[r].package \in packages /\ JobFields(job[r])
  BY <1>1 DEF JobHolds
<1>3. PICK w \in job[r].left :
          job' = [job EXCEPT ![r] = IF w \in available THEN [job[r] EXCEPT !.left = job[r].left \ {w}]
                                                       ELSE At("pluginMissing", job[r].package)]
  BY DEF CheckWidget, PackagesInv, JobsHold
<1>4. CASE w \in available
  <2> DEFINE j == [job[r] EXCEPT !.left = job[r].left \ {w}]
  <2>1. job' = [job EXCEPT ![r] = j]
    BY <1>3, <1>4
  <2>2. /\ JobFields(j) /\ j.step = "checking" /\ j.package = job[r].package /\ j.record = job[r].record
        /\ j.left = job[r].left \ {w} /\ j.unseen = job[r].unseen
    BY <1>1, <1>2 DEF JobFields, JobNames
  <2> HIDE DEF j
  <2>3. JobHolds(j, packages, imports, available) /\ j.step \notin HoldingSteps
    BY <1>1, <1>4, <2>2 DEF JobHolds, HoldingSteps
  <2> QED BY <1>1, <2>1, <2>3, RequestKeeps
<1>5. CASE w \notin available
  <2>1. job' = [job EXCEPT ![r] = At("pluginMissing", job[r].package)]
    BY <1>3, <1>5
  <2>2. /\ JobHolds(At("pluginMissing", job[r].package), packages, imports, available)
        /\ At("pluginMissing", job[r].package).step \notin HoldingSteps
    BY <1>2, AtHolds DEF PackageSteps, HoldingSteps
  <2> QED BY <1>1, <2>1, <2>2, RequestKeeps
<1> QED BY <1>4, <1>5

\* Every widget was found; the import is known, or goes for the lock.
LEMMA LookUpKeeps ==
  ASSUME PackagesInv, NEW r \in Requests, LookUpImport(r)
  PROVE  PackagesInv'
<1> DEFINE p == job[r].package
<1>1. p \in packages /\ job[r].step = "checking" /\ job[r].left = {}
  BY DEF PackagesInv, JobsHold, JobHolds, LookUpImport
<1>2. UNCHANGED <<versions, trees, packages, previews, imports, available>>
  BY DEF LookUpImport
<1>3. CASE job' = [job EXCEPT ![r] = Stepped(job[r], "locking")]
  <2>1. /\ JobHolds(Stepped(job[r], "locking"), packages, imports, available)
        /\ Stepped(job[r], "locking").step \notin HoldingSteps
    BY <1>1, SteppedHolds DEF PackageSteps, HoldingSteps
  <2> QED BY <1>2, <1>3, <2>1, RequestKeeps
<1>4. ASSUME NEW i \in RecordsOf(Fingerprint(p)), job' = [job EXCEPT ![r] = ReplayImport(p, i)]
      PROVE  PackagesInv'
  <2>1. i \in imports
    BY DEF RecordsOf
  <2> QED BY <1>1, <1>2, <1>4, <2>1, ReplayHolds, RequestKeeps
<1> QED BY <1>3, <1>4 DEF LookUpImport, Stepped

\* The lock of a course is taken, or the course is there already.
LEMMA LockKeeps ==
  ASSUME PackagesInv, NEW r \in Requests, LockOrigin(r)
  PROVE  PackagesInv'
<1> DEFINE p == job[r].package
<1>1. p \in packages /\ JobsHold /\ LocksHold /\ job[r].step = "locking" /\ job[r].left = {}
  BY DEF PackagesInv, JobsHold, JobHolds, LockOrigin
<1>2. UNCHANGED <<versions, trees, packages, previews, imports, available>>
  BY DEF LockOrigin
<1>3. CASE job' = [job EXCEPT ![r] = Stepped(job[r], "conflict")]
  <2>1. /\ JobHolds(Stepped(job[r], "conflict"), packages, imports, available)
        /\ Stepped(job[r], "conflict").step \notin HoldingSteps
    BY <1>1, SteppedHolds DEF PackageSteps, HoldingSteps
  <2> QED BY <1>2, <1>3, <2>1, RequestKeeps
<1>4. ASSUME NEW i \in RecordsOf(Fingerprint(p)), job' = [job EXCEPT ![r] = ReplayImport(p, i)]
      PROVE  PackagesInv'
  <2>1. i \in imports
    BY DEF RecordsOf
  <2> QED BY <1>1, <1>2, <1>4, <2>1, ReplayHolds, RequestKeeps
<1>5. CASE /\ job' = [job EXCEPT ![r] = Stepped(job[r], "locked")]
           /\ ~ \E i \in imports : i.origin = p.origin
  <2>0. JobHolds(Stepped(job[r], "locked"), packages, imports, available) /\ Stepped(job[r], "locked").package = p
    BY <1>1, SteppedHolds DEF PackageSteps
  <2>1. JobHolds(Stepped(job[r], "locked"), packages', imports', available)
    BY <1>2, <2>0
  <2>2. /\ JobsHold' /\ job'[r] = Stepped(job[r], "locked")
        /\ \A s \in Requests : s # r => job'[s] = job[s]
    BY <1>1, <1>2, <1>5, <2>1, JobChanges
  <2>3. \A s \in ImportsAt(HoldingSteps)' : s # r =>
           s \in ImportsAt(HoldingSteps) /\ job'[s] = job[s] /\ job[s].package.origin # p.origin
    BY <2>2 DEF ImportsAt, HoldingSteps, LockOrigin
  <2>4. LocksHold'
    <3>1. job'[r].package = p
      BY <2>0, <2>2
    <3> HIDE DEF p
    <3>2. \A s \in ImportsAt(HoldingSteps)' : \A i \in imports' : i.origin # job'[s].package.origin
      BY <1>1, <1>2, <1>5, <2>3, <3>1 DEF LocksHold
    <3>3. \A s, t \in ImportsAt(HoldingSteps)' : job'[s].package.origin = job'[t].package.origin => s = t
      BY <1>1, <2>3, <3>1 DEF LocksHold
    <3> QED BY <3>2, <3>3 DEF LocksHold
  <2>5. VersionsHold' /\ PackagesHold' /\ ImportsHold'
    BY <1>2 DEF PackagesInv, VersionsHold, PackagesHold, ImportsHold
  <2> QED BY <2>2, <2>4, <2>5 DEF PackagesInv
<1> QED BY <1>3, <1>4, <1>5 DEF LockOrigin, Stepped

\* The record of an import is inserted under the lock.
LEMMA InsertKeeps ==
  ASSUME PackagesInv, NEW r \in Requests, InsertRecord(r)
  PROVE  PackagesInv'
<1> DEFINE p == job[r].package
<1>1. p \in packages /\ JobsHold /\ LocksHold /\ r \in ImportsAt(HoldingSteps)
      /\ job[r].step = "locked" /\ job[r].left = {}
  BY DEF PackagesInv, JobsHold, JobHolds, InsertRecord, ImportsAt, HoldingSteps
<1>2. UNCHANGED <<versions, trees, packages, previews, imports, available>>
  BY DEF InsertRecord
<1>3. CASE job' = [job EXCEPT ![r] = Stepped(job[r], "collided")]
  <2>1. /\ JobHolds(Stepped(job[r], "collided"), packages, imports, available)
        /\ Stepped(job[r], "collided").step \notin HoldingSteps
    BY <1>1, SteppedHolds DEF PackageSteps, HoldingSteps
  <2> QED BY <1>2, <1>3, <2>1, RequestKeeps
<1>4. CASE job' = [job EXCEPT ![r] = Stepped(job[r], "inserted")]
  <2>0. JobHolds(Stepped(job[r], "inserted"), packages, imports, available) /\ Stepped(job[r], "inserted").package = p
    BY <1>1, SteppedHolds DEF PackageSteps
  <2>1. JobHolds(Stepped(job[r], "inserted"), packages', imports', available)
    BY <1>2, <2>0
  <2>2. /\ JobsHold' /\ job'[r] = Stepped(job[r], "inserted")
        /\ \A s \in Requests : s # r => job'[s] = job[s]
    BY <1>1, <1>2, <1>4, <2>1, JobChanges
  <2>3. job'[r].package = p
    BY <2>0, <2>2
  <2>4. \A s \in ImportsAt(HoldingSteps)' : s \in ImportsAt(HoldingSteps) /\ job'[s].package = job[s].package
    BY <1>1, <2>2, <2>3 DEF ImportsAt
  <2>5. LocksHold'
    BY <1>1, <1>2, <2>4 DEF LocksHold
  <2>6. VersionsHold' /\ PackagesHold' /\ ImportsHold'
    BY <1>2 DEF PackagesInv, VersionsHold, PackagesHold, ImportsHold
  <2> QED BY <2>2, <2>5, <2>6 DEF PackagesInv
<1>5. \/ job' = [job EXCEPT ![r] = Stepped(job[r], "collided")]
      \/ job' = [job EXCEPT ![r] = Stepped(job[r], "inserted")]
  BY DEF InsertRecord, Stepped
<1> QED BY <1>3, <1>4, <1>5

\* The course arrives: it is stored as it was at home.
LEMMA StoreKeeps ==
  ASSUME PackagesInv, NEW r \in Requests, StoreImport(r)
  PROVE  PackagesInv'
<1> DEFINE p == job[r].package
           record == [fingerprint |-> Fingerprint(p), origin |-> p.origin,
                      version |-> ImmutableFromPlan(p), languages |-> p.languages]
           j == Recorded(At("answered", p), record)
<1>1. p \in packages /\ JobsHold /\ LocksHold /\ r \in ImportsAt(HoldingSteps)
  BY DEF PackagesInv, JobsHold, JobHolds, StoreImport, ImportsAt, HoldingSteps
<1>2. /\ p.origin \in DOMAIN versions /\ PublishedAs(p.origin, versions[p.origin])
      /\ ImmutableFromPlan(p) = versions[p.origin] /\ ImportableTranslations(p)
  BY <1>1, PackagesAreStored
<1>3. Storable(ImmutableFromPlan(p))
  BY <1>2, StoredCourse
<1>4. /\ imports' = imports \cup {record} /\ job' = [job EXCEPT ![r] = j]
      /\ UNCHANGED <<versions, trees, packages, previews, available>>
  BY <1>2, <1>3 DEF StoreImport, Recorded
<1>5. record.origin = p.origin /\ record.version = versions[p.origin]
  BY <1>2
<1>6. /\ JobFields(j) /\ j.step = "answered" /\ j.package = p /\ j.record = record
      /\ j.left = {} /\ j.unseen = {}
  <2>1. JobFields(At("answered", p))
    BY AtFields
  <2> HIDE DEF record
  <2> QED BY <2>1, AtFields, ChangedFields
<1>7. \A i \in imports : i.origin # p.origin
  BY <1>1 DEF LocksHold
<1> HIDE DEF record, j
<1>8. JobHolds(j, packages', imports', available)
  BY <1>1, <1>4, <1>5, <1>6 DEF JobHolds, PackageSteps
<1>9. JobsHold' /\ job'[r] = j /\ \A s \in Requests : s # r => job'[s] = job[s]
  BY <1>1, <1>4, <1>8, JobChanges
<1>10. \A s \in ImportsAt(HoldingSteps)' :
          s # r /\ s \in ImportsAt(HoldingSteps) /\ job'[s] = job[s] /\ job[s].package.origin # p.origin
  <2>1. \A s \in ImportsAt(HoldingSteps)' : s # r /\ s \in ImportsAt(HoldingSteps) /\ job'[s] = job[s]
    BY <1>6, <1>9 DEF ImportsAt, HoldingSteps
  <2> QED BY <1>1, <2>1 DEF LocksHold
<1>11. LocksHold'
  BY <1>1, <1>4, <1>5, <1>10 DEF LocksHold
<1>12. ImportsHold'
  BY <1>2, <1>4, <1>5, <1>7 DEF PackagesInv, ImportsHold
<1>13. VersionsHold' /\ PackagesHold'
  BY <1>4 DEF PackagesInv, VersionsHold, PackagesHold
<1> QED BY <1>9, <1>11, <1>12, <1>13 DEF PackagesInv

\* A request ends, answered or not.
LEMMA EndKeeps ==
  ASSUME PackagesInv, NEW r \in Requests, AnswerExecute(r) \/ EndRequest(r)
  PROVE  PackagesInv'
<1>1. /\ job' = [job EXCEPT ![r] = Resting] /\ previews' \subseteq previews
      /\ UNCHANGED <<versions, trees, packages, imports, available>>
  BY DEF AnswerExecute, EndRequest
<1>2. JobHolds(Resting, packages, imports, available) /\ Resting.step \notin HoldingSteps
  BY AtFields DEF JobHolds, PackageSteps, HoldingSteps
<1> QED BY <1>1, <1>2, RequestKeeps

\* Every step keeps the invariant.
LEMMA PackagesKeep ==
  ASSUME PackagesInv, [PackagesNext]_packageVars
  PROVE  PackagesInv'
<1>1. CASE UNCHANGED packageVars
  BY <1>1 DEF packageVars, PackagesInv, VersionsHold, PackagesHold, ImportsHold, JobsHold, LocksHold, ImportsAt
<1>2. CASE PackagesNext
  BY <1>2, PublishKeeps, ExportKeeps, TreeKeeps, PreviewKeeps, ForgetKeeps, ReleaseKeeps, BeginKeeps,
     CheckKeeps, LookUpKeeps, LockKeeps, InsertKeeps, StoreKeeps, EndKeeps DEF PackagesNext
<1> QED BY <1>1, <1>2

\* It holds of an academy that has published nothing.
LEMMA PackagesStart ==
  ASSUME PackagesInit
  PROVE  PackagesInv
<1>1. DOMAIN versions = {}
  BY DEF PackagesInit
<1>2. DOMAIN job = Requests /\ \A r \in Requests : job[r] = Resting
  BY DEF PackagesInit
<1>3. VersionsHold /\ PackagesHold /\ ImportsHold
  BY <1>1 DEF PackagesInit, VersionsHold, PackagesHold, ImportsHold
<1>4. JobsHold
  BY <1>2, AtFields DEF PackagesInit, JobsHold, JobHolds, PackageSteps
<1>5. LocksHold
  BY <1>2, AtFields DEF LocksHold, ImportsAt, HoldingSteps
<1> QED BY <1>3, <1>4, <1>5 DEF PackagesInv

\* The invariant holds throughout.
LEMMA PackagesInvariant == PackagesSpec => []PackagesInv
BY PackagesStart, PackagesKeep, PTL DEF PackagesSpec

\* Every variable of the course packages has its type.
THEOREM PackagesTypeCorrect == PackagesSpec => []PackagesTypeOK
<1>1. PackagesInv => PackagesTypeOK
  BY DEF PackagesInv, VersionsHold, PackagesHold, ImportsHold, JobsHold, JobHolds, PackageSteps, PackagesTypeOK
<1> QED BY <1>1, PackagesInvariant, PTL

\* The rules for the content of a course agree, for every course that a review can freeze:
\* what may be published is stored, a stored version that is PUBLISHED is exported, what is
\* exported is read, within the limits of the reader, and what is read no rule for courses
\* and translations refuses to store.
THEOREM NothingEverBreaks == PackagesSpec => []NothingBreaks
<1>1. PackagesInv => NothingBreaks
  BY DEF PackagesInv, JobsHold, JobHolds, PackageSteps, NothingBreaks
<1> QED BY <1>1, PackagesInvariant, PTL

\* An import answers with the course that was published at home, none arrives twice, and none
\* goes for the lock of its course before every release that its widgets are pinned to was
\* available, at one moment or another since the request began.
THEOREM ImportsAlwaysAnswerTruly == PackagesSpec => []ImportsAnswerTruly
<1>1. PackagesInv => WidgetsWereAvailable
  BY DEF PackagesInv, JobsHold, JobHolds, WidgetsWereAvailable
<1>2. PackagesInv => ImportsAnswerTruly
  BY <1>1 DEF PackagesInv, ImportsHold, JobsHold, JobHolds, ImportsAnswerTruly
<1> QED BY <1>2, PackagesInvariant, PTL

-----------------------------------------------------------------------------
(***************************************************************************)
(* The platform                                                            *)
(*                                                                         *)
(* A behaviour of the platform is, for each service, one of its own: a     *)
(* step that goes to another service leaves its variables alone.           *)
(***************************************************************************)

\* A step of the platform is, for each service, one of its steps or none.
LEMMA StepsAreOfServices ==
  ASSUME [Next]_platformVars
  PROVE
         /\ [TranslationsNext]_translationVars
         /\ [CommunityNext]_communityVars
         /\ [SessionsNext]_identityVars
         /\ [LimiterNext]_limiterVars
         /\ [RegistryNext]_registryVars
         /\ [DashboardNext]_dashboardVars
         /\ [RuntimeNext]_runtimeVars
         /\ [CertificateNext]_credentialVars
         /\ [AttemptsNext]_attemptVars
         /\ [CourseStoreNext]_courseVars
         /\ [PackagesNext]_packageVars
<1>1. CASE UNCHANGED platformVars
  <2>1. /\ UNCHANGED translationVars
        /\ UNCHANGED communityVars
        /\ UNCHANGED identityVars
        /\ UNCHANGED limiterVars
        /\ UNCHANGED registryVars
        /\ UNCHANGED dashboardVars
        /\ UNCHANGED runtimeVars
        /\ UNCHANGED credentialVars
        /\ UNCHANGED attemptVars
        /\ UNCHANGED courseVars
        /\ UNCHANGED packageVars
    BY <1>1 DEF platformVars
  <2> QED BY <2>1
<1>2. CASE Next
  BY <1>2 DEF Next, OthersRest
<1> QED BY <1>1, <1>2

\* A behaviour of the platform is one of the translations.
LEMMA TranslationsRuns == Spec => TranslationsSpec
<1>1. Init => TranslationsInit
  BY DEF Init
<1>2. [Next]_platformVars => [TranslationsNext]_translationVars
  BY StepsAreOfServices
<1> QED BY <1>1, <1>2, PTL DEF Spec, TranslationsSpec

\* A behaviour of the platform is one of the community.
LEMMA CommunityRuns == Spec => CommunitySpec
<1>1. Init => CommunityInit
  BY DEF Init
<1>2. [Next]_platformVars => [CommunityNext]_communityVars
  BY StepsAreOfServices
<1> QED BY <1>1, <1>2, PTL DEF Spec, CommunitySpec

\* A behaviour of the platform is one of the sessions.
LEMMA SessionsRuns == Spec => SessionsSpec
<1>1. Init => SessionsInit
  BY DEF Init
<1>2. [Next]_platformVars => [SessionsNext]_identityVars
  BY StepsAreOfServices
<1> QED BY <1>1, <1>2, PTL DEF Spec, SessionsSpec

\* A behaviour of the platform is one of the login limiter.
LEMMA LimiterRuns == Spec => LimiterSpec
<1>1. Init => LimiterInit
  BY DEF Init
<1>2. [Next]_platformVars => [LimiterNext]_limiterVars
  BY StepsAreOfServices
<1> QED BY <1>1, <1>2, PTL DEF Spec, LimiterSpec

\* A behaviour of the platform is one of the plugin registry.
LEMMA RegistryRuns == Spec => RegistrySpec
<1>1. Init => RegistryInit
  BY DEF Init
<1>2. [Next]_platformVars => [RegistryNext]_registryVars
  BY StepsAreOfServices
<1> QED BY <1>1, <1>2, PTL DEF Spec, RegistrySpec

\* A behaviour of the platform is one of the dashboard.
LEMMA DashboardRuns == Spec => DashboardSpec
<1>1. Init => DashboardInit
  BY DEF Init
<1>2. [Next]_platformVars => [DashboardNext]_dashboardVars
  BY StepsAreOfServices
<1> QED BY <1>1, <1>2, PTL DEF Spec, DashboardSpec

\* A behaviour of the platform is one of the widget runtime.
LEMMA RuntimeRuns == Spec => RuntimeSpec
<1>1. Init => RuntimeInit
  BY DEF Init
<1>2. [Next]_platformVars => [RuntimeNext]_runtimeVars
  BY StepsAreOfServices
<1> QED BY <1>1, <1>2, PTL DEF Spec, RuntimeSpec

\* A behaviour of the platform is one of the certificates.
LEMMA CertificateRuns == Spec => CertificateSpec
<1>1. Init => CertificateInit
  BY DEF Init
<1>2. [Next]_platformVars => [CertificateNext]_credentialVars
  BY StepsAreOfServices
<1> QED BY <1>1, <1>2, PTL DEF Spec, CertificateSpec

\* A behaviour of the platform is one of the attempts of learners.
LEMMA AttemptsRuns == Spec => AttemptsSpec
<1>1. Init => AttemptsInit
  BY DEF Init
<1>2. [Next]_platformVars => [AttemptsNext]_attemptVars
  BY StepsAreOfServices
<1> QED BY <1>1, <1>2, PTL DEF Spec, AttemptsSpec

\* A behaviour of the platform is one of the course store.
LEMMA CourseStoreRuns == Spec => CourseStoreSpec
<1>1. Init => CourseStoreInit
  BY DEF Init
<1>2. [Next]_platformVars => [CourseStoreNext]_courseVars
  BY StepsAreOfServices
<1> QED BY <1>1, <1>2, PTL DEF Spec, CourseStoreSpec

\* A behaviour of the platform is one of the course packages.
LEMMA PackagesRuns == Spec => PackagesSpec
<1>1. Init => PackagesInit
  BY DEF Init
<1>2. [Next]_platformVars => [PackagesNext]_packageVars
  BY StepsAreOfServices
<1> QED BY <1>1, <1>2, PTL DEF Spec, PackagesSpec

\* The requests of a behaviour go to one of the services.
LEMMA ServiceIsKnown == Spec => [](served \in ServiceNames)
<1>1. Init => served \in ServiceNames
  BY DEF Init
<1>2. served \in ServiceNames /\ [Next]_platformVars => (served \in ServiceNames)'
  BY DEF Next, OthersRest, platformVars
<1> QED BY <1>1, <1>2, PTL DEF Spec

\* Every variable of every service has its type.
THEOREM PlatformTypeCorrect == Spec => []TypeOK
<1>1. Spec => [](TranslationsTypeOK /\ CommunityTypeOK /\ SessionsTypeOK /\ LimiterTypeOK)
  BY TranslationsRuns, CommunityRuns, SessionsRuns, LimiterRuns, TranslationsTypeCorrect,
     CommunityTypeCorrect, SessionsTypeCorrect, LimiterTypeCorrect, PTL
<1>2. Spec => [](RegistryTypeOK /\ DashboardTypeOK /\ RuntimeTypeOK /\ CertificateTypeOK)
  BY RegistryRuns, DashboardRuns, RuntimeRuns, CertificateRuns, RegistryTypeCorrect,
     DashboardTypeCorrect, RuntimeTypeCorrect, CertificateTypeCorrect, PTL
<1>3. Spec => [](AttemptTypeOK /\ CourseStoreTypeOK /\ PackagesTypeOK)
  BY AttemptsRuns, CourseStoreRuns, PackagesRuns, AttemptTypeCorrect, CourseStoreTypeCorrect,
     PackagesTypeCorrect, PTL
<1>4. /\ served \in ServiceNames
      /\ TranslationsTypeOK /\ CommunityTypeOK /\ SessionsTypeOK /\ LimiterTypeOK
      /\ RegistryTypeOK /\ DashboardTypeOK /\ RuntimeTypeOK /\ CertificateTypeOK
      /\ AttemptTypeOK /\ CourseStoreTypeOK /\ PackagesTypeOK
      => TypeOK
  BY DEF TypeOK
<1> QED BY <1>1, <1>2, <1>3, <1>4, ServiceIsKnown, PTL

\* What is explored with requests to one service at a time is part of what all services do.
THEOREM ServicesRunTogether == Spec => AllServices
<1>1. Spec => TranslationsSpec /\ CommunitySpec /\ SessionsSpec /\ LimiterSpec
  BY TranslationsRuns, CommunityRuns, SessionsRuns, LimiterRuns
<1>2. Spec => RegistrySpec /\ DashboardSpec /\ RuntimeSpec /\ CertificateSpec
  BY RegistryRuns, DashboardRuns, RuntimeRuns, CertificateRuns
<1>3. Spec => AttemptsSpec /\ CourseStoreSpec /\ PackagesSpec
  BY AttemptsRuns, CourseStoreRuns, PackagesRuns
<1> QED BY <1>1, <1>2, <1>3 DEF AllServices

\* Whatever the requests and to whichever services at once, what requests are granted is
\* fresh, what they are answered is true, and what they leave behind is in order.
THEOREM PlatformKeepsItsPromises ==
  /\ AllServices => [](AuthorityIsFresh /\ TabsAgree /\ NothingIsForgiven)
  /\ AllServices => [](OriginsNeverMix /\ LearnersCanRead /\ CertificatesAreEarned /\ OpeningPostIsShown)
  /\ AllServices => [](RunsAreFresh /\ RevocationsTakeEffect /\ OrderIsTotal /\ GrantsAreFresh)
  /\ AllServices => [](SelectionsAgree /\ WithdrawnStaysHidden /\ ReadsAreWhole)
  /\ AllServices => [](NothingBreaks /\ ImportsAnswerTruly)
  /\ AllServices => PublishesWhatIsThere
  /\ MaxAhead = 0 => (AllServices => []ResultGradesFrozenResponses)
<1>1. AllServices => [](AuthorityIsFresh /\ TabsAgree /\ NothingIsForgiven)
  BY AuthorityIsChecked, TokensAgree, LimitsHold, PTL DEF AllServices
<1>2. AllServices => [](OriginsNeverMix /\ LearnersCanRead /\ CertificatesAreEarned /\ OpeningPostIsShown)
  BY OriginsStayApart, OfferedLanguagesCanBeRead, CertificatesCorrect, OpeningPostsStay, PTL DEF AllServices
<1>3. AllServices => [](RunsAreFresh /\ RevocationsTakeEffect /\ OrderIsTotal /\ GrantsAreFresh)
  BY GrantsAreCurrent, RevocationsAreReal, DashboardIsOrdered, TokensAreFresh, PTL DEF AllServices
<1>4. AllServices => [](SelectionsAgree /\ WithdrawnStaysHidden /\ ReadsAreWhole)
  BY SelectionsAlwaysAgree, WithdrawnIsHidden, ReadsAnswerWhole, PTL DEF AllServices
<1>5. AllServices => [](NothingBreaks /\ ImportsAnswerTruly)
  BY NothingEverBreaks, ImportsAlwaysAnswerTruly, PTL DEF AllServices
<1>6. AllServices => PublishesWhatIsThere
  BY PublicationsAreWhatIsThere DEF AllServices
<1>7. ASSUME MaxAhead = 0 PROVE AllServices => []ResultGradesFrozenResponses
  BY <1>7, ResultsCorrect DEF AllServices
<1> QED BY <1>1, <1>2, <1>3, <1>4, <1>5, <1>6, <1>7

=============================================================================
