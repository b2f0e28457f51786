------------------------------ MODULE CourseStore ------------------------------
(***************************************************************************)
(* The store of published course versions.                                   *)
(*                                                                         *)
(* A version is one row and the rows of six tables beside it.  A publication *)
(* or an import writes them in one transaction, a statement at a time; a     *)
(* reader gathers them in statements of its own, outside any transaction,    *)
(* and puts the tree of the course together again from positions.  Rows are  *)
(* never changed, but for the status of the version.                         *)
(*                                                                         *)
(* UNIQUE (course, version) lets a key of these two stand for the row's id.  *)
(***************************************************************************)
EXTENDS Integers, FiniteSets, SequencesExt, Services

CONSTANTS
    Sources,   \* reviews that were approved, and packages
    Imported,  \* the sources that are packages, all of one portable course
    HomeOf,    \* the course of each review
    NumberOf,  \* the version that each source has: <<major, minor, patch>>
    Holds      \* the content of each source

CourseIds == {HomeOf[r] : r \in Sources \ Imported} \cup {"imported"}

LessonTrees == [key : STRING, requires : Seq(STRING)]

ModuleTrees == [key : STRING, lessons : Seq(LessonTrees)]

\* A module has its key in a course, and a lesson, in whatever module.
KeysOfTheirOwn(modules) ==
    /\ \A i, j \in DOMAIN modules : modules[i].key = modules[j].key => i = j
    /\ \A i, j \in DOMAIN modules :
          \A a \in DOMAIN modules[i].lessons, b \in DOMAIN modules[j].lessons :
              modules[i].lessons[a].key = modules[j].lessons[b].key => i = j /\ a = b

ASSUME CourseStoreAssumption ==
    /\ Imported \subseteq Sources
    /\ DOMAIN HomeOf = Sources \ Imported
    /\ \A r \in Sources \ Imported : HomeOf[r] # "imported"
    /\ DOMAIN NumberOf = Sources /\ \A s \in Sources : NumberOf[s] \in Nat \X Nat \X Nat
    /\ DOMAIN Holds = Sources
    /\ \A s \in Sources :
          /\ Holds[s].modules \in Seq(ModuleTrees)
          /\ KeysOfTheirOwn(Holds[s].modules)
    /\ None \notin Sources \cup CourseIds

VARIABLES
    rows,   \* the committed rows of the tables of courses and portability
    errand  \* the requests in flight

courseVars == <<rows, errand>>

-----------------------------------------------------------------------------
(* Rows *)

Statuses == {"PUBLISHED", "DEPRECATED", "ARCHIVED", "WITHDRAWN"}

CourseRow(c) == [table |-> "course", course |-> c]

\* The package's course is known here as c.
MappingRow(c) == [table |-> "mapping", course |-> c]

RowsOf(db, table) == {r \in db : r.table = table}

VersionsOf(db) == RowsOf(db, "version")

KeyOf(course, number) == [course |-> course, number |-> number]

NativeVersionRow(key, r) ==
    [table |-> "version", id |-> key, source |-> r, status |-> "PUBLISHED",
     origin |-> "NATIVE_PUBLICATION"]

ImportedVersionRow(key, k) ==
    [table |-> "version", id |-> key, source |-> k, status |-> "PUBLISHED",
     origin |-> "IMPORTED_PUBLICATION"]

VersionRow(key, s) == IF s \in Imported THEN ImportedVersionRow(key, s) ELSE NativeVersionRow(key, s)

\* The evidence of the review, whose reader never asks Authoring.
ReviewProvenanceRow(key, r) == [table |-> "publication_provenance", id |-> key, source |-> r]

\* Names the import record, which holds the package's fingerprint.
ImportProvenanceRow(key, k) == [table |-> "import_provenance", id |-> key, source |-> k]

ProvenanceRow(key, s) == IF s \in Imported THEN ImportProvenanceRow(key, s) ELSE ReviewProvenanceRow(key, s)

AssetRows(key, content) == {[table |-> "asset", id |-> key, asset |-> a] : a \in content.assets}

AssessmentRows(key, content) ==
    {[table |-> "assessment", id |-> key, assessment |-> a] : a \in content.assessments}

ModuleRows(key, content) ==
    {[table |-> "module", id |-> key, key |-> content.modules[i].key, position |-> i - 1] :
        i \in DOMAIN content.modules}

LessonRow(key, module, l, position) ==
    [table |-> "lesson", id |-> key, module |-> module, key |-> l.key, position |-> position]

LessonRows(key, content) ==
    UNION {{LessonRow(key, m.key, m.lessons[i], i - 1) : i \in DOMAIN m.lessons} :
               m \in ToSet(content.modules)}

PrerequisiteRow(key, l, target, position) ==
    [table |-> "prerequisite", id |-> key, lesson |-> l.key, target |-> target, position |-> position]

PrerequisiteRows(key, content) ==
    UNION {UNION {{PrerequisiteRow(key, l, l.requires[i], i - 1) : i \in DOMAIN l.requires} :
                      l \in ToSet(m.lessons)} : m \in ToSet(content.modules)}

\* What a statement of the writer inserts.
RowsToInsert(table, key, s) ==
    CASE table = "provenance"   -> {ProvenanceRow(key, s)}
      [] table = "asset"        -> AssetRows(key, Holds[s])
      [] table = "assessment"   -> AssessmentRows(key, Holds[s])
      [] table = "module"       -> ModuleRows(key, Holds[s])
      [] table = "lesson"       -> LessonRows(key, Holds[s])
      [] table = "prerequisite" -> PrerequisiteRows(key, Holds[s])

-----------------------------------------------------------------------------
(* The tree of a course, from its rows *)

\* ORDER BY position, unique among the rows that are ordered: the row in place i has
\* i - 1 before it.
InOrder(found) ==
    [i \in 1..Cardinality(found) |->
        CHOOSE r \in found : Cardinality({s \in found : s.position < r.position}) = i - 1]

ModulesInOrder(found) == InOrder(RowsOf(found, "module"))

\* ORDER BY module_id, position: the lessons of one module follow each other.
LessonsInOrder(found, m) == InOrder({r \in RowsOf(found, "lesson") : r.module = m.key})

\* Joined with the lesson that each row requires.
RequiresInOrder(found, lesson) ==
    LET list == InOrder({r \in RowsOf(found, "prerequisite") : r.lesson = lesson})
    IN  [i \in DOMAIN list |-> list[i].target]

Branch(found, l) == [key |-> l.key, requires |-> RequiresInOrder(found, l.key)]

\* getImmutableCourseVersion: lessons are put under the module that their rows name.
CourseTree(found) ==
    [i \in DOMAIN ModulesInOrder(found) |->
        LET m       == ModulesInOrder(found)[i]
            lessons == LessonsInOrder(found, m)
        IN  [key |-> m.key, lessons |-> [j \in DOMAIN lessons |-> Branch(found, lessons[j])]]]

-----------------------------------------------------------------------------
(* Which version a reader gets *)

MajorMinorPatch(a, b) ==
    \/ a[1] < b[1]
    \/ a[1] = b[1] /\ a[2] < b[2]
    \/ a[1] = b[1] /\ a[2] = b[2] /\ a[3] < b[3]

\* Version.Compare, for the readers that choose in Go.
Compare(a, b) ==
    CASE a = b                   -> 0
      [] MajorMinorPatch(a, b)   -> -1
      [] OTHER                   -> 1

PublishedOf(db, course) == {v \in VersionsOf(db) : v.id.course = course /\ v.status = "PUBLISHED"}

\* Preferred: the first of the list that no other exceeds.
PreferredVersion(db, course) ==
    {v \in PublishedOf(db, course) :
        \A w \in PublishedOf(db, course) : Compare(w.id.number, v.id.number) <= 0}

\* Mutant of LatestPublishedVersion: the patch before the minor.
LatestByPatch(db, course) ==
    {v \in PublishedOf(db, course) :
        \A w \in PublishedOf(db, course) \ {v} :
            \/ w.id.number[3] < v.id.number[3]
            \/ w.id.number[3] = v.id.number[3] /\ MajorMinorPatch(w.id.number, v.id.number)}

\* ORDER BY version_major DESC, version_minor DESC, version_patch DESC LIMIT 1.
LatestPublishedVersion(db, course) ==
    {v \in PublishedOf(db, course) :
        \A w \in PublishedOf(db, course) \ {v} : MajorMinorPatch(w.id.number, v.id.number)}

\* The first version of each course, by DISTINCT ON; JOIN provenance keeps the
\* versions that a review has published.
LatestOfCatalog(db) ==
    LET joined == {v \in VersionsOf(db) :
            /\ v.status = "PUBLISHED"
            /\ \E r \in RowsOf(db, "publication_provenance") : r.id = v.id}
    IN  {v \in joined : \A w \in joined \ {v} :
            w.id.course = v.id.course => MajorMinorPatch(w.id.number, v.id.number)}

\* Discover: the courses that have a row and, of each, the highest version.
ListedCourses(db) == {r.course : r \in RowsOf(db, "course")}

Discovered(db) == UNION {PreferredVersion(db, c) : c \in ListedCourses(db)}

-----------------------------------------------------------------------------
(* Requests *)

Parts == <<"provenance", "asset", "assessment", "module", "lesson", "prerequisite">>

\* ReadService.load does not ask for the rest.
OutlineTables == <<"module", "lesson", "prerequisite">>

LessonTables == <<"lesson", "module", "prerequisite">>

\* The statements of a reader after the one that finds the version.
PlanOf(kind) ==
    CASE kind \in {"exact", "latest", "stored"} -> <<"version">> \o Parts
      [] kind \in {"preferred", "explicit"}     -> OutlineTables
      [] kind = "lesson"                        -> LessonTables
      [] OTHER                                  -> <<>>

LearnerKinds == {"exact", "latest", "preferred", "explicit", "lesson", "asset"}

\* tx are uncommitted rows; version and found are what a reader has read; hidden is
\* history, which no guard reads: the version, if it was withdrawn when the last statement
\* that sees its status ran.
NoErrand == [step |-> "idle", kind |-> None, source |-> None, id |-> None, lesson |-> None,
           tx |-> {}, next |-> 1, version |-> None, found |-> {}, hidden |-> {}]

CourseStoreInit ==
    /\ rows = {}
    /\ errand = [p \in Requests |-> NoErrand]

InTransaction(p) == errand[p].step \in {"version", "parts", "commit"}

Reading(p) == errand[p].step \in {"load", "answered"}

Advance(p, changed) == errand' = [errand EXCEPT ![p] = changed]

\* Every failure of a transaction, and a stop: the rows go with the connection.
EndErrand(p) ==
    /\ errand[p].step # "idle"
    /\ Advance(p, NoErrand)
    /\ UNCHANGED rows

-----------------------------------------------------------------------------
(* Writers *)

\* A course is created with its first Draft.
CreateCourse(c) ==
    /\ c # "imported"
    /\ CourseRow(c) \notin rows
    /\ rows' = rows \cup {CourseRow(c)}
    /\ UNCHANGED errand

\* Publication writes a version when no version of the Review is found.
StoreImmutableCourseVersion(p, r) ==
    /\ errand[p] = NoErrand
    /\ CourseRow(HomeOf[r]) \in rows
    /\ \A v \in VersionsOf(rows) : v.source # r
    /\ Advance(p, [NoErrand EXCEPT !.step = "version", !.source = r,
                                 !.id = KeyOf(HomeOf[r], NumberOf[r])])
    /\ UNCHANGED rows

RecordOf(k) == [table |-> "import", source |-> k]

\* replay: the version that the record names is read whole, by its id.
Replay(p, k) ==
    /\ RecordOf(k) \in rows
    /\ Advance(p, [NoErrand EXCEPT !.step = "load", !.kind = "stored", !.source = k,
                                 !.id = KeyOf("imported", NumberOf[k])])

BeginImportOf(p, k) ==
    /\ errand[p] = NoErrand
    /\ \A q \in Requests : ~Reading(q)
    /\ \/ Replay(p, k)
       \/ /\ RecordOf(k) \notin rows
          /\ Advance(p, [NoErrand EXCEPT !.step = "lock", !.source = k])
    /\ UNCHANGED rows

\* resolveCourse: the course that the portable course is mapped to, or a new one.
CourseToFill == IF MappingRow("imported") \in rows THEN {} ELSE {CourseRow("imported"), MappingRow("imported")}

\* Under the advisory lock of the portable course, held to the end.
ResolveCourse(p) ==
    LET k == errand[p].source IN
    /\ errand[p].step = "lock"
    /\ \A q \in Requests : ~(InTransaction(q) /\ errand[q].source \in Imported)
    /\ \/ Replay(p, k)
       \/ /\ RecordOf(k) \notin rows
          /\ Advance(p, [NoErrand EXCEPT !.step = "version", !.source = k,
                         !.id = KeyOf("imported", NumberOf[k]),
                         !.tx = CourseToFill \cup {RecordOf(k)}])
    /\ UNCHANGED rows

HasVersion(db, key) == \E v \in VersionsOf(db) : v.id = key

\* Mutant of InsertVersion: outside the transaction.
InsertVersionAtOnce(p) ==
    /\ errand[p].step = "version"
    /\ ~HasVersion(rows, errand[p].id)
    /\ rows' = rows \cup {VersionRow(errand[p].id, errand[p].source)}
    /\ Advance(p, [errand[p] EXCEPT !.step = "parts"])

\* UNIQUE (course, version): waits for a transaction that has inserted the same key,
\* and fails with ErrCourseVersionAlreadyExists if it commits.
InsertVersion(p) ==
    LET c == errand[p] IN
    /\ c.step = "version"
    /\ \A q \in Requests : ~HasVersion(errand[q].tx, c.id)
    /\ \/ HasVersion(rows, c.id) /\ Advance(p, NoErrand)
       \/ /\ ~HasVersion(rows, c.id)
          /\ Advance(p, [c EXCEPT !.step = "parts", !.tx = @ \cup {VersionRow(c.id, c.source)}])
    /\ UNCHANGED rows

\* The statements of one table of Parts.
InsertParts(p) ==
    LET c == errand[p] IN
    /\ c.step = "parts"
    /\ Advance(p, [c EXCEPT !.tx = @ \cup RowsToInsert(Parts[c.next], c.id, c.source),
                            !.next = IF @ = Len(Parts) THEN @ ELSE @ + 1,
                            !.step = IF c.next = Len(Parts) THEN "commit" ELSE @])
    /\ UNCHANGED rows

\* The rows are read back in the transaction, an import record is finalized, COMMIT.
CommitVersion(p) ==
    /\ errand[p].step = "commit"
    /\ rows' = rows \cup errand[p].tx
    /\ Advance(p, NoErrand)

CanTransitionTo(status) ==
    CASE status = "PUBLISHED"  -> {"DEPRECATED", "ARCHIVED", "WITHDRAWN"}
      [] status = "DEPRECATED" -> {"ARCHIVED", "WITHDRAWN"}
      [] status = "ARCHIVED"   -> {"WITHDRAWN"}
      [] OTHER                 -> {}

TransitionCourseVersionStatus(v, next) ==
    /\ next \in CanTransitionTo(v.status)
    /\ rows' = (rows \ {v}) \cup {[v EXCEPT !.status = next]}
    /\ UNCHANGED errand

-----------------------------------------------------------------------------
(* Readers: at most one, for they change nothing that another could see *)

Withdrawn == {v.id : v \in {w \in VersionsOf(rows) : w.status = "WITHDRAWN"}}

\* The statement that finds the version of a read, if there is one.
BeginReadOf(p, kind, chosen, lesson) ==
    /\ errand[p] = NoErrand
    /\ \A q \in Requests : ~Reading(q)
    /\ \E v \in chosen :
          Advance(p, [NoErrand EXCEPT !.step = "load", !.kind = kind, !.id = v.id, !.lesson = lesson,
                      !.version = v, !.hidden = {v.id} \cap Withdrawn])
    /\ UNCHANGED rows

PublishedAt(course, number) == {v \in PublishedOf(rows, course) : v.id = KeyOf(course, number)}

Exact(p, course, number) == BeginReadOf(p, "exact", PublishedAt(course, number), None)

Latest(p, course) == BeginReadOf(p, "latest", LatestPublishedVersion(rows, course), None)

Preferred(p, course) == BeginReadOf(p, "preferred", PreferredVersion(rows, course), None)

Servable == {"PUBLISHED", "DEPRECATED", "ARCHIVED"}

VersionAt(course, number) == {v \in VersionsOf(rows) : v.id = KeyOf(course, number)}

ExplicitVersion(course, number) == {v \in VersionAt(course, number) : v.status \in Servable}

Explicit(p, course, number) == BeginReadOf(p, "explicit", ExplicitVersion(course, number), None)

LessonKeys == UNION {UNION {{l.key : l \in ToSet(m.lessons)} : m \in ToSet(Holds[s].modules)} : s \in Sources}

Lesson(p, course, number, lesson) ==
    BeginReadOf(p, "lesson", ExplicitVersion(course, number), lesson)

\* Of a publication that is reconciled: by the UNIQUE provenance of the review.
GetByReviewID(p, r) ==
    BeginReadOf(p, "stored", {v \in VersionsOf(rows) : ReviewProvenanceRow(v.id, r) \in rows}, None)

\* One statement joins the binding with its version.
PublishedAsset(p, course, number) ==
    /\ errand[p] = NoErrand
    /\ \A q \in Requests : ~Reading(q)
    /\ \E v \in PublishedAt(course, number), r \in RowsOf(rows, "asset") :
          /\ r.id = v.id
          /\ Advance(p, [NoErrand EXCEPT !.step = "answered", !.kind = "asset", !.id = v.id,
                                       !.version = v, !.found = {r}, !.hidden = {v.id} \cap Withdrawn])
    /\ UNCHANGED rows

InTable(r, table) ==
    IF table = "provenance" THEN r.table \in {"publication_provenance", "import_provenance"}
    ELSE r.table = table

OfVersion(c, table) == {r \in rows : InTable(r, table) /\ r.id = c.id}

LessonByKey(c) == {r \in OfVersion(c, "lesson") : r.key = c.lesson}

ModuleOfLesson(c) == {r \in OfVersion(c, "module") : \E l \in c.found : l.module = r.key}

PrerequisitesOfLesson(c) == {r \in OfVersion(c, "prerequisite") : r.lesson = c.lesson}

\* The rows of a table that belong to the version, or of these the lesson's.
Selected(c, table) ==
    IF c.kind # "lesson" THEN OfVersion(c, table)
    ELSE CASE table = "lesson"       -> LessonByKey(c)
           [] table = "module"       -> ModuleOfLesson(c)
           [] table = "prerequisite" -> PrerequisitesOfLesson(c)

\* Mutant of NotFound: the status is not looked at again once the version is loaded.
NotFoundButStatus(c) == c.kind = "lesson" /\ RowsOf(c.found, "lesson") = {}

\* publicPublishedCourseVersion looks at the status that it has loaded.
NotFound(c) ==
    \/ c.kind = "lesson" /\ RowsOf(c.found, "lesson") = {}
    \/ c.kind \in {"exact", "latest"} /\ c.version.status # "PUBLISHED"

\* The next statement, and after the last the answer.
LoadNext(p) ==
    LET c    == errand[p]
        plan == PlanOf(c.kind)
        read == Selected(c, plan[c.next])
        then == IF plan[c.next] = "version" THEN [c EXCEPT !.version = CHOOSE v \in read : TRUE, !.hidden = {c.id} \cap Withdrawn]
                ELSE [c EXCEPT !.found = @ \cup read]
    IN  /\ c.step = "load"
        /\ IF NotFound(then) THEN Advance(p, NoErrand)
           ELSE IF c.next = Len(plan) THEN Advance(p, [then EXCEPT !.step = "answered"])
           ELSE Advance(p, [then EXCEPT !.next = c.next + 1])
        /\ UNCHANGED rows

-----------------------------------------------------------------------------
CourseStoreNext ==
    \/ \E c \in CourseIds : CreateCourse(c)
    \/ \E v \in VersionsOf(rows), next \in Statuses : TransitionCourseVersionStatus(v, next)
    \/ \E p \in Requests :
          \/ \E r \in Sources \ Imported : StoreImmutableCourseVersion(p, r) \/ GetByReviewID(p, r)
          \/ \E k \in Imported : BeginImportOf(p, k)
          \/ ResolveCourse(p)
          \/ InsertVersion(p)
          \/ InsertParts(p)
          \/ CommitVersion(p)
          \/ \E c \in CourseIds :
                \/ Latest(p, c)
                \/ Preferred(p, c)
                \/ \E n \in {NumberOf[s] : s \in Sources} :
                      \/ Exact(p, c, n)
                      \/ Explicit(p, c, n)
                      \/ \E lesson \in LessonKeys : Lesson(p, c, n, lesson)
                      \/ PublishedAsset(p, c, n)
          \/ LoadNext(p)
          \/ EndErrand(p)

CourseStoreSpec == CourseStoreInit /\ [][CourseStoreNext]_courseVars

-----------------------------------------------------------------------------
(* Properties *)

\* Every row names its table and every request its step.
CourseStoreTypeOK ==
    /\ \A r \in rows : r.table \in {"course", "mapping", "import", "version", "asset", "assessment",
            "publication_provenance", "import_provenance", "module", "lesson", "prerequisite"}
    /\ \A v \in VersionsOf(rows) : v.status \in Statuses /\ v.id.course \in CourseIds
    /\ \A p \in Requests :
          errand[p].step \in {"idle", "lock", "version", "parts", "commit", "load", "answered"}

\* What a reader has answered, of what the source of the version holds.
AnswersWhole(c) ==
    LET content == Holds[c.version.source]
        listed  == {r.asset : r \in RowsOf(c.found, "asset")}
    IN  CASE c.kind = "asset"  -> listed \subseteq content.assets
          [] c.kind = "lesson" ->
                \E m \in ToSet(content.modules) : \E l \in ToSet(m.lessons) :
                    /\ {r.key : r \in RowsOf(c.found, "module")} = {m.key}
                    /\ l = Branch(c.found, [key |-> c.lesson])
          [] OTHER ->
                /\ CourseTree(c.found) = content.modules
                /\ c.kind \in {"exact", "latest", "stored"} =>
                      /\ listed = content.assets
                      /\ {r.assessment : r \in RowsOf(c.found, "assessment")} = content.assessments

\* An answer put together from several statements, while versions are written and
\* change their status, is the tree that its source held, complete and in order.
ReadsAreWhole ==
    \A p \in Requests : errand[p].step = "answered" => AnswersWhole(errand[p])

\* The paths that choose a version for the learner, in SQL and in Go, choose the same:
\* the highest by number, and of a course written here the catalog lists it too.
SelectionsAgree ==
    \A c \in CourseIds :
        LET latest == LatestPublishedVersion(rows, c)
        IN  /\ latest = PreferredVersion(rows, c)
            /\ latest = {v \in Discovered(rows) : v.id.course = c}
            /\ c # "imported" => latest = {v \in LatestOfCatalog(rows) : v.id.course = c}

\* No learner is answered with a version that was withdrawn before the last statement of the
\* read that sees its status: a withdrawal between the statement that finds the version and
\* the one that loads it is honoured, later statements finish what has begun.
WithdrawnStaysHidden ==
    \A p \in Requests :
        errand[p].step = "answered" /\ errand[p].kind \in LearnerKinds => errand[p].id \notin errand[p].hidden

\* "Ordinary catalog, exact-course, published-asset, language, and translated-reader paths
\* use the imported records without a portability-specific runtime model"
\* (docs/course-portability.md:103): every course with a published version is in the catalog.
CatalogListsEveryCourse ==
    \A c \in CourseIds :
        PublishedOf(rows, c) # {} => \E v \in LatestOfCatalog(rows) : v.id.course = c

=============================================================================
