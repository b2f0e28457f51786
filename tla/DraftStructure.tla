---------------------------- MODULE DraftStructure ----------------------------
(***************************************************************************)
(* The outline of one ACTIVE Draft: Modules, their Lessons, and the ordered *)
(* prerequisites of each Lesson, as rows that carry their own position and  *)
(* revision.                                                                *)
(*                                                                         *)
(* Each operation is one transaction that holds the Draft row, so they do   *)
(* not interleave; DraftWorkspace has the requests around them.  What is    *)
(* hard here is that every operation rewrites many rows in several          *)
(* statements, and that a Review can be submitted after any sequence of     *)
(* them: NewReviewSnapshot accepts only an outline without gaps.            *)
(*                                                                         *)
(* A request that quotes a stale revision of the Draft, a Module or a       *)
(* Lesson is refused and changes nothing, so only accepted ones are steps.  *)
(* The caps on Modules and Lessons per Draft are the sets of identifiers.   *)
(***************************************************************************)
EXTENDS Integers, FiniteSets, Functions

CONSTANTS
    Modules,     \* identifiers of Modules
    Lessons,     \* identifiers of Lessons, and their stable keys
    Absent,      \* an identifier that names no row
    MaxRevision  \* bound: the Draft is written at most MaxRevision - 1 times

VARIABLES
    revision,  \* the Draft's revision
    module,    \* authoring.module
    lesson,    \* authoring.lesson
    prereq     \* authoring.lesson_prerequisite, a set of rows

vars == <<revision, module, lesson, prereq>>

-----------------------------------------------------------------------------
ModuleRow == [position : Nat, revision : Nat \ {0}]

LessonRow == [module : Modules, position : Nat, revision : Nat \ {0}]

PrereqRow == [lesson : Lessons, target : Lessons, position : Nat]

ASSUME StructureAssumption ==
    /\ IsFiniteSet(Modules)
    /\ IsFiniteSet(Lessons)
    /\ Absent \notin ModuleRow \cup LessonRow
    /\ MaxRevision \in Nat \ {0}

CurrentModules == {m \in Modules : module[m] # Absent}

CurrentLessons == {l \in Lessons : lesson[l] # Absent}

LessonsOf(m) == {l \in CurrentLessons : lesson[l].module = m}

PrereqsOf(l) == {row \in prereq : row.lesson = l}

\* The positions a list of n rows may take, without gaps.
Positions(n) == 0..(n - 1)

Init ==
    /\ revision = 1
    /\ module = [m \in Modules |-> Absent]
    /\ lesson = [l \in Lessons |-> Absent]
    /\ prereq = {}

-----------------------------------------------------------------------------
(* Statements, on the rows as the statements before them have left them *)

\* BumpModuleRevision and BumpLessonRevision, of the revision just read.
Touch(row) == [row EXCEPT !.revision = @ + 1]

BumpDraftRevision ==
    /\ revision < MaxRevision
    /\ revision' = revision + 1

CreateModule(rows, m, position) == [rows EXCEPT ![m] = [position |-> position, revision |-> 1]]

CreateLesson(rows, m, l, position) ==
    [rows EXCEPT ![l] = [module |-> m, position |-> position, revision |-> 1]]

SetModulePosition(row, position) == [position |-> position, revision |-> row.revision + 1]

SetLessonModuleAndPosition(row, m, position) ==
    [module |-> m, position |-> position, revision |-> row.revision + 1]

ShiftModulesAtPosition(rows, position) ==
    [m \in Modules |->
        IF rows[m] # Absent /\ rows[m].position >= position
        THEN SetModulePosition(rows[m], rows[m].position + 1) ELSE rows[m]]

CompactModulePositionsAfter(rows, position) ==
    [m \in Modules |->
        IF rows[m] # Absent /\ rows[m].position > position
        THEN SetModulePosition(rows[m], rows[m].position - 1) ELSE rows[m]]

ShiftLessonsAtPosition(rows, m, position) ==
    [l \in Lessons |->
        IF rows[l] # Absent /\ rows[l].module = m /\ rows[l].position >= position
        THEN SetLessonModuleAndPosition(rows[l], m, rows[l].position + 1) ELSE rows[l]]

\* One statement touches, once each, the Lessons that follow l in its Module and
\* those that require l.
AdvanceLessonsAfterDeletion(rows, l) ==
    LET others      == {x \in Lessons \ {l} : rows[x] # Absent}
        follows(x)  == rows[x].module = rows[l].module /\ rows[x].position > rows[l].position
        requires(x) == \E row \in PrereqsOf(x) : row.target = l
    IN  [x \in Lessons |->
            CASE x \in others /\ follows(x) ->
                    SetLessonModuleAndPosition(rows[x], rows[x].module, rows[x].position - 1)
              [] x \in others /\ ~follows(x) /\ requires(x) -> Touch(rows[x])
              [] OTHER -> rows[x]]

DeleteModuleForDraft(rows, m) == [rows EXCEPT ![m] = Absent]

DeleteLessonForDraft(rows, l) == [rows EXCEPT ![l] = Absent]

DeletePrerequisites(rows, l) == {row \in rows : row.lesson # l}

DeleteIncomingPrerequisites(rows, l) == {row \in rows : row.target # l}

\* One statement for each of the keys.
AddPrerequisites(rows, l, keys) ==
    rows \cup {[lesson |-> l, target |-> keys[i], position |-> i - 1] : i \in DOMAIN keys}

-----------------------------------------------------------------------------
(* Modules *)

CreateModuleAtPosition(m, position) ==
    /\ m \notin CurrentModules
    /\ position <= Cardinality(CurrentModules)
    /\ module' = CreateModule(ShiftModulesAtPosition(module, position), m, position)
    /\ BumpDraftRevision
    /\ UNCHANGED <<lesson, prereq>>

\* order names every current Module once; all of them are touched.
ReorderModules(order) ==
    /\ module' = [m \in Modules |->
          IF m \in CurrentModules THEN SetModulePosition(module[m], order[m]) ELSE Absent]
    /\ BumpDraftRevision
    /\ UNCHANGED <<lesson, prereq>>

UpdateModuleMetadata(m) ==
    /\ module' = [module EXCEPT ![m] = Touch(@)]
    /\ BumpDraftRevision
    /\ UNCHANGED <<lesson, prereq>>

\* Mutant of DeleteEmptyModule: leaves the position of the Module open.
DeleteEmptyModuleLeavingGap(m) ==
    /\ LessonsOf(m) = {}
    /\ module' = DeleteModuleForDraft(module, m)
    /\ BumpDraftRevision
    /\ UNCHANGED <<lesson, prereq>>

\* Mutant of DeleteEmptyModule: does not count the Lessons.
DeleteAnyModule(m) ==
    /\ module' = DeleteModuleForDraft(module, m)
    /\ BumpDraftRevision
    /\ UNCHANGED <<lesson, prereq>>

DeleteEmptyModule(m) ==
    /\ LessonsOf(m) = {}
    /\ module' = CompactModulePositionsAfter(DeleteModuleForDraft(module, m), module[m].position)
    /\ BumpDraftRevision
    /\ UNCHANGED <<lesson, prereq>>

-----------------------------------------------------------------------------
(* Lessons *)

CreateLessonAtPosition(m, l, position) ==
    /\ l \notin CurrentLessons
    /\ position <= Cardinality(LessonsOf(m))
    /\ lesson' = CreateLesson(ShiftLessonsAtPosition(lesson, m, position), m, l, position)
    /\ module' = [module EXCEPT ![m] = Touch(@)]
    /\ BumpDraftRevision
    /\ UNCHANGED prereq

\* UpdateLessonMetadataForDraft and ReplaceLessonContentForDraft.
UpdateLesson(l) ==
    /\ lesson' = [lesson EXCEPT ![l] = Touch(@)]
    /\ BumpDraftRevision
    /\ UNCHANGED <<module, prereq>>

\* The complete layouts ReorderLessonsForDraft accepts: each current Lesson
\* once, in a current Module, at its index in that Module's list.
Layouts ==
    {layout \in [CurrentLessons -> CurrentModules \X Positions(Cardinality(CurrentLessons))] :
        \A m \in CurrentModules :
            LET listed == {l \in CurrentLessons : layout[l][1] = m}
            IN  {layout[l][2] : l \in listed} = Positions(Cardinality(listed))}

Moved(layout) == {l \in CurrentLessons : layout[l] # <<lesson[l].module, lesson[l].position>>}

MoveLessons(layout) ==
    [l \in Lessons |->
        IF l \in Moved(layout)
        THEN SetLessonModuleAndPosition(lesson[l], layout[l][1], layout[l][2]) ELSE lesson[l]]

\* Mutant of ReorderLessons: touches the Modules that Lessons join, not those
\* that they leave.
ReorderLessonsTouchingDestinations(layout) ==
    /\ lesson' = MoveLessons(layout)
    /\ module' = [m \in Modules |->
          IF \E l \in Moved(layout) : layout[l][1] = m THEN Touch(module[m]) ELSE module[m]]
    /\ BumpDraftRevision
    /\ UNCHANGED prereq

\* Only the Lessons that move, and the Modules they leave or join, are touched.
ReorderLessons(layout) ==
    /\ lesson' = MoveLessons(layout)
    /\ module' = [m \in Modules |->
          IF \E l \in Moved(layout) : m \in {lesson[l].module, layout[l][1]}
          THEN Touch(module[m]) ELSE module[m]]
    /\ BumpDraftRevision
    /\ UNCHANGED prereq

\* keys is an ordered list of other Lessons of the Draft, without duplicates.
ReplaceLessonPrerequisites(l, keys) ==
    /\ prereq' = AddPrerequisites(DeletePrerequisites(prereq, l), l, keys)
    /\ lesson' = [lesson EXCEPT ![l] = Touch(@)]
    /\ BumpDraftRevision
    /\ UNCHANGED module

DeleteLesson(l) ==
    /\ lesson' = DeleteLessonForDraft(AdvanceLessonsAfterDeletion(lesson, l), l)
    /\ prereq' = DeletePrerequisites(DeleteIncomingPrerequisites(prereq, l), l)
    /\ module' = [module EXCEPT ![lesson[l].module] = Touch(@)]
    /\ BumpDraftRevision

-----------------------------------------------------------------------------
\* Ordered lists of distinct elements of S.
Lists(S) == UNION {Injection(1..n, S) : n \in 0..Cardinality(S)}

Next ==
    \/ \E m \in Modules, position \in 0..Cardinality(Modules) : CreateModuleAtPosition(m, position)
    \/ \E order \in Bijection(CurrentModules, Positions(Cardinality(CurrentModules))) :
          ReorderModules(order)
    \/ \E m \in CurrentModules :
          \/ UpdateModuleMetadata(m)
          \/ DeleteEmptyModule(m)
          \/ \E l \in Lessons, position \in 0..Cardinality(Lessons) :
                CreateLessonAtPosition(m, l, position)
    \/ \E layout \in Layouts : ReorderLessons(layout)
    \/ \E l \in CurrentLessons :
          \/ UpdateLesson(l)
          \/ DeleteLesson(l)
          \/ \E keys \in Lists(CurrentLessons \ {l}) : ReplaceLessonPrerequisites(l, keys)

Spec == Init /\ [][Next]_vars

-----------------------------------------------------------------------------
(* Properties *)

\* Whatever sequence of creations, moves and deletions, the Modules and the
\* Lessons of each are numbered without gaps, as ReviewSnapshot.Validate and
\* every position the client sends presuppose.
OutlineHasNoGaps ==
    /\ {module[m].position : m \in CurrentModules} = Positions(Cardinality(CurrentModules))
    /\ \A m \in CurrentModules :
          {lesson[l].position : l \in LessonsOf(m)} = Positions(Cardinality(LessonsOf(m)))

\* No Lesson lies in a deleted Module, and no prerequisite joins a deleted
\* Lesson: the several statements of each deletion leave nothing behind.
NothingDangles ==
    /\ \A l \in CurrentLessons : lesson[l].module \in CurrentModules
    /\ \A row \in prereq : {row.lesson, row.target} \subseteq CurrentLessons

\* A client that compares revisions notices every structural change: a Lesson
\* whose place or prerequisites change, and a Module whose place or list of
\* Lessons changes, advance their revision, and by exactly one.
ChangesAreVisible ==
    [][/\ \A l \in CurrentLessons :
             lesson'[l] # Absent =>
                   \/ lesson'[l].revision = lesson[l].revision + 1
                   \/ lesson'[l] = lesson[l] /\ PrereqsOf(l)' = PrereqsOf(l)
       /\ \A m \in CurrentModules :
             module'[m] # Absent =>
                   \/ module'[m].revision = module[m].revision + 1
                   \/ /\ module'[m] = module[m]
                      /\ LessonsOf(m)' = LessonsOf(m)
                      /\ \A l \in LessonsOf(m) : lesson'[l].position = lesson[l].position]_vars

\* The prerequisites of each Lesson are one ordered list, which NewReviewSnapshot
\* requires to be numbered 0, 1, ... before it freezes the Draft.
PrerequisitesAreReviewable ==
    \A l \in CurrentLessons :
        {row.position : row \in PrereqsOf(l)} = Positions(Cardinality(PrereqsOf(l)))

=============================================================================
