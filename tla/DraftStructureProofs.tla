------------------------- MODULE DraftStructureProofs -------------------------
(***************************************************************************)
(* Proofs about DraftStructure, for any finite sets of Modules and Lessons.  *)
(*                                                                         *)
(* The invariant is inductive as it stands, once the rows have their types:  *)
(* that a deletion closes exactly the gap that it makes needs that no two    *)
(* rows share a position, which follows by counting from their filling the   *)
(* positions without gaps.  That revisions tell of every change holds of a    *)
(* single step, under that invariant.                                         *)
(***************************************************************************)
EXTENDS DraftStructure, FiniteSetTheorems, TLAPS

TypeInv ==
    /\ module \in [Modules -> ModuleRow \cup {Absent}]
    /\ lesson \in [Lessons -> LessonRow \cup {Absent}]
    /\ prereq \subseteq PrereqRow

Outline == TypeInv /\ NothingDangles /\ OutlineHasNoGaps

-----------------------------------------------------------------------------
(* Numbering a finite set *)

\* f numbers the elements of S from zero.
Numbers(f, S) == {f[x] : x \in S} = Positions(Cardinality(S))

\* Numbered without gaps, no two elements share a number.
LEMMA NumbersAreDistinct ==
  ASSUME NEW S, IsFiniteSet(S), NEW f, Numbers(f, S), NEW x \in S, NEW y \in S, f[x] = f[y]
  PROVE  x = y
<1> DEFINE n == Cardinality(S)
           g == [z \in S |-> f[z]]
<1>1. n \in Nat
  BY FS_CardinalityType
<1>2. Cardinality(Positions(n)) = n /\ IsFiniteSet(Positions(n))
  <2>1. CASE n = 0
    BY <2>1, FS_EmptySet DEF Positions
  <2>2. CASE n # 0
    BY <1>1, <2>2, FS_Interval DEF Positions
  <2> QED BY <2>1, <2>2
<1>3. g \in Surjection(S, Positions(n))
  BY DEF Numbers, Surjection
<1>4. g \in Injection(S, Positions(n))
  BY <1>2, <1>3, FS_SurjSameCardinalityImpliesInj
<1> QED BY <1>4 DEF Injection, IsInjective

\* Shifting what follows makes room for one more.
LEMMA Inserted ==
  ASSUME NEW S, IsFiniteSet(S), NEW f, Numbers(f, S), NEW x, x \notin S,
         NEW p \in Nat, p <= Cardinality(S),
         NEW g, g[x] = p, \A s \in S : g[s] = IF f[s] >= p THEN f[s] + 1 ELSE f[s]
  PROVE  Numbers(g, S \cup {x})
<1> DEFINE n == Cardinality(S)
<1>1. n \in Nat /\ Cardinality(S \cup {x}) = n + 1
  BY FS_CardinalityType, FS_AddElement
<1>2. \A s \in S : f[s] \in 0..(n - 1)
  BY DEF Numbers, Positions
<1>3. \A i \in 0..(n - 1) : \E s \in S : f[s] = i
  BY DEF Numbers, Positions
<1>4. \A s \in S \cup {x} : g[s] \in 0..n
  BY <1>1, <1>2
<1>5. ASSUME NEW i \in 0..n
      PROVE  \E s \in S \cup {x} : g[s] = i
  <2>1. CASE i < p
    BY <1>1, <1>2, <1>3, <2>1
  <2>2. CASE i = p
    BY <2>2
  <2>3. CASE i > p
    <3>1. PICK s \in S : f[s] = i - 1
      BY <1>1, <1>3, <2>3
    <3> QED BY <1>1, <2>3, <3>1
  <2> QED BY <1>1, <2>1, <2>2, <2>3
<1>6. {g[s] : s \in S \cup {x}} = 0..n
  BY <1>4, <1>5
<1> QED BY <1>1, <1>6 DEF Numbers, Positions

\* Compacting what follows closes the gap of one less.
LEMMA Removed ==
  ASSUME NEW S, IsFiniteSet(S), NEW f, Numbers(f, S), NEW x \in S,
         NEW g, \A s \in S \ {x} : g[s] = IF f[s] > f[x] THEN f[s] - 1 ELSE f[s]
  PROVE  Numbers(g, S \ {x})
<1> DEFINE n == Cardinality(S)
<1>1. n \in Nat /\ Cardinality(S \ {x}) = n - 1
  BY FS_CardinalityType, FS_RemoveElement
<1>2. \A s \in S : f[s] \in 0..(n - 1)
  BY DEF Numbers, Positions
<1>3. \A i \in 0..(n - 1) : \E s \in S : f[s] = i
  BY DEF Numbers, Positions
<1>4. \A s \in S \ {x} : f[s] # f[x]
  BY NumbersAreDistinct
<1>5. \A s \in S \ {x} : g[s] \in 0..(n - 2)
  BY <1>1, <1>2, <1>4
<1>6. ASSUME NEW i \in 0..(n - 2)
      PROVE  \E s \in S \ {x} : g[s] = i
  <2>1. CASE i < f[x]
    <3>1. PICK s \in S : f[s] = i
      BY <1>1, <1>3
    <3> QED BY <1>1, <1>2, <2>1, <3>1
  <2>2. CASE i >= f[x]
    <3>1. PICK s \in S : f[s] = i + 1
      BY <1>1, <1>3
    <3> QED BY <1>1, <1>2, <2>2, <3>1
  <2> QED BY <1>2, <2>1, <2>2
<1>7. {g[s] : s \in S \ {x}} = 0..(n - 2)
  BY <1>5, <1>6
<1> QED BY <1>1, <1>7 DEF Numbers, Positions

-----------------------------------------------------------------------------
(* Rows *)

\* What the statements do to the row of a Module.
LEMMA ModuleRows ==
  ASSUME NEW row \in ModuleRow, NEW p \in Nat
  PROVE  /\ Touch(row) \in ModuleRow
         /\ Touch(row).position = row.position
         /\ Touch(row).revision = row.revision + 1
         /\ SetModulePosition(row, p) \in ModuleRow
         /\ SetModulePosition(row, p).position = p
         /\ SetModulePosition(row, p).revision = row.revision + 1
<1>1. row.position \in Nat /\ row.revision \in Nat \ {0}
  BY DEF ModuleRow
<1>2. Touch(row) = [position |-> row.position, revision |-> row.revision + 1]
  BY DEF ModuleRow, Touch
<1>3. SetModulePosition(row, p) = [position |-> p, revision |-> row.revision + 1]
  BY DEF SetModulePosition
<1>4. row.revision + 1 \in Nat \ {0}
  BY <1>1
<1> QED BY <1>1, <1>2, <1>3, <1>4 DEF ModuleRow

\* What the statements do to the row of a Lesson.
LEMMA LessonRows ==
  ASSUME NEW row \in LessonRow, NEW m \in Modules, NEW p \in Nat
  PROVE  /\ Touch(row) \in LessonRow
         /\ Touch(row).module = row.module
         /\ Touch(row).position = row.position
         /\ Touch(row).revision = row.revision + 1
         /\ SetLessonModuleAndPosition(row, m, p) \in LessonRow
         /\ SetLessonModuleAndPosition(row, m, p).module = m
         /\ SetLessonModuleAndPosition(row, m, p).position = p
         /\ SetLessonModuleAndPosition(row, m, p).revision = row.revision + 1
<1>1. row.module \in Modules /\ row.position \in Nat /\ row.revision \in Nat \ {0}
  BY DEF LessonRow
<1>2. Touch(row) = [module |-> row.module, position |-> row.position, revision |-> row.revision + 1]
  BY DEF LessonRow, Touch
<1>3. SetLessonModuleAndPosition(row, m, p) =
          [module |-> m, position |-> p, revision |-> row.revision + 1]
  BY DEF SetLessonModuleAndPosition
<1>4. row.revision + 1 \in Nat \ {0}
  BY <1>1
<1> QED BY <1>1, <1>2, <1>3, <1>4 DEF LessonRow

\* Only rows are current, and there are finitely many.
LEMMA CurrentRows ==
  ASSUME TypeInv
  PROVE  /\ CurrentModules \subseteq Modules /\ IsFiniteSet(CurrentModules)
         /\ \A m \in CurrentModules : module[m] \in ModuleRow
         /\ CurrentLessons \subseteq Lessons /\ IsFiniteSet(CurrentLessons)
         /\ \A l \in CurrentLessons : lesson[l] \in LessonRow
         /\ \A m : LessonsOf(m) \subseteq CurrentLessons /\ IsFiniteSet(LessonsOf(m))
<1>1. CurrentModules \in SUBSET Modules /\ CurrentLessons \in SUBSET Lessons
  BY DEF CurrentModules, CurrentLessons
<1>2. IsFiniteSet(CurrentModules) /\ IsFiniteSet(CurrentLessons)
  BY <1>1, StructureAssumption, FS_Subset
<1>3. ASSUME NEW m
      PROVE  LessonsOf(m) \subseteq CurrentLessons /\ IsFiniteSet(LessonsOf(m))
  <2>1. LessonsOf(m) \in SUBSET CurrentLessons
    BY DEF LessonsOf
  <2> QED BY <1>2, <2>1, FS_Subset
<1> QED BY <1>1, <1>2, <1>3 DEF TypeInv, CurrentModules, CurrentLessons

-----------------------------------------------------------------------------
(* What stays in place *)

ModulesStay ==
    \A m \in Modules :
        /\ module'[m] = Absent <=> module[m] = Absent
        /\ module[m] # Absent => module'[m].position = module[m].position

LessonStays(l) ==
    /\ lesson'[l] = Absent <=> lesson[l] = Absent
    /\ lesson[l] # Absent => /\ lesson'[l].module = lesson[l].module
                             /\ lesson'[l].position = lesson[l].position

LessonsStay == \A l \in Lessons : LessonStays(l)

ModulesFilled == {module[m].position : m \in CurrentModules} = Positions(Cardinality(CurrentModules))

LessonsFilled(m) == {lesson[l].position : l \in LessonsOf(m)} = Positions(Cardinality(LessonsOf(m)))

\* A renumbering that leaves the Modules numbered leaves no gap.
LEMMA ModulesStayFilled ==
  ASSUME ModulesStay
  PROVE  /\ CurrentModules' = CurrentModules
         /\ ModulesFilled => ModulesFilled'
<1>1. CurrentModules' = CurrentModules
  BY DEF ModulesStay, CurrentModules
<1>2. {module'[m].position : m \in CurrentModules} = {module[m].position : m \in CurrentModules}
  BY DEF ModulesStay, CurrentModules
<1> QED BY <1>1, <1>2 DEF ModulesFilled

\* The same for the Lessons of each Module.
LEMMA LessonsStayFilled ==
  ASSUME LessonsStay
  PROVE  /\ CurrentLessons' = CurrentLessons
         /\ \A m : LessonsOf(m)' = LessonsOf(m) /\ (LessonsFilled(m) => LessonsFilled(m)')
<1>1. CurrentLessons' = CurrentLessons
  BY DEF LessonsStay, LessonStays, CurrentLessons
<1>2. ASSUME NEW m
      PROVE  LessonsOf(m)' = LessonsOf(m) /\ (LessonsFilled(m) => LessonsFilled(m)')
  <2>1. LessonsOf(m)' = LessonsOf(m)
    BY <1>1 DEF LessonsStay, LessonStays, LessonsOf, CurrentLessons
  <2>2. {lesson'[l].position : l \in LessonsOf(m)} = {lesson[l].position : l \in LessonsOf(m)}
    BY DEF LessonsStay, LessonStays, LessonsOf, CurrentLessons
  <2> QED BY <2>1, <2>2 DEF LessonsFilled
<1> QED BY <1>1, <1>2

\* The invariant, from its parts.
LEMMA OutlineFromParts ==
  Outline <=> /\ TypeInv
              /\ NothingDangles
              /\ ModulesFilled
              /\ \A m \in CurrentModules : LessonsFilled(m)
BY DEF Outline, OutlineHasNoGaps, ModulesFilled, LessonsFilled

-----------------------------------------------------------------------------
(* Modules *)

\* What rests when only Modules change, and no Module with Lessons goes.
LEMMA LessonsRest ==
  ASSUME Outline, UNCHANGED <<lesson, prereq>>, module' \in [Modules -> ModuleRow \cup {Absent}],
         \A m \in CurrentModules : m \in CurrentModules' \/ LessonsOf(m) = {},
         ModulesFilled',
         \A m \in CurrentModules' \ CurrentModules : LessonsOf(m) = {}
  PROVE  Outline'
<1>1. LessonsStay
  BY DEF LessonsStay, LessonStays
<1>2. /\ CurrentLessons' = CurrentLessons
      /\ \A m : LessonsOf(m)' = LessonsOf(m) /\ (LessonsFilled(m) => LessonsFilled(m)')
  BY <1>1, LessonsStayFilled
<1>3. TypeInv'
  BY DEF Outline, TypeInv
<1>4. NothingDangles'
  <2>1. ASSUME NEW l \in CurrentLessons
        PROVE  lesson'[l].module \in CurrentModules'
    <3>1. l \in LessonsOf(lesson[l].module) /\ lesson[l].module \in CurrentModules
      BY DEF Outline, NothingDangles, LessonsOf
    <3> QED BY <3>1
  <2> QED BY <1>2, <2>1 DEF Outline, NothingDangles
<1>5. ASSUME NEW m \in CurrentModules'
      PROVE  LessonsFilled(m)'
  <2>1. CASE m \in CurrentModules
    BY <1>2, <2>1 DEF Outline, OutlineHasNoGaps, LessonsFilled
  <2>2. CASE m \notin CurrentModules
    <3>1. LessonsOf(m)' = {}
      BY <1>2, <2>2
    <3>2. Positions(Cardinality({})) = {}
      BY FS_EmptySet DEF Positions
    <3> QED BY <3>1, <3>2 DEF LessonsFilled
  <2> QED BY <2>1, <2>2
<1> QED BY <1>3, <1>4, <1>5 DEF Outline, OutlineHasNoGaps, ModulesFilled, LessonsFilled

\* A created Module finds its place among the others.
LEMMA CreateModuleKeepsOutline ==
  ASSUME Outline, NEW m \in Modules, NEW position \in Nat, CreateModuleAtPosition(m, position)
  PROVE  Outline'
<1> DEFINE f == [x \in Modules |-> module[x].position]
           g == [x \in Modules |-> module'[x].position]
<1> USE DEF Outline
<1>1. module[m] = Absent
  BY DEF CreateModuleAtPosition, CurrentModules
<1>2. module'[m] = [position |-> position, revision |-> 1] /\ module'[m] \in ModuleRow
  <2>1. [position |-> position, revision |-> 1] \in ModuleRow
    BY DEF ModuleRow
  <2> QED BY <2>1 DEF CreateModuleAtPosition, CreateModule, ShiftModulesAtPosition
<1>3. \A x \in Modules \ {m} :
         module'[x] = IF module[x] # Absent /\ module[x].position >= position
                      THEN SetModulePosition(module[x], module[x].position + 1) ELSE module[x]
  BY DEF CreateModuleAtPosition, CreateModule, ShiftModulesAtPosition
<1>4. ASSUME NEW x \in CurrentModules
      PROVE  /\ module'[x] \in ModuleRow
             /\ module'[x].position = IF module[x].position >= position
                                      THEN module[x].position + 1 ELSE module[x].position
  <2>1. x \in Modules \ {m} /\ module[x] \in ModuleRow /\ module[x] # Absent
    BY <1>1, CurrentRows DEF CurrentModules
  <2>2. module[x].position + 1 \in Nat
    BY <2>1 DEF ModuleRow
  <2>3. /\ SetModulePosition(module[x], module[x].position + 1) \in ModuleRow
        /\ SetModulePosition(module[x], module[x].position + 1).position = module[x].position + 1
    BY <2>1, <2>2, ModuleRows
  <2> QED BY <1>3, <2>1, <2>3
<1>5. \A x \in Modules \ {m} : module[x] = Absent => module'[x] = Absent
  BY <1>3
<1>6. module' \in [Modules -> ModuleRow \cup {Absent}]
  <2>1. \A x \in Modules : module'[x] \in ModuleRow \cup {Absent}
    BY <1>2, <1>4, <1>5 DEF CurrentModules
  <2>2. module' = [x \in Modules |-> module'[x]]
    BY DEF CreateModuleAtPosition, CreateModule, ShiftModulesAtPosition
  <2> QED BY <2>1, <2>2
<1>7. CurrentModules' = CurrentModules \cup {m} /\ m \notin CurrentModules
  BY <1>1, <1>2, <1>4, <1>5, StructureAssumption DEF CurrentModules
<1>8. ModulesFilled'
  <2>1. IsFiniteSet(CurrentModules) /\ CurrentModules \subseteq Modules
    BY CurrentRows
  <2>2. Numbers(f, CurrentModules)
    BY <2>1 DEF OutlineHasNoGaps, Numbers
  <2>3. position <= Cardinality(CurrentModules)
    BY DEF CreateModuleAtPosition
  <2>4. g[m] = position
    BY <1>2
  <2>5. \A x \in CurrentModules : g[x] = IF f[x] >= position THEN f[x] + 1 ELSE f[x]
    BY <1>4, <2>1
  <2>6. Numbers(g, CurrentModules \cup {m})
    BY <1>7, <2>1, <2>2, <2>3, <2>4, <2>5, Inserted
  <2> QED BY <1>7, <2>1, <2>6 DEF Numbers, ModulesFilled
<1>9. LessonsOf(m) = {}
  BY <1>7 DEF NothingDangles, LessonsOf
<1> QED BY <1>6, <1>7, <1>8, <1>9, LessonsRest DEF CreateModuleAtPosition

\* A complete order numbers the Modules again.
LEMMA ReorderModulesKeepsOutline ==
  ASSUME Outline, NEW order \in Bijection(CurrentModules, Positions(Cardinality(CurrentModules))),
         ReorderModules(order)
  PROVE  Outline'
<1> USE DEF Outline
<1>1. /\ order \in [CurrentModules -> Positions(Cardinality(CurrentModules))]
      /\ \A i \in Positions(Cardinality(CurrentModules)) : \E m \in CurrentModules : order[m] = i
  BY DEF Bijection, Surjection
<1>2. CurrentModules \subseteq Modules /\ IsFiniteSet(CurrentModules)
      /\ \A m \in CurrentModules : module[m] \in ModuleRow
  BY CurrentRows
<1>3. ASSUME NEW m \in CurrentModules
      PROVE  module'[m] \in ModuleRow /\ module'[m].position = order[m]
  <2>1. order[m] \in Nat
    BY <1>1, <1>2, FS_CardinalityType DEF Positions
  <2>2. module'[m] = SetModulePosition(module[m], order[m])
    BY <1>2 DEF ReorderModules
  <2> QED BY <1>2, <2>1, <2>2, ModuleRows
<1>4. \A m \in Modules \ CurrentModules : module'[m] = Absent
  BY DEF ReorderModules
<1>5. module' \in [Modules -> ModuleRow \cup {Absent}]
  <2>1. \A m \in Modules : module'[m] \in ModuleRow \cup {Absent}
    BY <1>3, <1>4
  <2> QED BY <2>1 DEF ReorderModules
<1>6. CurrentModules' = CurrentModules
  BY <1>2, <1>3, <1>4, StructureAssumption DEF CurrentModules
<1>7. {module'[m].position : m \in CurrentModules} = Positions(Cardinality(CurrentModules))
  BY <1>1, <1>3
<1>8. ModulesFilled'
  BY <1>6, <1>7 DEF ModulesFilled
<1> QED BY <1>5, <1>6, <1>8, LessonsRest DEF ReorderModules

\* Metadata leaves every Module in its place.
LEMMA UpdateModuleKeepsOutline ==
  ASSUME Outline, NEW m \in CurrentModules, UpdateModuleMetadata(m)
  PROVE  Outline'
<1> USE DEF Outline
<1>1. m \in Modules /\ module[m] \in ModuleRow /\ module[m] # Absent
  BY CurrentRows DEF CurrentModules
<1>2. module' = [module EXCEPT ![m] = Touch(module[m])]
  BY DEF UpdateModuleMetadata
<1>3. Touch(module[m]) \in ModuleRow /\ Touch(module[m]).position = module[m].position
  BY <1>1, ModuleRows
<1>4. module' \in [Modules -> ModuleRow \cup {Absent}]
  BY <1>2, <1>3 DEF TypeInv
<1>5. ModulesStay
  BY <1>1, <1>2, <1>3, StructureAssumption DEF ModulesStay, TypeInv
<1>6. CurrentModules' = CurrentModules /\ ModulesFilled'
  BY <1>5, ModulesStayFilled, OutlineFromParts
<1> QED BY <1>4, <1>6, LessonsRest DEF UpdateModuleMetadata

\* A deleted Module leaves no gap.
LEMMA DeleteModuleKeepsOutline ==
  ASSUME Outline, NEW m \in CurrentModules, DeleteEmptyModule(m)
  PROVE  Outline'
<1> DEFINE f == [x \in Modules |-> module[x].position]
           g == [x \in Modules |-> module'[x].position]
<1> USE DEF Outline
<1>1. /\ CurrentModules \subseteq Modules /\ IsFiniteSet(CurrentModules)
      /\ \A x \in CurrentModules : module[x] \in ModuleRow /\ module[x].position \in Nat
  BY CurrentRows DEF ModuleRow
<1>2. module'[m] = Absent
  BY <1>1 DEF DeleteEmptyModule, CompactModulePositionsAfter, DeleteModuleForDraft, TypeInv
<1>3. \A x \in Modules \ {m} :
         module'[x] = IF module[x] # Absent /\ module[x].position > module[m].position
                      THEN SetModulePosition(module[x], module[x].position - 1) ELSE module[x]
  BY DEF DeleteEmptyModule, CompactModulePositionsAfter, DeleteModuleForDraft, TypeInv
<1>4. ASSUME NEW x \in CurrentModules \ {m}
      PROVE  /\ module'[x] \in ModuleRow
             /\ module'[x].position = IF module[x].position > module[m].position
                                      THEN module[x].position - 1 ELSE module[x].position
  <2>1. x \in Modules /\ module[x] \in ModuleRow /\ module[x] # Absent
    BY <1>1 DEF CurrentModules
  <2>2. CASE module[x].position > module[m].position
    <3>1. module[x].position - 1 \in Nat
      BY <1>1, <2>2
    <3>2. /\ SetModulePosition(module[x], module[x].position - 1) \in ModuleRow
          /\ SetModulePosition(module[x], module[x].position - 1).position = module[x].position - 1
      BY <2>1, <3>1, ModuleRows
    <3> QED BY <1>3, <2>1, <2>2, <3>2
  <2>3. CASE ~(module[x].position > module[m].position)
    BY <1>3, <2>1, <2>3
  <2> QED BY <2>2, <2>3
<1>5. \A x \in Modules \ CurrentModules : module'[x] = Absent
  BY <1>3 DEF CurrentModules
<1>6. module' \in [Modules -> ModuleRow \cup {Absent}]
  <2>1. \A x \in Modules : module'[x] \in ModuleRow \cup {Absent}
    BY <1>2, <1>4, <1>5
  <2> QED BY <2>1 DEF DeleteEmptyModule, CompactModulePositionsAfter
<1>7. CurrentModules' = CurrentModules \ {m}
  BY <1>1, <1>2, <1>4, <1>5, StructureAssumption DEF CurrentModules
<1>8. ModulesFilled'
  <2>1. Numbers(f, CurrentModules)
    BY <1>1 DEF OutlineHasNoGaps, Numbers
  <2>2. \A x \in CurrentModules \ {m} : g[x] = IF f[x] > f[m] THEN f[x] - 1 ELSE f[x]
    BY <1>1, <1>4
  <2>3. Numbers(g, CurrentModules \ {m})
    BY <1>1, <2>1, <2>2, Removed
  <2> QED BY <1>1, <1>7, <2>3 DEF Numbers, ModulesFilled
<1>9. LessonsOf(m) = {}
  BY DEF DeleteEmptyModule
<1> QED BY <1>6, <1>7, <1>8, <1>9, LessonsRest DEF DeleteEmptyModule

-----------------------------------------------------------------------------
(* Lessons *)

\* What rests when Modules only advance their revision.
LEMMA ModulesRest ==
  ASSUME Outline, ModulesStay, module' \in [Modules -> ModuleRow \cup {Absent}],
         lesson' \in [Lessons -> LessonRow \cup {Absent}], prereq' \subseteq PrereqRow,
         \A l \in CurrentLessons' : lesson'[l].module \in CurrentModules,
         \A row \in prereq' : {row.lesson, row.target} \subseteq CurrentLessons',
         \A m \in CurrentModules : LessonsFilled(m)'
  PROVE  Outline'
<1>1. CurrentModules' = CurrentModules /\ ModulesFilled'
  BY ModulesStayFilled, OutlineFromParts
<1>2. TypeInv' /\ NothingDangles'
  BY <1>1 DEF TypeInv, NothingDangles
<1>3. \A m \in CurrentModules' : LessonsFilled(m)'
  BY <1>1
<1> QED BY <1>1, <1>2, <1>3 DEF Outline, OutlineHasNoGaps, ModulesFilled, LessonsFilled

\* A Module whose revision advances stays where it is.
LEMMA TouchModule ==
  ASSUME TypeInv, NEW m \in CurrentModules, module' = [module EXCEPT ![m] = Touch(module[m])]
  PROVE  module' \in [Modules -> ModuleRow \cup {Absent}] /\ ModulesStay
<1>1. m \in Modules /\ module[m] \in ModuleRow /\ module[m] # Absent
  BY CurrentRows DEF CurrentModules
<1>2. Touch(module[m]) \in ModuleRow /\ Touch(module[m]).position = module[m].position
  BY <1>1, ModuleRows
<1>3. module' \in [Modules -> ModuleRow \cup {Absent}]
  BY <1>2 DEF TypeInv
<1>4. ModulesStay
  BY <1>1, <1>2, StructureAssumption DEF ModulesStay, TypeInv
<1> QED BY <1>3, <1>4

\* A Lesson whose revision advances stays where it is.
LEMMA TouchLesson ==
  ASSUME TypeInv, NEW l \in CurrentLessons, lesson' = [lesson EXCEPT ![l] = Touch(lesson[l])]
  PROVE  lesson' \in [Lessons -> LessonRow \cup {Absent}] /\ LessonsStay
<1>1. l \in Lessons /\ lesson[l] \in LessonRow /\ lesson[l] # Absent /\ lesson[l].module \in Modules
  BY CurrentRows DEF CurrentLessons, LessonRow
<1>2. /\ Touch(lesson[l]) \in LessonRow
      /\ Touch(lesson[l]).module = lesson[l].module
      /\ Touch(lesson[l]).position = lesson[l].position
  BY <1>1, LessonRows
<1>3. lesson' \in [Lessons -> LessonRow \cup {Absent}]
  BY <1>2 DEF TypeInv
<1>4. LessonsStay
  BY <1>1, <1>2, StructureAssumption DEF LessonsStay, LessonStays, TypeInv
<1> QED BY <1>3, <1>4

\* A created Lesson finds its place in its Module.
LEMMA CreateLessonKeepsOutline ==
  ASSUME Outline, NEW m \in CurrentModules, NEW l \in Lessons, NEW position \in Nat,
         CreateLessonAtPosition(m, l, position)
  PROVE  Outline'
<1> DEFINE f == [x \in Lessons |-> lesson[x].position]
           g == [x \in Lessons |-> lesson'[x].position]
           shifts(x) == lesson[x].module = m /\ lesson[x].position >= position
<1> USE DEF Outline
<1>1. lesson[l] = Absent /\ m \in Modules
  BY DEF CreateLessonAtPosition, CurrentLessons, CurrentModules
<1>2. /\ lesson'[l] \in LessonRow
      /\ lesson'[l].module = m
      /\ lesson'[l].position = position
  <2>1. [module |-> m, position |-> position, revision |-> 1] \in LessonRow
    BY <1>1 DEF LessonRow
  <2>2. lesson'[l] = [module |-> m, position |-> position, revision |-> 1]
    BY DEF CreateLessonAtPosition, CreateLesson, ShiftLessonsAtPosition
  <2> QED BY <2>1, <2>2
<1>3. \A x \in Lessons \ {l} :
         lesson'[x] = IF lesson[x] # Absent /\ shifts(x)
                      THEN SetLessonModuleAndPosition(lesson[x], m, lesson[x].position + 1)
                      ELSE lesson[x]
  BY DEF CreateLessonAtPosition, CreateLesson, ShiftLessonsAtPosition
<1>4. ASSUME NEW x \in CurrentLessons
      PROVE  /\ lesson'[x] \in LessonRow
             /\ lesson'[x].module = lesson[x].module
             /\ lesson'[x].position = IF shifts(x) THEN lesson[x].position + 1
                                      ELSE lesson[x].position
  <2>1. x \in Lessons \ {l} /\ lesson[x] \in LessonRow /\ lesson[x] # Absent
    BY <1>1, CurrentRows DEF CurrentLessons
  <2>2. lesson[x].position + 1 \in Nat
    BY <2>1 DEF LessonRow
  <2> DEFINE row == SetLessonModuleAndPosition(lesson[x], m, lesson[x].position + 1)
  <2>3. row \in LessonRow /\ row.module = m /\ row.position = lesson[x].position + 1
    BY <1>1, <2>1, <2>2, LessonRows
  <2>4. lesson'[x] = IF shifts(x) THEN row ELSE lesson[x]
    BY <1>3, <2>1
  <2> QED BY <2>1, <2>3, <2>4
<1>5. \A x \in Lessons \ {l} : lesson[x] = Absent => lesson'[x] = Absent
  BY <1>3
<1>6. lesson' \in [Lessons -> LessonRow \cup {Absent}]
  <2>1. \A x \in Lessons : lesson'[x] \in LessonRow \cup {Absent}
    BY <1>2, <1>4, <1>5 DEF CurrentLessons
  <2>2. lesson' = [x \in Lessons |-> lesson'[x]]
    BY DEF CreateLessonAtPosition, CreateLesson, ShiftLessonsAtPosition
  <2> QED BY <2>1, <2>2
<1>7. CurrentLessons' = CurrentLessons \cup {l} /\ l \notin CurrentLessons
  BY <1>1, <1>2, <1>4, <1>5, StructureAssumption DEF CurrentLessons
<1>8. module' \in [Modules -> ModuleRow \cup {Absent}] /\ ModulesStay
  BY TouchModule DEF CreateLessonAtPosition
<1>9. \A x \in CurrentLessons' : lesson'[x].module \in CurrentModules
  BY <1>2, <1>4, <1>7 DEF NothingDangles
<1>10. \A row \in prereq' : {row.lesson, row.target} \subseteq CurrentLessons'
  BY <1>7 DEF NothingDangles, CreateLessonAtPosition
<1>11. ASSUME NEW n \in CurrentModules
       PROVE  LessonsFilled(n)'
  <2>1. /\ LessonsOf(n) \subseteq CurrentLessons /\ IsFiniteSet(LessonsOf(n))
        /\ CurrentLessons \subseteq Lessons
    BY CurrentRows
  <2>2. CASE n = m
    <3>1. LessonsOf(m)' = LessonsOf(m) \cup {l} /\ l \notin LessonsOf(m)
      BY <1>2, <1>4, <1>7 DEF LessonsOf
    <3>2. Numbers(f, LessonsOf(m))
      BY <2>1, <2>2 DEF OutlineHasNoGaps, Numbers
    <3>3. position <= Cardinality(LessonsOf(m))
      BY DEF CreateLessonAtPosition
    <3>4. g[l] = position
      BY <1>2
    <3>5. \A x \in LessonsOf(m) : g[x] = IF f[x] >= position THEN f[x] + 1 ELSE f[x]
      BY <1>4, <2>1, <2>2 DEF LessonsOf
    <3>6. Numbers(g, LessonsOf(m) \cup {l})
      BY <2>1, <2>2, <3>1, <3>2, <3>3, <3>4, <3>5, Inserted
    <3> QED BY <2>1, <2>2, <3>1, <3>6 DEF Numbers, LessonsFilled
  <2>3. CASE n # m
    <3>1. LessonsOf(n)' = LessonsOf(n)
      BY <1>2, <1>4, <1>7, <2>3 DEF LessonsOf
    <3>2. \A x \in LessonsOf(n) : lesson'[x].position = lesson[x].position
      BY <1>4, <2>1, <2>3 DEF LessonsOf
    <3>3. {lesson'[x].position : x \in LessonsOf(n)} = {lesson[x].position : x \in LessonsOf(n)}
      BY <3>2
    <3> QED BY <3>1, <3>3 DEF OutlineHasNoGaps, LessonsFilled
  <2> QED BY <2>2, <2>3
<1>12. prereq' \subseteq PrereqRow
  BY DEF CreateLessonAtPosition, TypeInv
<1> QED BY <1>6, <1>8, <1>9, <1>10, <1>11, <1>12, ModulesRest

\* Metadata and content leave every Lesson in its place.
LEMMA UpdateLessonKeepsOutline ==
  ASSUME Outline, NEW l \in CurrentLessons, UpdateLesson(l)
  PROVE  Outline'
<1> USE DEF Outline
<1>1. lesson' \in [Lessons -> LessonRow \cup {Absent}] /\ LessonsStay
  BY TouchLesson DEF UpdateLesson
<1>2. /\ CurrentLessons' = CurrentLessons
      /\ \A m : LessonsOf(m)' = LessonsOf(m) /\ (LessonsFilled(m) => LessonsFilled(m)')
  BY <1>1, LessonsStayFilled
<1>3. ModulesStay /\ module' \in [Modules -> ModuleRow \cup {Absent}] /\ prereq' = prereq
  BY DEF UpdateLesson, ModulesStay, TypeInv
<1>4. \A x \in CurrentLessons' : lesson'[x].module \in CurrentModules
  BY <1>1, <1>2 DEF LessonsStay, LessonStays, CurrentLessons, NothingDangles
<1>5. \A m \in CurrentModules : LessonsFilled(m)'
  BY <1>2, OutlineFromParts
<1> QED BY <1>1, <1>2, <1>3, <1>4, <1>5, ModulesRest DEF TypeInv, NothingDangles

\* A complete layout numbers the Lessons of each Module again.
LEMMA ReorderLessonsKeepsOutline ==
  ASSUME Outline, NEW layout \in Layouts, ReorderLessons(layout)
  PROVE  Outline'
<1> USE DEF Outline
<1>1. /\ CurrentLessons \subseteq Lessons /\ CurrentModules \subseteq Modules
      /\ \A l \in CurrentLessons : lesson[l] \in LessonRow /\ lesson[l] # Absent
      /\ \A m \in CurrentModules : module[m] \in ModuleRow /\ module[m] # Absent
      /\ Cardinality(CurrentLessons) \in Nat
  BY CurrentRows, FS_CardinalityType DEF CurrentLessons, CurrentModules
<1>2. ASSUME NEW l \in CurrentLessons
      PROVE  /\ layout[l][1] \in CurrentModules /\ layout[l][2] \in Nat
             /\ lesson'[l] \in LessonRow
             /\ lesson'[l].module = layout[l][1]
             /\ lesson'[l].position = layout[l][2]
  <2>1. layout[l] \in CurrentModules \X Positions(Cardinality(CurrentLessons))
    BY DEF Layouts
  <2>2. layout[l][1] \in CurrentModules /\ layout[l][2] \in Nat
    BY <1>1, <2>1 DEF Positions
  <2>3. CASE l \in Moved(layout)
    <3> DEFINE row == SetLessonModuleAndPosition(lesson[l], layout[l][1], layout[l][2])
    <3>1. lesson'[l] = row
      BY <1>1, <2>3 DEF ReorderLessons, MoveLessons
    <3>2. row \in LessonRow /\ row.module = layout[l][1] /\ row.position = layout[l][2]
      BY <1>1, <2>2, LessonRows
    <3> QED BY <2>2, <3>1, <3>2
  <2>4. CASE l \notin Moved(layout)
    <3>1. lesson'[l] = lesson[l]
      BY <1>1, <2>4 DEF ReorderLessons, MoveLessons
    <3>2. layout[l] = <<lesson[l].module, lesson[l].position>>
      BY <2>4 DEF Moved
    <3> QED BY <1>1, <2>2, <3>1, <3>2
  <2> QED BY <2>3, <2>4
<1>3. \A l \in Lessons \ CurrentLessons : lesson'[l] = Absent
  BY DEF ReorderLessons, MoveLessons, Moved, CurrentLessons
<1>4. lesson' \in [Lessons -> LessonRow \cup {Absent}]
  <2>1. \A l \in Lessons : lesson'[l] \in LessonRow \cup {Absent}
    BY <1>2, <1>3
  <2> QED BY <2>1 DEF ReorderLessons, MoveLessons
<1>5. CurrentLessons' = CurrentLessons
  BY <1>1, <1>2, <1>3, StructureAssumption DEF CurrentLessons
<1>6. ASSUME NEW m \in Modules
      PROVE  /\ module[m] = Absent => module'[m] = Absent
             /\ module[m] # Absent => /\ module'[m] \in ModuleRow
                                      /\ module'[m].position = module[m].position
  <2>1. module'[m] = Touch(module[m]) \/ module'[m] = module[m]
    BY DEF ReorderLessons
  <2>2. CASE module[m] = Absent
    <3>1. \A l \in Moved(layout) : m \notin {lesson[l].module, layout[l][1]}
      BY <1>2, <2>2 DEF Moved, NothingDangles, CurrentModules
    <3> QED BY <2>2, <3>1 DEF ReorderLessons
  <2>3. CASE module[m] # Absent
    <3>1. module[m] \in ModuleRow
      BY <1>1, <2>3 DEF CurrentModules
    <3> QED BY <2>1, <2>3, <3>1, ModuleRows
  <2> QED BY <2>2, <2>3
<1>7. module' \in [Modules -> ModuleRow \cup {Absent}] /\ ModulesStay
  <2>1. \A m \in Modules : module'[m] \in ModuleRow \cup {Absent}
    BY <1>6
  <2>2. module' = [m \in Modules |-> module'[m]]
    BY DEF ReorderLessons
  <2> QED BY <1>6, <2>1, <2>2, StructureAssumption DEF ModulesStay
<1>8. ASSUME NEW m \in CurrentModules
      PROVE  LessonsFilled(m)'
  <2> DEFINE listed == {l \in CurrentLessons : layout[l][1] = m}
  <2>1. LessonsOf(m)' = listed
    BY <1>2, <1>5 DEF LessonsOf
  <2>2. {layout[l][2] : l \in listed} = Positions(Cardinality(listed))
    BY DEF Layouts
  <2>3. {lesson'[l].position : l \in listed} = {layout[l][2] : l \in listed}
    BY <1>2
  <2> QED BY <2>1, <2>2, <2>3 DEF LessonsFilled
<1>9. \A l \in CurrentLessons' : lesson'[l].module \in CurrentModules
  BY <1>2, <1>5
<1>10. prereq' = prereq
  BY DEF ReorderLessons
<1> QED BY <1>4, <1>5, <1>7, <1>8, <1>9, <1>10, ModulesRest DEF TypeInv, NothingDangles

\* Prerequisites join Lessons that are there.
LEMMA ReplacePrerequisitesKeepsOutline ==
  ASSUME Outline, NEW l \in CurrentLessons, NEW keys \in Lists(CurrentLessons \ {l}),
         ReplaceLessonPrerequisites(l, keys)
  PROVE  Outline'
<1> USE DEF Outline
<1>1. lesson' \in [Lessons -> LessonRow \cup {Absent}] /\ LessonsStay
  BY TouchLesson DEF ReplaceLessonPrerequisites
<1>2. /\ CurrentLessons' = CurrentLessons
      /\ \A m : LessonsOf(m)' = LessonsOf(m) /\ (LessonsFilled(m) => LessonsFilled(m)')
  BY <1>1, LessonsStayFilled
<1>3. ModulesStay /\ module' \in [Modules -> ModuleRow \cup {Absent}]
  BY DEF ReplaceLessonPrerequisites, ModulesStay, TypeInv
<1>4. \A x \in CurrentLessons' : lesson'[x].module \in CurrentModules
  BY <1>1, <1>2 DEF LessonsStay, LessonStays, CurrentLessons, NothingDangles
<1>5. \A m \in CurrentModules : LessonsFilled(m)'
  BY <1>2, OutlineFromParts
<1>6. ASSUME NEW row \in prereq'
      PROVE  row \in PrereqRow /\ {row.lesson, row.target} \subseteq CurrentLessons
  <2>1. CASE row \in prereq
    BY <2>1 DEF TypeInv, NothingDangles
  <2>2. CASE row \notin prereq
    <3>1. PICK i \in DOMAIN keys :
             row = [lesson |-> l, target |-> keys[i], position |-> i - 1]
      BY <2>2 DEF ReplaceLessonPrerequisites, AddPrerequisites, DeletePrerequisites
    <3>2. PICK n \in 0..Cardinality(CurrentLessons \ {l}) : keys \in [1..n -> CurrentLessons \ {l}]
      BY DEF Lists, Injection
    <3>3. i - 1 \in Nat /\ keys[i] \in CurrentLessons
      BY <3>2
    <3>4. CurrentLessons \subseteq Lessons
      BY CurrentRows
    <3> QED BY <3>1, <3>3, <3>4 DEF PrereqRow
  <2> QED BY <2>1, <2>2
<1>7. prereq' \subseteq PrereqRow
  BY <1>6
<1>8. \A row \in prereq' : {row.lesson, row.target} \subseteq CurrentLessons'
  BY <1>2, <1>6
<1> QED BY <1>1, <1>3, <1>4, <1>5, <1>7, <1>8, ModulesRest

\* A deleted Lesson leaves no gap, and no prerequisite that names it.
LEMMA DeleteLessonKeepsOutline ==
  ASSUME Outline, NEW l \in CurrentLessons, DeleteLesson(l)
  PROVE  Outline'
<1> DEFINE home == lesson[l].module
           f == [x \in Lessons |-> lesson[x].position]
           g == [x \in Lessons |-> lesson'[x].position]
           follows(x) == lesson[x].module = home /\ lesson[x].position > lesson[l].position
<1> USE DEF Outline
<1>1. /\ CurrentLessons \subseteq Lessons
      /\ \A x \in CurrentLessons : /\ lesson[x] \in LessonRow /\ lesson[x] # Absent
                                   /\ lesson[x].module \in Modules /\ lesson[x].position \in Nat
  BY CurrentRows DEF CurrentLessons, LessonRow
<1>2. lesson'[l] = Absent
  BY <1>1 DEF DeleteLesson, DeleteLessonForDraft, AdvanceLessonsAfterDeletion
<1>3. ASSUME NEW x \in CurrentLessons \ {l}
      PROVE  /\ lesson'[x] \in LessonRow
             /\ lesson'[x].module = lesson[x].module
             /\ lesson'[x].position = IF follows(x) THEN lesson[x].position - 1
                                      ELSE lesson[x].position
  <2> DEFINE row == SetLessonModuleAndPosition(lesson[x], lesson[x].module, lesson[x].position - 1)
  <2>1. CASE follows(x)
    <3>1. lesson[x].position - 1 \in Nat
      BY <1>1, <2>1
    <3>2. lesson'[x] = row
      BY <1>1, <2>1 DEF DeleteLesson, DeleteLessonForDraft, AdvanceLessonsAfterDeletion
    <3>3. lesson[x] \in LessonRow /\ lesson[x].module \in Modules
      BY <1>1
    <3>4. row \in LessonRow /\ row.module = lesson[x].module /\ row.position = lesson[x].position - 1
      BY <3>1, <3>3, LessonRows
    <3> QED BY <2>1, <3>2, <3>4
  <2>2. CASE ~follows(x)
    <3>1. lesson'[x] = Touch(lesson[x]) \/ lesson'[x] = lesson[x]
      BY <1>1, <2>2 DEF DeleteLesson, DeleteLessonForDraft, AdvanceLessonsAfterDeletion
    <3>2. /\ Touch(lesson[x]) \in LessonRow
          /\ Touch(lesson[x]).module = lesson[x].module
          /\ Touch(lesson[x]).position = lesson[x].position
      BY <1>1, LessonRows
    <3> QED BY <1>1, <2>2, <3>1, <3>2
  <2> QED BY <2>1, <2>2
<1>4. \A x \in Lessons \ CurrentLessons : lesson'[x] = Absent
  BY <1>1 DEF DeleteLesson, DeleteLessonForDraft, AdvanceLessonsAfterDeletion, CurrentLessons
<1>5. lesson' \in [Lessons -> LessonRow \cup {Absent}]
  <2>1. \A x \in Lessons : lesson'[x] \in LessonRow \cup {Absent}
    BY <1>2, <1>3, <1>4
  <2>2. lesson' = [x \in Lessons |-> lesson'[x]]
    BY DEF DeleteLesson, DeleteLessonForDraft, AdvanceLessonsAfterDeletion
  <2> QED BY <2>1, <2>2
<1>6. CurrentLessons' = CurrentLessons \ {l}
  BY <1>1, <1>2, <1>3, <1>4, StructureAssumption DEF CurrentLessons
<1>7. home \in CurrentModules
  BY DEF NothingDangles
<1>8. module' \in [Modules -> ModuleRow \cup {Absent}] /\ ModulesStay
  BY <1>7, TouchModule DEF DeleteLesson
<1>9. \A x \in CurrentLessons' : lesson'[x].module \in CurrentModules
  BY <1>3, <1>6 DEF NothingDangles
<1>10. prereq' = {row \in prereq : row.lesson # l /\ row.target # l}
  BY DEF DeleteLesson, DeletePrerequisites, DeleteIncomingPrerequisites
<1>11. /\ prereq' \subseteq PrereqRow
       /\ \A row \in prereq' : {row.lesson, row.target} \subseteq CurrentLessons'
  BY <1>6, <1>10 DEF TypeInv, NothingDangles
<1>12. ASSUME NEW m \in CurrentModules
       PROVE  LessonsFilled(m)'
  <2>1. LessonsOf(m) \subseteq CurrentLessons /\ IsFiniteSet(LessonsOf(m))
    BY CurrentRows
  <2>2. CASE m = home
    <3>1. LessonsOf(m)' = LessonsOf(m) \ {l} /\ l \in LessonsOf(m)
      BY <1>3, <1>6, <2>2 DEF LessonsOf
    <3>2. Numbers(f, LessonsOf(m))
      BY <1>1, <2>1 DEF OutlineHasNoGaps, Numbers
    <3>3. \A x \in LessonsOf(m) \ {l} : g[x] = IF f[x] > f[l] THEN f[x] - 1 ELSE f[x]
      BY <1>1, <1>3, <2>1, <2>2 DEF LessonsOf
    <3>4. Numbers(g, LessonsOf(m) \ {l})
      BY <2>1, <3>1, <3>2, <3>3, Removed
    <3> QED BY <1>1, <2>1, <3>1, <3>4 DEF Numbers, LessonsFilled
  <2>3. CASE m # home
    <3>1. LessonsOf(m)' = LessonsOf(m)
      BY <1>3, <1>6, <2>3 DEF LessonsOf
    <3>2. \A x \in LessonsOf(m) : lesson'[x].position = lesson[x].position
      BY <1>3, <2>1, <2>3 DEF LessonsOf
    <3>3. {lesson'[x].position : x \in LessonsOf(m)} = {lesson[x].position : x \in LessonsOf(m)}
      BY <3>2
    <3> QED BY <3>1, <3>3 DEF OutlineHasNoGaps, LessonsFilled
  <2> QED BY <2>2, <2>3
<1> QED BY <1>5, <1>8, <1>9, <1>11, <1>12, ModulesRest

-----------------------------------------------------------------------------
(* Theorems *)

\* The empty Draft is an outline.
LEMMA InitOutline == Init => Outline
<1> SUFFICES ASSUME Init PROVE Outline
  OBVIOUS
<1>1. CurrentModules = {} /\ CurrentLessons = {}
  BY DEF Init, CurrentModules, CurrentLessons
<1>2. TypeInv /\ NothingDangles
  BY <1>1 DEF Init, TypeInv, NothingDangles
<1>3. Positions(Cardinality({})) = {}
  BY FS_EmptySet DEF Positions
<1> QED BY <1>1, <1>2, <1>3 DEF Outline, OutlineHasNoGaps

\* Every operation leaves an outline.
LEMMA NextOutline == Outline /\ [Next]_vars => Outline'
<1> SUFFICES ASSUME Outline, [Next]_vars PROVE Outline'
  OBVIOUS
<1>1. ASSUME NEW m \in Modules, NEW position \in 0..Cardinality(Modules),
             CreateModuleAtPosition(m, position)
      PROVE  Outline'
  BY <1>1, CreateModuleKeepsOutline, StructureAssumption, FS_CardinalityType
<1>2. ASSUME NEW order \in Bijection(CurrentModules, Positions(Cardinality(CurrentModules))),
             ReorderModules(order)
      PROVE  Outline'
  BY <1>2, ReorderModulesKeepsOutline
<1>3. ASSUME NEW m \in CurrentModules, UpdateModuleMetadata(m)
      PROVE  Outline'
  BY <1>3, UpdateModuleKeepsOutline
<1>4. ASSUME NEW m \in CurrentModules, DeleteEmptyModule(m)
      PROVE  Outline'
  BY <1>4, DeleteModuleKeepsOutline
<1>5. ASSUME NEW m \in CurrentModules, NEW l \in Lessons, NEW position \in 0..Cardinality(Lessons),
             CreateLessonAtPosition(m, l, position)
      PROVE  Outline'
  BY <1>5, CreateLessonKeepsOutline, StructureAssumption, FS_CardinalityType
<1>6. ASSUME NEW layout \in Layouts, ReorderLessons(layout)
      PROVE  Outline'
  BY <1>6, ReorderLessonsKeepsOutline
<1>7. ASSUME NEW l \in CurrentLessons, UpdateLesson(l)
      PROVE  Outline'
  BY <1>7, UpdateLessonKeepsOutline
<1>8. ASSUME NEW l \in CurrentLessons, DeleteLesson(l)
      PROVE  Outline'
  BY <1>8, DeleteLessonKeepsOutline
<1>9. ASSUME NEW l \in CurrentLessons, NEW keys \in Lists(CurrentLessons \ {l}),
             ReplaceLessonPrerequisites(l, keys)
      PROVE  Outline'
  BY <1>9, ReplacePrerequisitesKeepsOutline
<1>10. CASE UNCHANGED vars
  <2>1. CurrentModules' = CurrentModules /\ CurrentLessons' = CurrentLessons
    BY <1>10 DEF vars, CurrentModules, CurrentLessons
  <2>2. \A m : LessonsOf(m)' = LessonsOf(m)
    BY <1>10, <2>1 DEF vars, LessonsOf
  <2>3. TypeInv' /\ NothingDangles'
    BY <1>10, <2>1 DEF vars, Outline, TypeInv, NothingDangles
  <2>4. OutlineHasNoGaps'
    BY <1>10, <2>1, <2>2 DEF vars, Outline, OutlineHasNoGaps
  <2> QED BY <2>3, <2>4 DEF Outline
<1> QED BY <1>1, <1>2, <1>3, <1>4, <1>5, <1>6, <1>7, <1>8, <1>9, <1>10 DEF Next

\* Whatever is created, moved and deleted, in any order, the Modules and the Lessons of
\* each are numbered 0, 1, ...: the CreateModuleAtPosition, ReorderLessonsForDraft,
\* DeleteLessonForDraft and other operations of postgres/structure.go.
THEOREM OutlineIsNumbered == Spec => []OutlineHasNoGaps
<1>1. Outline => OutlineHasNoGaps
  BY DEF Outline
<1> QED BY <1>1, InitOutline, NextOutline, PTL DEF Spec

\* No deletion of postgres/structure.go leaves a Lesson in a Module that is gone, or a
\* prerequisite of a Lesson that is gone.
THEOREM OutlineIsClosed == Spec => []NothingDangles
<1>1. Outline => NothingDangles
  BY DEF Outline
<1> QED BY <1>1, InitOutline, NextOutline, PTL DEF Spec

-----------------------------------------------------------------------------
(* Changes advance revisions *)

LessonSeen(l) ==
    lesson'[l] # Absent =>
        \/ lesson'[l].revision = lesson[l].revision + 1
        \/ lesson'[l] = lesson[l] /\ PrereqsOf(l)' = PrereqsOf(l)

ModuleSeen(m) ==
    module'[m] # Absent =>
        \/ module'[m].revision = module[m].revision + 1
        \/ /\ module'[m] = module[m]
           /\ LessonsOf(m)' = LessonsOf(m)
           /\ \A l \in LessonsOf(m) : lesson'[l].position = lesson[l].position

Seen == (\A l \in CurrentLessons : LessonSeen(l)) /\ (\A m \in CurrentModules : ModuleSeen(m))

\* The current rows can be touched and moved.
LEMMA RowsAdvance ==
  ASSUME TypeInv
  PROVE  /\ \A m \in CurrentModules, p \in Nat :
               /\ m \in Modules /\ module[m] # Absent /\ module[m].position \in Nat
               /\ Touch(module[m]).revision = module[m].revision + 1
               /\ SetModulePosition(module[m], p).revision = module[m].revision + 1
         /\ \A l \in CurrentLessons, m \in Modules, p \in Nat :
               /\ l \in Lessons /\ lesson[l] # Absent /\ lesson[l].position \in Nat
               /\ lesson[l].module \in Modules
               /\ Touch(lesson[l]).revision = lesson[l].revision + 1
               /\ SetLessonModuleAndPosition(lesson[l], m, p).revision = lesson[l].revision + 1
<1>1. ASSUME NEW m \in CurrentModules, NEW p \in Nat
      PROVE  /\ m \in Modules /\ module[m] # Absent /\ module[m].position \in Nat
             /\ Touch(module[m]).revision = module[m].revision + 1
             /\ SetModulePosition(module[m], p).revision = module[m].revision + 1
  <2>1. m \in Modules /\ module[m] # Absent /\ module[m] \in ModuleRow
    BY CurrentRows DEF CurrentModules
  <2>2. module[m].position \in Nat
    BY <2>1 DEF ModuleRow
  <2> QED BY <2>1, <2>2, ModuleRows
<1>2. ASSUME NEW l \in CurrentLessons, NEW m \in Modules, NEW p \in Nat
      PROVE  /\ l \in Lessons /\ lesson[l] # Absent /\ lesson[l].position \in Nat
             /\ lesson[l].module \in Modules
             /\ Touch(lesson[l]).revision = lesson[l].revision + 1
             /\ SetLessonModuleAndPosition(lesson[l], m, p).revision = lesson[l].revision + 1
  <2>1. l \in Lessons /\ lesson[l] # Absent /\ lesson[l] \in LessonRow
    BY CurrentRows DEF CurrentLessons
  <2>2. lesson[l].position \in Nat /\ lesson[l].module \in Modules
    BY <2>1 DEF LessonRow
  <2> QED BY <2>1, <2>2, LessonRows
<1> QED BY <1>1, <1>2

\* When only Modules change, their Lessons stay.
LEMMA ModuleChangesSeen ==
  ASSUME TypeInv, UNCHANGED <<lesson, prereq>>,
         \A m \in CurrentModules : \/ module'[m] = Absent
                                   \/ module'[m] = module[m]
                                   \/ module'[m].revision = module[m].revision + 1
  PROVE  Seen
BY DEF Seen, LessonSeen, ModuleSeen, PrereqsOf, LessonsOf, CurrentLessons

\* A Module that makes room tells of it.
LEMMA CreateModuleIsSeen ==
  ASSUME TypeInv, NEW m \in Modules, NEW position \in Nat, CreateModuleAtPosition(m, position)
  PROVE  Seen
<1>1. ASSUME NEW x \in CurrentModules
      PROVE  module'[x] = module[x] \/ module'[x].revision = module[x].revision + 1
  <2>1. x \in Modules \ {m} /\ module[x].position + 1 \in Nat
    BY RowsAdvance DEF CreateModuleAtPosition
  <2>2. module'[x] = module[x] \/ module'[x] = SetModulePosition(module[x], module[x].position + 1)
    BY <2>1 DEF CreateModuleAtPosition, CreateModule, ShiftModulesAtPosition
  <2> QED BY <2>1, <2>2, RowsAdvance
<1> QED BY <1>1, ModuleChangesSeen DEF CreateModuleAtPosition

\* A reordered Module tells of it.
LEMMA ReorderModulesIsSeen ==
  ASSUME TypeInv, NEW order \in Bijection(CurrentModules, Positions(Cardinality(CurrentModules))),
         ReorderModules(order)
  PROVE  Seen
<1>1. ASSUME NEW x \in CurrentModules
      PROVE  module'[x].revision = module[x].revision + 1
  <2>1. order[x] \in Positions(Cardinality(CurrentModules)) /\ Cardinality(CurrentModules) \in Nat
    BY CurrentRows, FS_CardinalityType DEF Bijection, Surjection
  <2>2. order[x] \in Nat
    BY <2>1 DEF Positions
  <2>3. module'[x] = SetModulePosition(module[x], order[x])
    BY RowsAdvance DEF ReorderModules, CurrentModules
  <2> QED BY <2>2, <2>3, RowsAdvance
<1> QED BY <1>1, ModuleChangesSeen DEF ReorderModules

\* A Module with new metadata tells of it.
LEMMA UpdateModuleIsSeen ==
  ASSUME TypeInv, NEW m \in CurrentModules, UpdateModuleMetadata(m)
  PROVE  Seen
<1>1. m \in Modules /\ Touch(module[m]).revision = module[m].revision + 1
  BY RowsAdvance
<1>2. \A x \in Modules : module'[x] = IF x = m THEN Touch(module[m]) ELSE module[x]
  BY DEF UpdateModuleMetadata, TypeInv
<1>3. CurrentModules \subseteq Modules
  BY DEF CurrentModules
<1> QED BY <1>1, <1>2, <1>3, ModuleChangesSeen DEF UpdateModuleMetadata

\* A Module that moves up tells of it.
LEMMA DeleteModuleIsSeen ==
  ASSUME TypeInv, NEW m \in CurrentModules, DeleteEmptyModule(m)
  PROVE  Seen
<1>1. ASSUME NEW x \in CurrentModules, module'[x] # Absent, module'[x] # module[x]
      PROVE  module'[x].revision = module[x].revision + 1
  <2>1. x \in Modules /\ module[x].position \in Nat /\ module[m].position \in Nat /\ m \in Modules
    BY RowsAdvance
  <2>2. /\ module[x].position > module[m].position
        /\ module'[x] = SetModulePosition(module[x], module[x].position - 1)
    BY <1>1, <2>1 DEF DeleteEmptyModule, CompactModulePositionsAfter, DeleteModuleForDraft, TypeInv
  <2>3. module[x].position - 1 \in Nat
    BY <2>1, <2>2
  <2> QED BY <2>2, <2>3, RowsAdvance
<1> QED BY <1>1, ModuleChangesSeen DEF DeleteEmptyModule

\* The Modules that a Lesson leaves or joins are touched.
LessonMoves(l, touched) ==
    /\ lesson[l] # Absent => lesson[l].module \in touched
    /\ lesson'[l] # Absent => lesson'[l].module \in touched

\* A Module is touched with the Lessons that change their place in it.
LEMMA LessonChangesSeen ==
  ASSUME TypeInv, NEW touched \in SUBSET CurrentModules,
         \A m \in CurrentModules : module'[m] = IF m \in touched THEN Touch(module[m]) ELSE module[m],
         \A l \in CurrentLessons : LessonSeen(l),
         \A l \in Lessons : LessonStays(l) \/ LessonMoves(l, touched)
  PROVE  Seen
<1>1. ASSUME NEW m \in CurrentModules \ touched
      PROVE  /\ LessonsOf(m)' = LessonsOf(m)
             /\ \A l \in LessonsOf(m) : lesson'[l].position = lesson[l].position
  BY <1>1 DEF LessonsOf, CurrentLessons, LessonStays, LessonMoves
<1>2. \A m \in CurrentModules : ModuleSeen(m)
  BY <1>1, RowsAdvance DEF ModuleSeen
<1> QED BY <1>2 DEF Seen

\* A Lesson that makes room tells of it, and so does its Module.
LEMMA CreateLessonIsSeen ==
  ASSUME TypeInv, NEW m \in CurrentModules, NEW l \in Lessons, NEW position \in Nat,
         CreateLessonAtPosition(m, l, position)
  PROVE  Seen
<1>1. l \notin CurrentLessons /\ prereq' = prereq /\ lesson'[l].module = m /\ lesson'[l] # Absent
  <2>1. [module |-> m, position |-> position, revision |-> 1] \in LessonRow
    BY RowsAdvance DEF LessonRow
  <2>2. lesson'[l] = [module |-> m, position |-> position, revision |-> 1]
    BY DEF CreateLessonAtPosition, CreateLesson, ShiftLessonsAtPosition
  <2> QED BY <2>1, <2>2, StructureAssumption DEF CreateLessonAtPosition
<1>2. ASSUME NEW x \in CurrentLessons
      PROVE  /\ lesson'[x] # Absent
             /\ lesson'[x].module = lesson[x].module
             /\ LessonSeen(x)
             /\ lesson'[x].position = lesson[x].position \/ lesson[x].module = m
  <2> DEFINE row == SetLessonModuleAndPosition(lesson[x], m, lesson[x].position + 1)
  <2>1. x \in Lessons \ {l} /\ lesson[x].position + 1 \in Nat /\ m \in Modules /\ lesson[x] # Absent
    BY <1>1, RowsAdvance
  <2>2. CASE lesson[x].module = m /\ lesson[x].position >= position
    <3>1. lesson'[x] = row
      BY <2>1, <2>2 DEF CreateLessonAtPosition, CreateLesson, ShiftLessonsAtPosition
    <3>2. row.revision = lesson[x].revision + 1
      BY <2>1, RowsAdvance
    <3>3. row \in LessonRow /\ row.module = m
      BY <2>1, CurrentRows, LessonRows
    <3> QED BY <2>2, <3>1, <3>2, <3>3, StructureAssumption DEF LessonSeen
  <2>3. CASE ~(lesson[x].module = m /\ lesson[x].position >= position)
    <3>1. lesson'[x] = lesson[x]
      BY <2>1, <2>3 DEF CreateLessonAtPosition, CreateLesson, ShiftLessonsAtPosition
    <3> QED BY <1>1, <2>1, <3>1 DEF LessonSeen, PrereqsOf
  <2> QED BY <2>2, <2>3
<1>3. ASSUME NEW x \in Lessons \ {l}, lesson[x] = Absent
      PROVE  lesson'[x] = Absent
  BY <1>3 DEF CreateLessonAtPosition, CreateLesson, ShiftLessonsAtPosition
<1>4. ASSUME NEW x \in Lessons
      PROVE  LessonStays(x) \/ LessonMoves(x, {m})
  <2>1. CASE x = l
    BY <1>1, <2>1 DEF CurrentLessons, LessonMoves
  <2>2. CASE x # l /\ lesson[x] = Absent
    BY <1>3, <2>2 DEF LessonStays
  <2>3. CASE x \in CurrentLessons
    BY <1>2, <2>3 DEF CurrentLessons, LessonStays, LessonMoves
  <2> QED BY <2>1, <2>2, <2>3 DEF CurrentLessons
<1>5. \A n \in CurrentModules : module'[n] = IF n \in {m} THEN Touch(module[n]) ELSE module[n]
  BY RowsAdvance DEF CreateLessonAtPosition, TypeInv
<1>6. {m} \in SUBSET CurrentModules
  OBVIOUS
<1> QED BY <1>2, <1>4, <1>5, <1>6, LessonChangesSeen

\* A Lesson that is touched in its place tells of it.
LEMMA TouchedLessonIsSeen ==
  ASSUME TypeInv, NEW l \in CurrentLessons, lesson' = [lesson EXCEPT ![l] = Touch(lesson[l])],
         module' = module, \A x \in CurrentLessons \ {l} : PrereqsOf(x)' = PrereqsOf(x)
  PROVE  Seen
<1>1. LessonsStay
  BY TouchLesson
<1>2. l \in Lessons /\ Touch(lesson[l]).revision = lesson[l].revision + 1
  <2>1. l \in Lessons /\ lesson[l] \in LessonRow /\ lesson[l].module \in Modules
    BY CurrentRows DEF LessonRow
  <2> QED BY <2>1, LessonRows
<1>3. \A x \in Lessons : lesson'[x] = IF x = l THEN Touch(lesson[l]) ELSE lesson[x]
  BY DEF TypeInv
<1>4. \A x \in CurrentLessons : LessonSeen(x)
  BY <1>2, <1>3 DEF LessonSeen, CurrentLessons
<1>5. {} \in SUBSET CurrentModules
  OBVIOUS
<1> QED BY <1>1, <1>4, <1>5, LessonChangesSeen DEF LessonsStay

\* Lessons that change their place tell of it, and the Modules that they leave or join.
LEMMA ReorderLessonsIsSeen ==
  ASSUME Outline, NEW layout \in Layouts, ReorderLessons(layout)
  PROVE  Seen
<1> DEFINE touched == {m \in CurrentModules :
                          \E l \in Moved(layout) : m \in {lesson[l].module, layout[l][1]}}
<1>1. TypeInv /\ prereq' = prereq
  BY DEF Outline, ReorderLessons
<1>2. ASSUME NEW l \in CurrentLessons
      PROVE  /\ LessonSeen(l) /\ lesson'[l] # Absent
             /\ LessonStays(l) \/ LessonMoves(l, touched)
  <2>1. l \in Lessons /\ lesson[l] # Absent /\ lesson[l] \in LessonRow
    BY <1>1, CurrentRows DEF CurrentLessons
  <2>2. CASE l \in Moved(layout)
    <3> DEFINE row == SetLessonModuleAndPosition(lesson[l], layout[l][1], layout[l][2])
    <3>1. layout[l] \in CurrentModules \X Positions(Cardinality(CurrentLessons))
      BY DEF Layouts
    <3>2. layout[l][1] \in CurrentModules /\ layout[l][1] \in Modules /\ layout[l][2] \in Nat
      <4>1. Cardinality(CurrentLessons) \in Nat
        BY <1>1, CurrentRows, FS_CardinalityType
      <4> QED BY <3>1, <4>1 DEF Positions, CurrentModules
    <3>3. lesson'[l] = row
      BY <2>1, <2>2 DEF ReorderLessons, MoveLessons
    <3>4. row.revision = lesson[l].revision + 1 /\ row \in LessonRow /\ row.module = layout[l][1]
      BY <2>1, <3>2, LessonRows
    <3>5. lesson[l].module \in CurrentModules
      BY DEF Outline, NothingDangles
    <3> QED BY <2>2, <3>2, <3>3, <3>4, <3>5, StructureAssumption DEF LessonSeen, LessonMoves
  <2>3. CASE l \notin Moved(layout)
    <3>1. lesson'[l] = lesson[l]
      BY <2>1, <2>3 DEF ReorderLessons, MoveLessons
    <3> QED BY <1>1, <2>1, <3>1 DEF LessonSeen, LessonStays, PrereqsOf
  <2> QED BY <2>2, <2>3
<1>3. \A x \in Lessons \ CurrentLessons : lesson'[x] = lesson[x]
  BY DEF ReorderLessons, MoveLessons, Moved
<1>4. \A x \in Lessons : LessonStays(x) \/ LessonMoves(x, touched)
  BY <1>2, <1>3 DEF CurrentLessons, LessonStays
<1>5. \A m \in CurrentModules : module'[m] = IF m \in touched THEN Touch(module[m]) ELSE module[m]
  BY <1>1, RowsAdvance DEF ReorderLessons
<1>6. touched \in SUBSET CurrentModules
  OBVIOUS
<1> HIDE DEF touched
<1> QED BY <1>1, <1>2, <1>4, <1>5, <1>6, LessonChangesSeen

\* What a deletion changes tells of it: followers, dependents and the Module.
LEMMA DeleteLessonIsSeen ==
  ASSUME Outline, NEW l \in CurrentLessons, DeleteLesson(l)
  PROVE  Seen
<1> DEFINE home == lesson[l].module
<1>1. TypeInv /\ home \in CurrentModules /\ l \in Lessons /\ lesson'[l] = Absent
  <2>1. TypeInv /\ home \in CurrentModules
    BY DEF Outline, NothingDangles
  <2>2. l \in Lessons
    BY DEF CurrentLessons
  <2> QED BY <2>1, <2>2 DEF DeleteLesson, DeleteLessonForDraft, AdvanceLessonsAfterDeletion
<1>2. ASSUME NEW x \in CurrentLessons \ {l}
      PROVE  /\ LessonSeen(x) /\ lesson'[x] # Absent
             /\ lesson'[x].module = lesson[x].module
             /\ lesson'[x].position = lesson[x].position \/ lesson[x].module = home
  <2> DEFINE follows  == lesson[x].module = home /\ lesson[x].position > lesson[l].position
             requires == \E row \in PrereqsOf(x) : row.target = l
             row      == SetLessonModuleAndPosition(lesson[x], lesson[x].module, lesson[x].position - 1)
  <2>1. /\ x \in Lessons \ {l} /\ lesson[x] # Absent /\ lesson[x] \in LessonRow
        /\ lesson[x].position \in Nat /\ lesson[l].position \in Nat /\ lesson[x].module \in Modules
    BY <1>1, RowsAdvance, CurrentRows
  <2>2. CASE follows
    <3>1. lesson[x].position - 1 \in Nat
      BY <2>1, <2>2
    <3>2. lesson'[x] = row
      BY <2>1, <2>2 DEF DeleteLesson, DeleteLessonForDraft, AdvanceLessonsAfterDeletion
    <3>3. lesson[x] \in LessonRow /\ lesson[x].module \in Modules
      BY <2>1
    <3>4. row.revision = lesson[x].revision + 1 /\ row \in LessonRow /\ row.module = lesson[x].module
      BY <3>1, <3>3, LessonRows
    <3> QED BY <2>2, <3>2, <3>4, StructureAssumption DEF LessonSeen
  <2>3. CASE ~follows /\ requires
    <3>1. lesson'[x] = Touch(lesson[x])
      BY <2>1, <2>3 DEF DeleteLesson, DeleteLessonForDraft, AdvanceLessonsAfterDeletion
    <3>2. /\ Touch(lesson[x]).revision = lesson[x].revision + 1 /\ Touch(lesson[x]) \in LessonRow
          /\ Touch(lesson[x]).module = lesson[x].module
          /\ Touch(lesson[x]).position = lesson[x].position
      BY <2>1, LessonRows
    <3> QED BY <3>1, <3>2, StructureAssumption DEF LessonSeen
  <2>4. CASE ~follows /\ ~requires
    <3>1. lesson'[x] = lesson[x]
      BY <2>1, <2>4 DEF DeleteLesson, DeleteLessonForDraft, AdvanceLessonsAfterDeletion
    <3>2. PrereqsOf(x)' = PrereqsOf(x)
      BY <2>1, <2>4 DEF DeleteLesson, DeletePrerequisites, DeleteIncomingPrerequisites, PrereqsOf
    <3> QED BY <2>1, <3>1, <3>2 DEF LessonSeen
  <2> QED BY <2>2, <2>3, <2>4
<1>3. \A x \in Lessons \ CurrentLessons : lesson'[x] = Absent
  BY <1>1 DEF DeleteLesson, DeleteLessonForDraft, AdvanceLessonsAfterDeletion, CurrentLessons
<1>4. ASSUME NEW x \in Lessons
      PROVE  LessonStays(x) \/ LessonMoves(x, {home})
  <2>1. CASE x = l
    BY <1>1, <2>1 DEF LessonMoves
  <2>2. CASE x \notin CurrentLessons
    BY <1>3, <2>2 DEF CurrentLessons, LessonStays
  <2>3. CASE x \in CurrentLessons \ {l}
    BY <1>2, <2>3 DEF CurrentLessons, LessonStays, LessonMoves
  <2> QED BY <2>1, <2>2, <2>3
<1>5. \A m \in CurrentModules : module'[m] = IF m \in {home} THEN Touch(module[m]) ELSE module[m]
  BY <1>1, RowsAdvance DEF DeleteLesson, TypeInv
<1>6. {home} \in SUBSET CurrentModules
  BY <1>1
<1>7. \A x \in CurrentLessons : LessonSeen(x)
  BY <1>1, <1>2 DEF LessonSeen
<1> HIDE DEF home
<1> QED BY <1>1, <1>4, <1>5, <1>6, <1>7, LessonChangesSeen

\* Whatever an operation of postgres/structure.go moves, renumbers or deletes, the revision
\* of every row that a client could have seen otherwise advances by exactly one.
THEOREM RevisionsTellOfChanges == Spec => ChangesAreVisible
<1>1. ASSUME Outline, Next
      PROVE  Seen
  <2>1. TypeInv
    BY <1>1 DEF Outline
  <2>2. ASSUME NEW m \in Modules, NEW position \in 0..Cardinality(Modules),
               CreateModuleAtPosition(m, position)
        PROVE  Seen
    BY <2>1, <2>2, CreateModuleIsSeen, StructureAssumption, FS_CardinalityType
  <2>3. ASSUME NEW order \in Bijection(CurrentModules, Positions(Cardinality(CurrentModules))),
               ReorderModules(order)
        PROVE  Seen
    BY <2>1, <2>3, ReorderModulesIsSeen
  <2>4. ASSUME NEW m \in CurrentModules, UpdateModuleMetadata(m) \/ DeleteEmptyModule(m)
        PROVE  Seen
    BY <2>1, <2>4, UpdateModuleIsSeen, DeleteModuleIsSeen
  <2>5. ASSUME NEW m \in CurrentModules, NEW l \in Lessons,
               NEW position \in 0..Cardinality(Lessons), CreateLessonAtPosition(m, l, position)
        PROVE  Seen
    BY <2>1, <2>5, CreateLessonIsSeen, StructureAssumption, FS_CardinalityType
  <2>6. ASSUME NEW layout \in Layouts, ReorderLessons(layout)
        PROVE  Seen
    BY <1>1, <2>6, ReorderLessonsIsSeen
  <2>7. ASSUME NEW l \in CurrentLessons, UpdateLesson(l)
        PROVE  Seen
    BY <2>1, <2>7, TouchedLessonIsSeen DEF UpdateLesson, PrereqsOf
  <2>8. ASSUME NEW l \in CurrentLessons, DeleteLesson(l)
        PROVE  Seen
    BY <1>1, <2>8, DeleteLessonIsSeen
  <2>9. ASSUME NEW l \in CurrentLessons, NEW keys \in Lists(CurrentLessons \ {l}),
               ReplaceLessonPrerequisites(l, keys)
        PROVE  Seen
    <3>1. \A x \in CurrentLessons \ {l} : PrereqsOf(x)' = PrereqsOf(x)
      BY <2>9 DEF ReplaceLessonPrerequisites, AddPrerequisites, DeletePrerequisites, PrereqsOf
    <3> QED BY <2>1, <2>9, <3>1, TouchedLessonIsSeen DEF ReplaceLessonPrerequisites
  <2> QED BY <1>1, <2>2, <2>3, <2>4, <2>5, <2>6, <2>7, <2>8, <2>9 DEF Next
<1>2. Outline /\ [Next]_vars =>
        [/\ \A l \in CurrentLessons :
               lesson'[l] # Absent =>
                     \/ lesson'[l].revision = lesson[l].revision + 1
                     \/ lesson'[l] = lesson[l] /\ PrereqsOf(l)' = PrereqsOf(l)
         /\ \A m \in CurrentModules :
               module'[m] # Absent =>
                     \/ module'[m].revision = module[m].revision + 1
                     \/ /\ module'[m] = module[m]
                        /\ LessonsOf(m)' = LessonsOf(m)
                        /\ \A l \in LessonsOf(m) : lesson'[l].position = lesson[l].position]_vars
  BY <1>1 DEF Seen, LessonSeen, ModuleSeen
<1> QED BY <1>2, InitOutline, NextOutline, PTL DEF Spec, ChangesAreVisible

=============================================================================
