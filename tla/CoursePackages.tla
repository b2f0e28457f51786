----------------------------- MODULE CoursePackages -----------------------------
(***************************************************************************)
(* A course on its way: from a frozen review to a published version, into a  *)
(* package, through the reader of another academy and into its store.        *)
(*                                                                         *)
(* Each station checks the course with rules of its own: Authoring when it   *)
(* is submitted and published, Courses when it is stored, the exporter, and   *)
(* the reader.  What one lets pass the next must accept.  The texts of a      *)
(* course matter only as sound or not: title, description, payload, prompt.   *)
(* Keys of assets and assessments are numbers, for their order is checked.    *)
(*                                                                         *)
(* Some things no rule about content can settle, and a course is refused for   *)
(* them with an answer that says so: a package beyond the limits of the        *)
(* reader, a widget whose release the other academy does not have, an asset    *)
(* that its storage does not take, a version that is no longer PUBLISHED.      *)
(***************************************************************************)
EXTENDS Integers, FiniteSets, SequencesExt, Services

CONSTANTS
    Drafts,            \* drafts under review, each of a course of its own
    Snapshot,          \* what each review has frozen
    License,           \* and the license it names
    Assets,            \* the managed assets of the drafts, by key
    TargetLanguages,   \* languages that a published course is translated to
    Widgets,           \* the releases of plugins that widgets are pinned to
    MaxLessonBlocks,
    MaxAssets,         \* limits of the reader: assets,
    MaxTranslations,   \* translations,
    Oversized,         \* and what its other limits refuse, by draft and languages: too many
                       \* or too large entries, too much of them, too well compressed
    MaxPackages,       \* bound on what is exported
    MaxTokens          \* bound on the tokens that the node gives at a time

BlockKinds == {"TEXT", "HEADING", "IMAGE", "VIDEO", "AUDIO", "CODE", "QUOTE", "CALLOUT", "TABLE",
               "DOWNLOAD", "KNOWLEDGE_CHECK", "DIVIDER", "PLUGIN_WIDGET"}

QuestionTypes == {"SINGLE_CHOICE", "MULTIPLE_CHOICE", "MATCHING"}

\* A review as it is frozen; what its fields must say is for the validators.
FrozenBlocks == [key : STRING, type : BlockKinds, sound : BOOLEAN, titled : BOOLEAN,
                 asset : Nat \cup {None}, captions : Nat \cup {None}, transcript : Nat \cup {None},
                 check : Nat \cup {None}, widget : Widgets \cup {None}]

FrozenLessons == [key : STRING, position : Int, sound : BOOLEAN, objectives : Nat,
                  requires : Seq(STRING), blocks : Seq(FrozenBlocks)]

FrozenModules == [key : STRING, position : Int, sound : BOOLEAN, lessons : Seq(FrozenLessons)]

FrozenItems == [key : STRING, position : Int]

FrozenQuestions == [key : STRING, position : Int, sound : BOOLEAN, type : QuestionTypes,
                    options : Seq(FrozenItems), correct : Seq(STRING), left : Seq(FrozenItems),
                    right : Seq(FrozenItems), pairs : Seq(STRING \X STRING)]

FrozenAssessments == [key : Nat, questions : Seq(FrozenQuestions)]

FrozenReviews == [sound : BOOLEAN, objectives : Nat, modules : Seq(FrozenModules),
                  assessments : Seq(FrozenAssessments)]

ASSUME CoursePackagesAssumption ==
    /\ DOMAIN Snapshot = Drafts /\ DOMAIN License = Drafts
    /\ \A d \in Drafts : Snapshot[d] \in FrozenReviews
    /\ DOMAIN Assets \subseteq Nat /\ IsFiniteSet(DOMAIN Assets)
    /\ None \notin Drafts /\ None \notin DOMAIN Assets
    /\ None \notin Widgets /\ Oversized \subseteq Drafts \X SUBSET TargetLanguages
    /\ MaxLessonBlocks \in Nat /\ MaxAssets \in Nat /\ MaxTranslations \in Nat
    /\ MaxPackages \in Nat /\ MaxTokens \in Nat

VARIABLES
    versions,  \* at home: the stored versions, by the draft they come from
    trees,     \* at home: the languages in which each has a published translation
    packages,  \* the files that exports have answered with
    previews,  \* away: the packages that the node holds, validated, for a token
    imports,   \* away: import records with the version that each has made
    available, \* away: the releases that may be placed: enabled, and trusted
    job        \* the requests in flight, on either side

packageVars == <<versions, trees, packages, previews, imports, available, job>>

-----------------------------------------------------------------------------
(* Rules that several stations share *)

InPlace(list) == \A i \in DOMAIN list : list[i].position = i - 1

UniqueKeys(list) == \A i, j \in DOMAIN list : list[i].key = list[j].key => i = j

Ascending(list) == \A i \in 2..Len(list) : list[i - 1].key < list[i].key

\* LessonContent.Validate: every block sound for its type, under a key of its own.
ValidContent(blocks) ==
    /\ Len(blocks) <= MaxLessonBlocks
    /\ UniqueKeys(blocks)
    /\ \A b \in ToSet(blocks) : b.type \in BlockKinds /\ b.sound

\* The lessons of all modules, each at the place of its module and its own.
PlacesOf(modules) == UNION {{<<i, j>> : j \in DOMAIN modules[i].lessons} : i \in DOMAIN modules}

LessonsOf(modules) == [place \in PlacesOf(modules) |-> modules[place[1]].lessons[place[2]]]

BlocksOf(modules) == UNION {ToSet(l.blocks) : l \in ToSet(LessonsOf(modules))}

ChecksOf(modules) == {b.check : b \in {x \in BlocksOf(modules) : x.type = "KNOWLEDGE_CHECK"}}

ValidPrerequisites(l, keys) ==
    /\ l.key \notin ToSet(l.requires)
    /\ IsInjective(l.requires)
    /\ ToSet(l.requires) \subseteq keys

KeysOf(list) == {x.key : x \in ToSet(list)}

\* sort.Slice by key, of bindings whose keys differ: the one in place i has i - 1 before it.
ByKey(bindings) ==
    [i \in 1..Cardinality(bindings) |->
        CHOOSE b \in bindings : Cardinality({c \in bindings : c.key < b.key}) = i - 1]

-----------------------------------------------------------------------------
(* Assessments: what the editor accepts, and what Courses stores *)

\* assessments.validateChoices
ValidChoices(q) ==
    /\ Len(q.options) \in 2..20
    /\ InPlace(q.options) /\ UniqueKeys(q.options)
    /\ ToSet(q.correct) \subseteq KeysOf(q.options) /\ IsInjective(q.correct)

\* assessments.validateMatching: a pair for every item of either side.
ValidMatching(q) ==
    /\ Len(q.left) \in 1..20 /\ Len(q.right) = Len(q.left) /\ Len(q.pairs) = Len(q.left)
    /\ InPlace(q.left) /\ UniqueKeys(q.left)
    /\ InPlace(q.right) /\ UniqueKeys(q.right)
    /\ \A pair \in ToSet(q.pairs) : pair[1] \in KeysOf(q.left) /\ pair[2] \in KeysOf(q.right)
    /\ \A i, j \in DOMAIN q.pairs :
          i # j => q.pairs[i][1] # q.pairs[j][1] /\ q.pairs[i][2] # q.pairs[j][2]

ValidQuestion(q) ==
    CASE q.type = "MATCHING" -> q.options = <<>> /\ q.correct = <<>> /\ ValidMatching(q)
      [] OTHER ->
            /\ q.left = <<>> /\ q.right = <<>> /\ q.pairs = <<>>
            /\ IF q.type = "SINGLE_CHOICE" THEN Len(q.correct) = 1 ELSE q.correct # <<>>
            /\ ValidChoices(q)

\* AssessmentUpdate.Validate: an empty definition may still be edited.
EditorAccepts(questions) ==
    /\ Len(questions) <= 100
    /\ InPlace(questions) /\ UniqueKeys(questions)
    /\ \A q \in ToSet(questions) : q.sound /\ ValidQuestion(q)

\* courses.validatePublishedOptions
PublishedOptions(q) ==
    /\ 2 <= Len(q.options) /\ Len(q.options) <= 20
    /\ \A i \in DOMAIN q.options : q.options[i].position = i - 1
    /\ Cardinality(KeysOf(q.options)) = Len(q.options)
    /\ Cardinality(ToSet(q.correct)) = Len(q.correct) /\ ToSet(q.correct) \subseteq KeysOf(q.options)

\* courses.validatePublishedMatching: the pairs are a bijection.
PublishedMatching(q) ==
    /\ 1 <= Len(q.left) /\ Len(q.left) <= 20
    /\ InPlace(q.left) /\ InPlace(q.right)
    /\ Len(q.left) = Len(q.right) /\ Len(q.left) = Len(q.pairs)
    /\ Cardinality(KeysOf(q.left)) = Len(q.left) /\ Cardinality(KeysOf(q.right)) = Len(q.right)
    /\ {pair[1] : pair \in ToSet(q.pairs)} = KeysOf(q.left)
    /\ {pair[2] : pair \in ToSet(q.pairs)} = KeysOf(q.right)

PublishedQuestion(q) ==
    \/ /\ q.type \in {"SINGLE_CHOICE", "MULTIPLE_CHOICE"}
       /\ q.left \o q.right = <<>> /\ q.pairs = <<>>
       /\ q.correct # <<>> /\ (q.type = "SINGLE_CHOICE" => Len(q.correct) = 1)
       /\ PublishedOptions(q)
    \/ q.type = "MATCHING" /\ q.options = <<>> /\ q.correct = <<>> /\ PublishedMatching(q)

\* PublishedAssessmentBinding.Validate
ValidBinding(b) ==
    /\ Len(b.questions) \in 1..100
    /\ InPlace(b.questions) /\ UniqueKeys(b.questions)
    /\ \A q \in ToSet(b.questions) : q.sound /\ PublishedQuestion(q)

-----------------------------------------------------------------------------
(* Authoring *)

\* ReviewSnapshot.Validate
SnapshotAccepted(s) ==
    /\ s.sound
    /\ InPlace(s.modules) /\ UniqueKeys(s.modules) /\ \A m \in ToSet(s.modules) : m.sound
    /\ \A m \in ToSet(s.modules) : InPlace(m.lessons)
    /\ UniqueKeys(LessonsOf(s.modules))
    /\ \A l \in ToSet(LessonsOf(s.modules)) :
          /\ l.sound /\ ValidContent(l.blocks)
          /\ ValidPrerequisites(l, KeysOf(LessonsOf(s.modules)))
    /\ Ascending(s.assessments) /\ KeysOf(s.assessments) \subseteq ChecksOf(s.modules)
    /\ \A a \in ToSet(s.assessments) : EditorAccepts(a.questions)

Use(key, media) == [key |-> key, media |-> media]

\* Mutant of AssetUses: the transcript of a video is not looked up.
AssetUsesButTranscripts(b) ==
    CASE b.type = "IMAGE"    -> {Use(b.asset, "image")}
      [] b.type = "VIDEO"    -> {Use(b.asset, "video"), Use(b.captions, None)}
      [] b.type = "AUDIO"    -> {Use(b.asset, "audio")}
      [] b.type = "DOWNLOAD" -> {Use(b.asset, None)}
      [] OTHER               -> {}

\* publicationAssetUses: what a block shows, and the kind of media it asks for.
AssetUses(b) ==
    CASE b.type = "IMAGE"    -> {Use(b.asset, "image")}
      [] b.type = "VIDEO"    -> {Use(b.asset, "video"), Use(b.captions, None)}
                                \cup (IF b.transcript = None THEN {} ELSE {Use(b.transcript, None)})
      [] b.type = "AUDIO"    -> {Use(b.asset, "audio")}
                                \cup (IF b.transcript = None THEN {} ELSE {Use(b.transcript, None)})
      [] b.type = "DOWNLOAD" -> {Use(b.asset, None)}
      [] OTHER               -> {}

UsesOf(s) == UNION {AssetUses(b) : b \in BlocksOf(s.modules)}

\* Available, of this draft, and of the media its block asks for.
AssetIsUsable(d, use) ==
    /\ use.key \in DOMAIN Assets
    /\ Assets[use.key].owner = d /\ Assets[use.key].available
    /\ use.media \in {None, Assets[use.key].media}

\* Resolve: bindings in the order of their keys.
ResolvedAssets(s) ==
    ByKey({[key |-> u.key, media |-> Assets[u.key].media, digest |-> Assets[u.key].digest] : u \in UsesOf(s)})

\* resolvePublicationAssessments: only of what the review has frozen.
ResolvedAssessments(s) == ByKey({a \in ToSet(s.assessments) : a.key \in ChecksOf(s.modules)})

\* An assessment is there for each check and holds a question: else the author is told.
AssessmentsComplete(s) ==
    \A key \in ChecksOf(s.modules) : \E a \in ToSet(s.assessments) : a.key = key /\ a.questions # <<>>

\* validatePublicationStructure, with the metadata that Courses requires.
PublishableStructure(s) ==
    /\ s.sound /\ s.objectives > 0
    /\ \A i \in DOMAIN s.modules :
          LET m == s.modules[i] IN
          /\ m.position = i - 1 /\ m.sound
          /\ \A j \in DOMAIN s.modules : s.modules[j].key = m.key => i = j
          /\ \A j \in DOMAIN m.lessons : m.lessons[j].position = j - 1 /\ m.lessons[j].sound /\ m.lessons[j].objectives > 0
    /\ IsInjective([i \in DOMAIN LessonsOf(s.modules) |-> LessonsOf(s.modules)[i].key])

\* validatePublicationPrerequisites, for every lesson.
PublishablePrerequisites(s) ==
    \A l \in ToSet(LessonsOf(s.modules)) :
        \A i \in DOMAIN l.requires :
            /\ l.requires[i] # l.key
            /\ l.requires[i] \in KeysOf(LessonsOf(s.modules))
            /\ \A j \in 1..(i - 1) : l.requires[j] # l.requires[i]

\* validatePublicationLessonContent: key and payload of each block, and then its binding.
PublishableContent(s) ==
    \A l \in ToSet(LessonsOf(s.modules)) :
        /\ Len(l.blocks) <= MaxLessonBlocks
        /\ \A i, j \in DOMAIN l.blocks : l.blocks[i].key = l.blocks[j].key => i = j
        /\ \A b \in ToSet(l.blocks) :
              /\ b.sound
              /\ {u.key : u \in AssetUses(b)} \subseteq KeysOf(ResolvedAssets(s))
              /\ b.type = "KNOWLEDGE_CHECK" => b.check \in KeysOf(ResolvedAssessments(s))

\* Nothing that the author would be told stands against publication.
Publishable(d) ==
    LET s == Snapshot[d] IN
    /\ \A use \in UsesOf(s) : AssetIsUsable(d, use)
    /\ AssessmentsComplete(s)
    /\ PublishableStructure(s) /\ PublishablePrerequisites(s) /\ PublishableContent(s)

\* buildImmutableCourseVersion: a deep copy of the snapshot, under the bindings.
Converted(d) ==
    [course |-> d, license |-> License[d], sound |-> Snapshot[d].sound,
     objectives |-> Snapshot[d].objectives, modules |-> Snapshot[d].modules,
     assets |-> ResolvedAssets(Snapshot[d]), assessments |-> ResolvedAssessments(Snapshot[d])]

-----------------------------------------------------------------------------
(* Courses *)

Transcripts(b) == IF b.transcript = None THEN {} ELSE {Use(b.transcript, None)}

\* contentAssetReferences
AssetReferences(b) ==
    IF b.type = "IMAGE" THEN {Use(b.asset, "image")}
    ELSE IF b.type = "VIDEO" THEN {Use(b.asset, "video"), Use(b.captions, None)} \cup Transcripts(b)
    ELSE IF b.type = "AUDIO" THEN {Use(b.asset, "audio")} \cup Transcripts(b)
    ELSE IF b.type = "DOWNLOAD" THEN {Use(b.asset, None)} ELSE {}

\* Every binding is referenced, in ascending order, and every reference is bound.
BoundAssets(v) ==
    LET references == UNION {AssetReferences(b) : b \in BlocksOf(v.modules)} IN
    /\ Ascending(v.assets)
    /\ KeysOf(v.assets) = {r.key : r \in references}
    /\ \A r \in references, b \in ToSet(v.assets) : r.key = b.key => r.media \in {None, b.media}

BoundAssessments(v) ==
    /\ \A b \in ToSet(v.assessments) : ValidBinding(b)
    /\ Ascending(v.assessments)
    /\ KeysOf(v.assessments) = ChecksOf(v.modules)

\* ImmutableCourseVersion.ValidateForPersistence
Storable(v) ==
    /\ v.sound /\ v.objectives > 0
    /\ \A i \in DOMAIN v.modules :
          /\ v.modules[i].position = i - 1 /\ v.modules[i].sound
          /\ \A j \in DOMAIN v.modules[i].lessons :
                LET l == v.modules[i].lessons[j] IN
                l.position = j - 1 /\ l.sound /\ l.objectives > 0 /\ ValidContent(l.blocks)
    /\ UniqueKeys(v.modules) /\ UniqueKeys(LessonsOf(v.modules))
    /\ BoundAssets(v) /\ BoundAssessments(v)
    /\ \A l \in ToSet(LessonsOf(v.modules)) : ValidPrerequisites(l, KeysOf(LessonsOf(v.modules)))

-----------------------------------------------------------------------------
(* Translations: what must be translated of each block *)

\* buildBlocks: what counts for a translation that is published, or imported.
CountedTexts(b) ==
    CASE b.type \in {"TEXT", "HEADING"}   -> {"text"}
      [] b.type = "IMAGE"                 -> {"altText", "caption"}
      [] b.type \in {"VIDEO", "AUDIO"}    -> {"title", "transcript"}
      [] b.type = "CODE"                  -> IF b.titled THEN {"title"} ELSE {}
      [] b.type = "QUOTE"                 -> {"text", "attribution"}
      [] b.type = "CALLOUT"               -> {"title", "text"}
      [] b.type = "TABLE"                 -> {"caption"}
      [] b.type = "DOWNLOAD"              -> {"label", "description"}
      [] OTHER                            -> {}

\* translationComplete: what the reader looks for in a package.
RequiredTexts(b) ==
    CASE b.type \in {"TEXT", "HEADING"}   -> {"text"}
      [] b.type = "IMAGE"                 -> {"altText", "caption"}
      [] b.type \in {"VIDEO", "AUDIO"}    -> {"title"} \cup (IF b.transcript = None THEN {"transcript"} ELSE {})
      [] b.type = "CODE" /\ b.titled      -> {"title"}
      [] b.type = "QUOTE"                 -> {"text", "attribution"}
      [] b.type = "CALLOUT"               -> {"title", "text"}
      [] b.type = "TABLE"                 -> {"caption"}
      [] b.type = "DOWNLOAD"              -> {"label", "description"}
      [] OTHER                            -> {}

TextsOf(modules, names) ==
    UNION {UNION {{<<l.key, b.key, name>> : name \in names[b]} : b \in ToSet(l.blocks)} :
              l \in ToSet(LessonsOf(modules))}

CountedIn(modules) == TextsOf(modules, [b \in BlocksOf(modules) |-> CountedTexts(b)])

RequiredIn(modules) == TextsOf(modules, [b \in BlocksOf(modules) |-> RequiredTexts(b)])

-----------------------------------------------------------------------------
(* The exporter *)

ReferencesInExport(b) ==
    CASE b.type = "IMAGE"    -> {b.asset}
      [] b.type = "VIDEO"    -> {b.asset, b.captions, b.transcript} \ {None}
      [] b.type = "AUDIO"    -> {b.asset, b.transcript} \ {None}
      [] b.type = "DOWNLOAD" -> {b.asset}
      [] OTHER               -> {}

\* validateSource: of a stored version, once more before it leaves.
Exportable(v) ==
    /\ v.sound
    /\ UniqueKeys(v.assets)
    /\ UniqueKeys(v.assessments) /\ \A b \in ToSet(v.assessments) : ValidBinding(b)
    /\ UniqueKeys(LessonsOf(v.modules))
    /\ \A l \in ToSet(LessonsOf(v.modules)) :
          /\ ValidContent(l.blocks)
          /\ ToSet(l.requires) \subseteq KeysOf(LessonsOf(v.modules))
          /\ \A b \in ToSet(l.blocks) :
                /\ ReferencesInExport(b) \subseteq KeysOf(v.assets)
                /\ b.type = "KNOWLEDGE_CHECK" => b.check \in KeysOf(v.assessments)

\* makePayloads: the course and its assessments, without the ids that they have here.
PayloadFiles(v) ==
    [path \in {<<"course">>, <<"assessments">>} |->
        IF path = <<"course">> THEN [sound |-> v.sound, objectives |-> v.objectives, modules |-> v.modules]
                               ELSE v.assessments]

AssetFiles(v) ==
    [path \in {<<"assets", a.key>> : a \in ToSet(v.assets)} |->
        (CHOOSE a \in ToSet(v.assets) : a.key = path[2]).digest]

\* translationsFor: only a translation names the version that it belongs to.
TranslationFiles(d, v, languages) ==
    [path \in {<<"translations", l>> : l \in languages} |->
        [source |-> d, texts |-> CountedIn(v.modules)]]

\* In the order of their keys, of which validateSource has found none twice.
AssetEntries(v) == ByKey(ToSet(v.assets))

Together(f, g) == [path \in DOMAIN f \cup DOMAIN g |-> IF path \in DOMAIN f THEN f[path] ELSE g[path]]

\* Exporter.Write: checksums list every file but the manifest; a digest is the content.
PackageOf(d, v, languages) ==
    LET files == Together(PayloadFiles(v), Together(AssetFiles(v), TranslationFiles(d, v, languages))) IN
    [origin |-> d, license |-> v.license, languages |-> languages, assets |-> AssetEntries(v),
     files |-> files, checksums |-> files]

-----------------------------------------------------------------------------
(* The reader of packages, and the importer *)

CourseIn(p) == p.files[<<"course">>]

AssessmentsIn(p) == p.files[<<"assessments">>]

\* validateInventory: what the manifest lists is there, and nothing else is.
InventoryMatches(p) ==
    /\ DOMAIN p.files = {<<"course">>, <<"assessments">>} \cup {<<"assets", a.key>> : a \in ToSet(p.assets)}
                                                          \cup {<<"translations", l>> : l \in p.languages}
    /\ p.checksums = p.files
    /\ UniqueKeys(p.assets) /\ \A a \in ToSet(p.assets) : p.files[<<"assets", a.key>>] = a.digest

\* The references that validateCourse collects.
PackageReferences(b) ==
    IF b.type \in {"IMAGE", "DOWNLOAD"} THEN {b.asset}
    ELSE (IF b.type \in {"VIDEO", "AUDIO"} THEN {b.asset} ELSE {})
         \cup (IF b.type = "VIDEO" THEN {b.captions} ELSE {})
         \cup (IF b.type \in {"VIDEO", "AUDIO"} /\ b.transcript # None THEN {b.transcript} ELSE {})

\* The first half of validateCourse: modules, lessons, and what each requires.
ReadableStructure(c) ==
    /\ c.sound /\ c.objectives > 0
    /\ UniqueKeys(c.modules) /\ InPlace(c.modules) /\ \A m \in ToSet(c.modules) : m.sound
    /\ UniqueKeys(LessonsOf(c.modules)) /\ \A m \in ToSet(c.modules) : InPlace(m.lessons)
    /\ \A l \in ToSet(LessonsOf(c.modules)) :
          /\ l.sound /\ l.objectives > 0 /\ ValidContent(l.blocks)
          /\ ValidPrerequisites(l, KeysOf(LessonsOf(c.modules)))

ReadableAssessments(p) ==
    /\ UniqueKeys(AssessmentsIn(p)) /\ \A a \in ToSet(AssessmentsIn(p)) : ValidBinding(a)
    /\ ChecksOf(CourseIn(p).modules) \subseteq KeysOf(AssessmentsIn(p))

\* Every reference has its asset, and every asset a use.
ReadableAssets(p) ==
    UNION {PackageReferences(b) : b \in BlocksOf(CourseIn(p).modules)} = KeysOf(p.assets)

ReadableTranslation(p, l) ==
    LET payload == p.files[<<"translations", l>>] IN
    /\ payload.source = p.origin
    /\ RequiredIn(CourseIn(p).modules) \subseteq payload.texts

\* Reader.validate, within its limits.
Readable(p) ==
    /\ InventoryMatches(p)
    /\ ReadableStructure(CourseIn(p)) /\ ReadableAssessments(p) /\ ReadableAssets(p)
    /\ \A l \in p.languages : ReadableTranslation(p, l)

\* The identity of a package: the digest of its checksums, not of its manifest.
Fingerprint(p) == p.checksums

\* immutableFromPlan: a course of its own here, under the license of the manifest.
ImmutableFromPlan(p) ==
    [course |-> p.origin, license |-> p.license, sound |-> CourseIn(p).sound,
     objectives |-> CourseIn(p).objectives, modules |-> CourseIn(p).modules,
     assets |-> p.assets, assessments |-> AssessmentsIn(p)]

\* ValidateImportedPublication: as complete as a translation that is published here.
ImportableTranslations(p) ==
    \A l \in p.languages :
        CountedIn(CourseIn(p).modules) \subseteq p.files[<<"translations", l>>].texts

-----------------------------------------------------------------------------
(* Requests *)

\* What the reader refuses before it looks at the content: whether it would accept it or not.
WithinLimits(p) ==
    /\ Len(p.assets) <= MaxAssets /\ Cardinality(p.languages) <= MaxTranslations
    /\ <<p.origin, p.languages>> \notin Oversized

\* The pinned releases of the widgets that are placed in a course.
WidgetsOf(p) == {b.widget : b \in {x \in BlocksOf(CourseIn(p).modules) : x.type = "PLUGIN_WIDGET"}}

\* left are the widgets that a request has still to look up.  unseen is history, which no
\* guard reads: the widgets of the package that at no moment of the request were available.
Resting == [step |-> "resting", package |-> None, record |-> None, left |-> {}, unseen |-> {}]

At(step, p) == [Resting EXCEPT !.step = step, !.package = p]

PackagesInit ==
    /\ versions = <<>> /\ trees = [d \in Drafts |-> {}]
    /\ packages = {} /\ previews = {} /\ imports = {} /\ available \in SUBSET Widgets
    /\ job = [r \in Requests |-> Resting]

\* The last step of a publication: the review of d is approved, and its widgets were found at
\* home, as module ReviewPublication has it.  When there is something to tell the author,
\* nothing changes.
PublishCourse(r, d) ==
    /\ job[r] = Resting
    /\ d \notin DOMAIN versions /\ SnapshotAccepted(Snapshot[d]) /\ Publishable(d)
    /\ IF Storable(Converted(d))
       THEN /\ versions' = [e \in DOMAIN versions \cup {d} |-> IF e = d THEN Converted(d) ELSE versions[e]]
            /\ UNCHANGED job
       ELSE job' = [job EXCEPT ![r] = At("broken", None)] /\ UNCHANGED versions
    /\ UNCHANGED <<trees, packages, previews, imports, available>>

\* A translation is published when it is complete: see module Translations.
PublishTree(d, l) ==
    /\ d \in DOMAIN versions
    /\ trees' = [trees EXCEPT ![d] = @ \cup {l}]
    /\ UNCHANGED <<versions, packages, previews, imports, available, job>>

\* handleCoursePackageExport.  The content of a version does not change and a translation is
\* not taken back: what the export reads first still holds when it reads the last.  A version
\* that is no longer PUBLISHED, which module CourseStore knows, is refused and nothing changes.
Export(r, d) ==
    /\ job[r] = Resting /\ d \in DOMAIN versions /\ Cardinality(packages) < MaxPackages
    /\ IF Exportable(versions[d])
       THEN packages' = packages \cup {PackageOf(d, versions[d], trees[d])} /\ UNCHANGED job
       ELSE job' = [job EXCEPT ![r] = At("broken", None)] /\ UNCHANGED packages
    /\ UNCHANGED <<versions, trees, previews, imports, available>>

\* handlePortabilityPreview: a token is given for a package that the reader accepts.  One that
\* is beyond its limits is refused and nothing changes.
PreviewPackage(r, p) ==
    /\ job[r] = Resting /\ p \in packages /\ WithinLimits(p) /\ Cardinality(previews) < MaxTokens
    /\ IF Readable(p)
       THEN previews' = previews \cup {p} /\ UNCHANGED job
       ELSE job' = [job EXCEPT ![r] = At("broken", p)] /\ UNCHANGED previews
    /\ UNCHANGED <<versions, trees, packages, imports, available>>

\* portabilityPreviewStore.purge, and a node that restarts.
ForgetPreview(p) ==
    /\ previews' = previews \ {p}
    /\ UNCHANGED <<versions, trees, packages, imports, available, job>>

\* Enable and Disable, and every loss of trust: see module PluginRegistry, which also has the
\* reads of a lookup one by one.  Here a lookup is a moment.
ChangeRelease(w) ==
    /\ available' = IF w \in available THEN available \ {w} ELSE available \cup {w}
    /\ job' = [r \in Requests |-> [job[r] EXCEPT !.unseen = @ \ available']]
    /\ UNCHANGED <<versions, trees, packages, previews, imports>>

RecordsOf(fingerprint) == {i \in imports : i.fingerprint = fingerprint}

\* Mutant of ReplayImport: the fingerprint is taken to say it all.
ReplayByFingerprint(p, record) == [At("answered", p) EXCEPT !.record = record]

\* PostgresImportRepository.replay
ReplayImport(p, record) ==
    IF record.origin = p.origin THEN [At("answered", p) EXCEPT !.record = record]
                                ELSE At("collided", p)

\* handlePortabilityExecute: the package is the one of the token.
BeginExecute(r, p) ==
    /\ job[r] = Resting /\ p \in previews
    /\ job' = [job EXCEPT ![r] = [At("checking", p) EXCEPT !.left = WidgetsOf(p),
                                                           !.unseen = WidgetsOf(p) \ available]]
    /\ UNCHANGED <<versions, trees, packages, previews, imports, available>>

\* Mutant of CheckWidget: what the lookup answers is not looked at.
CheckNoWidget(r) ==
    /\ job[r].step = "checking"
    /\ \E w \in job[r].left : job' = [job EXCEPT ![r] = [@ EXCEPT !.left = job[r].left \ {w}]]
    /\ UNCHANGED <<versions, trees, packages, previews, imports, available>>

\* Importer.Import looks each widget up, in the order of the course, here in any.  One that is
\* missing ends the request before the import is looked for, and the token stays: so it does for
\* a package that was imported already, which is then not answered as a replay.
CheckWidget(r) ==
    /\ job[r].step = "checking"
    /\ \E w \in job[r].left :
          job' = [job EXCEPT ![r] = IF w \in available THEN [@ EXCEPT !.left = job[r].left \ {w}]
                                                       ELSE At("pluginMissing", job[r].package)]
    /\ UNCHANGED <<versions, trees, packages, previews, imports, available>>

\* PostgresImportRepository.Import, before the transaction.
LookUpImport(r) ==
    LET p     == job[r].package
        known == RecordsOf(Fingerprint(p))
    IN
    /\ job[r].step = "checking" /\ job[r].left = {}
    /\ \/ known = {} /\ job' = [job EXCEPT ![r].step = "locking"]
       \/ \E i \in known : job' = [job EXCEPT ![r] = ReplayImport(p, i)]
    /\ UNCHANGED <<versions, trees, packages, previews, imports, available>>

ImportsAt(steps) == {r \in Requests : job[r].step \in steps}

\* The advisory lock is of the course that the package comes from; what was read before
\* is read again.
LockOrigin(r) ==
    LET p     == job[r].package
        known == RecordsOf(Fingerprint(p))
        step  == IF \E i \in imports : i.origin = p.origin THEN "conflict" ELSE "locked"
    IN
    /\ job[r].step = "locking"
    /\ \A other \in ImportsAt({"locked", "inserted"}) : job[other].package.origin # p.origin
    /\ \/ known = {} /\ job' = [job EXCEPT ![r].step = step]
       \/ \E i \in known : job' = [job EXCEPT ![r] = ReplayImport(p, i)]
    /\ UNCHANGED <<versions, trees, packages, previews, imports, available>>

\* resolveCourse and CreateImportRecord: the slug of the course and the record are both
\* unique by the fingerprint, so that an insert waits for another one of it to end.  It is the
\* insert of the course that fails then, as courses.ErrConflict, which mapImportWriteError does
\* not know for a conflict of versions: the answer is a failure, and the token stays.
InsertRecord(r) ==
    LET p == job[r].package IN
    /\ job[r].step = "locked"
    /\ \A other \in ImportsAt({"inserted"}) : Fingerprint(job[other].package) # Fingerprint(p)
    /\ job' = [job EXCEPT ![r].step = IF RecordsOf(Fingerprint(p)) = {} THEN "inserted" ELSE "collided"]
    /\ UNCHANGED <<versions, trees, packages, previews, imports, available>>

\* The assets, the version, its translations and the finished record are committed together.
StoreImport(r) ==
    LET p      == job[r].package
        record == [fingerprint |-> Fingerprint(p), origin |-> p.origin,
                   version |-> ImmutableFromPlan(p), languages |-> p.languages]
    IN
    /\ job[r].step = "inserted"
    /\ IF Storable(ImmutableFromPlan(p)) /\ ImportableTranslations(p)
       THEN /\ imports' = imports \cup {record}
            /\ job' = [job EXCEPT ![r] = [At("answered", p) EXCEPT !.record = record]]
       ELSE job' = [job EXCEPT ![r] = At("broken", p)] /\ UNCHANGED imports
    /\ UNCHANGED <<versions, trees, packages, previews, available>>

\* A result, or a conflict that no retry resolves, uses the token up.
AnswerExecute(r) ==
    /\ job[r].step \in {"answered", "conflict"}
    /\ previews' = previews \ {job[r].package}
    /\ job' = [job EXCEPT ![r] = Resting]
    /\ UNCHANGED <<versions, trees, packages, imports, available>>

\* A failure is answered, or the request is cut off: a transaction leaves nothing.  A failure
\* of the storage is one, and so is an asset beyond the AssetMaxBytes of this academy.
EndRequest(r) ==
    /\ job[r] # Resting
    /\ job' = [job EXCEPT ![r] = Resting]
    /\ UNCHANGED <<versions, trees, packages, previews, imports, available>>

PackagesNext ==
    \/ \E r \in Requests, d \in Drafts : PublishCourse(r, d) \/ Export(r, d)
    \/ \E d \in Drafts, l \in TargetLanguages : PublishTree(d, l)
    \/ \E r \in Requests, p \in packages : PreviewPackage(r, p)
    \/ \E p \in previews : ForgetPreview(p)
    \/ \E w \in Widgets : ChangeRelease(w)
    \/ \E r \in Requests, p \in previews : BeginExecute(r, p)
    \/ \E r \in Requests :
          \/ CheckWidget(r) \/ LookUpImport(r) \/ LockOrigin(r) \/ InsertRecord(r) \/ StoreImport(r)
          \/ AnswerExecute(r) \/ EndRequest(r)

PackagesSpec == PackagesInit /\ [][PackagesNext]_packageVars

-----------------------------------------------------------------------------
(* Properties *)

\* Every variable of the course packages has its type.
PackagesTypeOK ==
    /\ DOMAIN versions \subseteq Drafts
    /\ trees \in [Drafts -> SUBSET TargetLanguages]
    /\ previews \subseteq packages
    /\ \A p \in packages : p.origin \in Drafts /\ p.languages \subseteq TargetLanguages
    /\ \A i \in imports : i.origin \in Drafts
    /\ available \subseteq Widgets
    /\ DOMAIN job = Requests
    /\ \A r \in Requests :
          /\ job[r].step \in {"resting", "checking", "locking", "locked", "inserted", "answered", "collided",
                              "conflict", "pluginMissing", "broken"}
          /\ job[r].package \in packages \cup {None} /\ job[r].record \in imports \cup {None}
          /\ job[r].unseen \subseteq job[r].left
          /\ job[r].left # {} => job[r].left \subseteq WidgetsOf(job[r].package)

\* The rules for the content of a course agree from station to station: a course that may be
\* published, as far as the author is told, is stored; of a stored one that is still PUBLISHED
\* a package is written; the reader takes every such package that is within its limits; and
\* what it has taken no rule for courses or translations refuses to store.  That a release
\* is missing there, or that the storage takes no such asset, is told apart from that.
NothingBreaks == \A r \in Requests : job[r].step # "broken"

\* No import goes on to its transaction unless the academy had every release that the widgets
\* of the course are pinned to: each was available at some moment since the request began,
\* however administrators enable and disable releases meanwhile.
WidgetsWereAvailable ==
    \A r \in Requests : job[r].step \in {"locking", "locked", "inserted"} => job[r].unseen = {}

\* An import answers with a version that holds what was published at home, license and
\* all, however many packages, tokens and requests there are: no package is answered with
\* the import of another, none arrives twice, and none without its widgets.
ImportsAnswerTruly ==
    /\ \A r \in Requests :
          job[r].step = "answered" => job[r].record.version = versions[job[r].package.origin]
    /\ \A i, j \in imports : i.origin = j.origin => i = j
    /\ WidgetsWereAvailable

=============================================================================
