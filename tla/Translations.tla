------------------------------ MODULE Translations ------------------------------
(***************************************************************************)
(* Translations of published course versions.                               *)
(*                                                                         *)
(* A workspace holds the translated tree of one source version in one       *)
(* language, edited under a revision that the client quotes.  A publication  *)
(* freezes a complete tree; a version that arrived in a package brings its   *)
(* own, and such a stream takes no other.  Each request is several           *)
(* statements: the steps are modelled, with what they have read.            *)
(***************************************************************************)
EXTENDS Naturals, FiniteSets, Services

CONSTANTS
    Versions,                \* versions of one course
    Languages,               \* target languages
    Blocks,                  \* content blocks of the source, the same in each version
    Texts,                   \* what a translator writes into a field
    MaxTranslationRevision   \* bound on the revisions of a workspace

BlockTypes == {"TEXT", "HEADING", "IMAGE", "VIDEO", "AUDIO", "CODE", "QUOTE",
               "CALLOUT", "TABLE", "DOWNLOAD", "KNOWLEDGE_CHECK", "DIVIDER"}

ASSUME TranslationsAssumption ==
    /\ Blocks \subseteq [type : BlockTypes, titled : BOOLEAN]
    /\ MaxTranslationRevision \in Nat \ {0}
    /\ None \notin Versions \cup Texts

VARIABLES
    sources,       \* courses.course_version: the published versions
    contributors,  \* the users their attribution names as author or maintainer
    workspace,     \* translations.course_translation, one for each stream
    publications,  \* translations.translation_publication
    command        \* the requests in flight

translationTables == <<sources, contributors, workspace, publications>>

translationVars == <<sources, contributors, workspace, publications, command>>

\* UNIQUE (source version, target language) makes a stream of these two.
Streams == [version : Versions, language : Languages]

-----------------------------------------------------------------------------
(* The tree: one optional text for each field *)

\* What a block of a type may hold in a stored tree.
AllowedNames(type) ==
    CASE type \in {"TEXT", "HEADING"}            -> {"text"}
      [] type = "IMAGE"                          -> {"altText", "caption"}
      [] type \in {"VIDEO", "AUDIO"}             -> {"title", "transcript"}
      [] type = "CODE"                           -> {"title"}
      [] type = "QUOTE"                          -> {"text", "attribution"}
      [] type = "CALLOUT"                        -> {"text", "title"}
      [] type = "TABLE"                          -> {"caption"}
      [] type = "DOWNLOAD"                       -> {"label", "description"}
      [] OTHER                                   -> {}

\* Mutant of CountedNames: captions are not counted.
CountedButCaptions(block) ==
    IF block.type = "CODE" /\ ~block.titled THEN {} ELSE AllowedNames(block.type) \ {"caption"}

\* What a translator sees of it, and completeness counts.
CountedNames(block) ==
    IF block.type = "CODE" /\ ~block.titled THEN {} ELSE AllowedNames(block.type)

\* What a learner's page cannot do without.
RequiredNames(type) == IF type = "CODE" THEN {} ELSE AllowedNames(type)

Course == [type |-> "COURSE", titled |-> TRUE]

CourseField == [block |-> Course, name |-> "title"]

BlockFields == UNION {{[block |-> b, name |-> n] : n \in AllowedNames(b.type)} : b \in Blocks}

Fields == {CourseField} \cup BlockFields

Tree == [Fields -> Texts \cup {None}]

SeedTranslationTree == [f \in Fields |-> None]

ApplyTextChange(tree, change) == [tree EXCEPT ![change.field] = change.text]

Complete(tree) ==
    \A f \in Fields :
        f = CourseField \/ f.name \in CountedNames(f.block) => tree[f] # None

\* applyPublication puts the tree in the place of the source texts, or fails.
Applicable(tree) ==
    \A f \in Fields :
        f = CourseField \/ f.name \in RequiredNames(f.block.type) => tree[f] # None

-----------------------------------------------------------------------------
Workspace == [status : {"DRAFT", "PUBLISHED"}, revision : 1..MaxTranslationRevision, tree : Tree]

\* revision 0 stands for the NULL of an imported publication.
Publication == [stream : Streams, origin : {"AUTHORING", "IMPORTED"},
                revision : 0..MaxTranslationRevision, tree : Tree]

ASSUME WorkspaceAssumption == None \notin Workspace

Command == [step : {"idle", "insert", "composed", "checked", "reviewed", "prepared", "locked"},
            stream : Streams \cup {None}, actor : Users \cup {None},
            expected : 0..MaxTranslationRevision, tree : Tree]

NoCommand == [step |-> "idle", stream |-> None, actor |-> None, expected |-> 0,
              tree |-> SeedTranslationTree]

PublishedIn(s) == {q \in publications : q.stream = s}

\* Earlier versions of the course already name contributors.
TranslationsInit ==
    /\ sources = {}
    /\ contributors \in SUBSET Users
    /\ workspace = [s \in Streams |-> None]
    /\ publications = {}
    /\ command = [p \in Requests |-> NoCommand]

-----------------------------------------------------------------------------
(* Where source versions come from *)

\* Authoring publishes a version; its attribution names local accounts.
PublishVersion(v, authors) ==
    /\ v \notin sources
    /\ sources' = sources \cup {v}
    /\ contributors' = contributors \cup authors
    /\ UNCHANGED <<workspace, publications, command>>

\* A package brings a version with translations of it, each as complete as a
\* publication; all of it is one transaction.
StoreImportedPublications(v, trees) ==
    /\ v \notin sources
    /\ sources' = sources \cup {v}
    /\ \A l \in DOMAIN trees : Complete(trees[l]) /\ PublishedIn([version |-> v, language |-> l]) = {}
    /\ publications' = publications \cup
          {[stream |-> [version |-> v, language |-> l], origin |-> "IMPORTED",
            revision |-> 0, tree |-> trees[l]] : l \in DOMAIN trees}
    /\ UNCHANGED <<contributors, workspace, command>>

-----------------------------------------------------------------------------
(* Authority and reading *)

\* An author or maintainer of any published version; no role of the instance helps.
MayTranslate(u) == u \in contributors

Go(p, step) == command' = [command EXCEPT ![p] = [@ EXCEPT !.step = step]]

EndCommand(p) ==
    /\ command[p].step # "idle"
    /\ command' = [command EXCEPT ![p] = NoCommand]
    /\ UNCHANGED translationTables

\* loadAuthorized: the workspace, then the authority over its source.
LoadAuthorized(p, u, s) ==
    /\ command[p] = NoCommand
    /\ workspace[s] # None
    /\ MayTranslate(u)

\* The newest by workspace revision; an imported publication stands alone.
LatestPublication(s) ==
    CHOOSE q \in PublishedIn(s) : \A r \in PublishedIn(s) : r.revision <= q.revision

\* The languages a learner may choose for a published version.
LanguageChoices(v) == {l \in Languages : PublishedIn([version |-> v, language |-> l]) # {}}

\* The page of a version in a language: texts in the place of the source's, or an error.
ReadPage(v, l) == Applicable(LatestPublication([version |-> v, language |-> l]).tree)

-----------------------------------------------------------------------------
(* Creation *)

AuthorizeCreate(p, u, s) ==
    /\ command[p] = NoCommand
    /\ s.version \in sources
    /\ MayTranslate(u)
    /\ command' = [command EXCEPT ![p] = [NoCommand EXCEPT !.step = "insert", !.stream = s, !.actor = u]]
    /\ UNCHANGED translationTables

\* A second workspace of the stream violates the unique constraint.
InsertWorkspace(p) ==
    LET s == command[p].stream IN
    /\ command[p].step = "insert"
    /\ workspace' = [workspace EXCEPT ![s] =
          IF @ = None THEN [status |-> "DRAFT", revision |-> 1, tree |-> SeedTranslationTree] ELSE @]
    /\ command' = [command EXCEPT ![p] = NoCommand]
    /\ UNCHANGED <<sources, contributors, publications>>

-----------------------------------------------------------------------------
(* Editing: compose on the tree that was read, check, compare and swap *)

\* The body of a PATCH: the revision it quotes and a change, null to clear a text.
Changes == [field : Fields, text : Texts \cup {None}]

ComposePatch(p, u, s, change) ==
    /\ LoadAuthorized(p, u, s)
    /\ command' = [command EXCEPT ![p] =
          [step |-> "composed", stream |-> s, actor |-> u, expected |-> workspace[s].revision,
           tree |-> ApplyTextChange(workspace[s].tree, change)]]
    /\ UNCHANGED translationTables

\* The revision that the client quoted is still the one of the workspace.
Unchanged(p) == workspace[command[p].stream].revision = command[p].expected

CheckPatch(p) ==
    /\ command[p].step = "composed"
    /\ Unchanged(p)
    /\ Go(p, "checked")
    /\ UNCHANGED translationTables

\* UPDATE ... WHERE revision = expected.  The status stays.
UpdateTree(p) ==
    /\ command[p].step = "checked"
    /\ Unchanged(p)
    /\ workspace[command[p].stream].revision < MaxTranslationRevision
    /\ workspace' = [workspace EXCEPT ![command[p].stream] =
          [status |-> @.status, revision |-> @.revision + 1, tree |-> command[p].tree]]
    /\ command' = [command EXCEPT ![p] = NoCommand]
    /\ UNCHANGED <<sources, contributors, publications>>

-----------------------------------------------------------------------------
(* Publication: two reads, then one transaction under the lock of the stream *)

\* The application reads the workspace and requires a complete tree.
ReviewTranslation(p, u, s) ==
    /\ LoadAuthorized(p, u, s)
    /\ Complete(workspace[s].tree)
    /\ command' = [command EXCEPT ![p] =
          [NoCommand EXCEPT !.step = "reviewed", !.stream = s, !.actor = u,
                            !.expected = workspace[s].revision]]
    /\ UNCHANGED translationTables

\* The service reads it again: this is the tree that is published.
PreparePublication(p) ==
    /\ command[p].step = "reviewed"
    /\ Unchanged(p)
    /\ command' = [command EXCEPT ![p] =
          [@ EXCEPT !.step = "prepared", !.tree = workspace[command[p].stream].tree]]
    /\ UNCHANGED translationTables

StreamIsFree(s) == \A p \in Requests : ~(command[p].step = "locked" /\ command[p].stream = s)

HasImport(s) == \E q \in PublishedIn(s) : q.origin = "IMPORTED"

\* Mutant of LockPublicationStream: an imported publication is not looked for.
LockStreamOnly(p) ==
    /\ command[p].step = "prepared"
    /\ StreamIsFree(command[p].stream)
    /\ Go(p, "locked")
    /\ UNCHANGED translationTables

\* The advisory lock is held to the end of the transaction.
LockPublicationStream(p) ==
    /\ command[p].step = "prepared"
    /\ StreamIsFree(command[p].stream)
    /\ ~HasImport(command[p].stream)
    /\ Go(p, "locked")
    /\ UNCHANGED translationTables

\* The unique constraint on workspace and revision.
AlreadyPublished(s, r) == \E q \in PublishedIn(s) : q.revision = r

\* Mutant of CommitPublication: the row that is locked is not compared.
CommitPublicationBlindly(p) ==
    LET c == command[p] IN
    /\ c.step = "locked"
    /\ ~AlreadyPublished(c.stream, c.expected)
    /\ publications' = publications \cup
          {[stream |-> c.stream, origin |-> "AUTHORING", revision |-> c.expected, tree |-> c.tree]}
    /\ workspace' = [workspace EXCEPT ![c.stream] = [@ EXCEPT !.status = "PUBLISHED"]]
    /\ command' = [command EXCEPT ![p] = NoCommand]
    /\ UNCHANGED <<sources, contributors>>

\* SELECT FOR UPDATE, the insertion, the status, commit: an edit that was
\* committed since the preparation is found, a later one waits for the row.
CommitPublication(p) ==
    LET c == command[p] IN
    /\ c.step = "locked"
    /\ Unchanged(p)
    /\ ~AlreadyPublished(c.stream, c.expected)
    /\ publications' = publications \cup
          {[stream |-> c.stream, origin |-> "AUTHORING", revision |-> c.expected, tree |-> c.tree]}
    /\ workspace' = [workspace EXCEPT ![c.stream] = [@ EXCEPT !.status = "PUBLISHED"]]
    /\ command' = [command EXCEPT ![p] = NoCommand]
    /\ UNCHANGED <<sources, contributors>>

-----------------------------------------------------------------------------
ImportedTrees == UNION {[ls -> {t \in Tree : Complete(t)}] : ls \in SUBSET Languages}

TranslationsNext ==
    \/ \E v \in Versions :
          \/ \E authors \in SUBSET Users : PublishVersion(v, authors)
          \/ \E trees \in ImportedTrees : StoreImportedPublications(v, trees)
    \/ \E p \in Requests :
          \/ \E u \in Users, s \in Streams :
                \/ AuthorizeCreate(p, u, s)
                \/ \E change \in Changes : ComposePatch(p, u, s, change)
                \/ ReviewTranslation(p, u, s)
          \/ InsertWorkspace(p)
          \/ CheckPatch(p)
          \/ UpdateTree(p)
          \/ PreparePublication(p)
          \/ LockPublicationStream(p)
          \/ CommitPublication(p)
          \/ EndCommand(p)

TranslationsSpec == TranslationsInit /\ [][TranslationsNext]_translationVars

-----------------------------------------------------------------------------
(* Properties *)

\* Every variable of the translations has its type.
TranslationsTypeOK ==
    /\ sources \subseteq Versions
    /\ contributors \subseteq Users
    /\ workspace \in [Streams -> Workspace \cup {None}]
    /\ publications \subseteq Publication
    /\ command \in [Requests -> Command]

\* A stream holds the one publication of its import or those of its workspace,
\* never both, and no revision of a workspace twice: what learners read under a
\* language has one origin, and a revision has one frozen text.
OriginsNeverMix ==
    \A q, r \in publications :
        q.stream = r.stream =>
            /\ q.origin = r.origin
            /\ q.revision = r.revision => q = r

\* Completeness counts every text without which a learner's page cannot be built: a
\* language that is offered, of a publication imported or not, can be read.
LearnersCanRead == \A v \in sources : \A l \in LanguageChoices(v) : ReadPage(v, l)

\* What is published is the complete tree that the workspace holds at that very
\* moment under that revision, though it was read in earlier statements.
PublishesWhatIsThere ==
    [][\A q \in publications' \ publications :
          q.origin = "AUTHORING" =>
              /\ workspace[q.stream].revision = q.revision
              /\ workspace[q.stream].tree = q.tree
              /\ Complete(q.tree)]_translationVars

=============================================================================
