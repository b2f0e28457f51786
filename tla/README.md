# A TLA+ model of Bridging the Gap Academy

Bridging the Gap Academy (`cmd/btg-lms`, Go) is a learning-management system: members write
Drafts of Courses together, reviewers approve them, publication turns an approved Review into an
immutable CourseVersion, learners answer Assessments and earn certificates; versions are translated,
discussed, and carried to other academies as packages. One process serves HTTP; all state is in one
PostgreSQL database (plus a directory of binary objects and a few tables in memory), and every
request runs on its own goroutine with its own connection. There is no message queue, and but for
imports no transaction spans two modules. What keeps concurrent, repeated and interrupted requests
from doing harm is a small set of devices: revisions compared by `UPDATE ... WHERE revision = $n`,
`SELECT ... FOR UPDATE` on an aggregate's root row, advisory locks, unique constraints, checks that
are made anew for each request, and recovery by the identity of an immutable source. This project
models those devices, checks what they promise with TLC, and proves the most important promises
with TLAPS.

Paths below are relative to the repository; `M/` stands for `internal/modules/`.

## 1. Inventory

Each HTTP handler decodes its input and makes one call of a service, so the operations of a
component are the methods of its service and repository.

| Component | State | Operations that change it | Works with |
|---|---|---|---|
| Draft workspace (`M/authoring`: mutation, membership_mutation, authorization, creation) | `draft` row (status, revision, metadata), `workspace_member` rows | create, PATCH metadata, add / change / revoke a member, abandon | every other authoring write takes its lock and advances its revision |
| Draft structure (`M/authoring/postgres/structure.go`) | `module`, `lesson`, `lesson_prerequisite` rows, each with position and revision | nine structural writes that a route reaches | the Draft row; Review submission freezes what it left |
| Review (`M/authoring/review*.go`) | `review_cycle` (immutable but for one transition), `review_event` | submit, approve, request changes | freezes Draft, structure and Assessments |
| Publication (`M/authoring/publication*.go`) | `review_publication` rows | publish | reads Reviews, Assets and plugins; writes Courses, then its own record |
| Courses (`M/courses`) | immutable `course_version` aggregates in seven tables, their provenance and status | store a version, change its status | written by publication and import; read by learners, catalog, translations, export |
| Assessments, authoring (`M/authoring/assessment_management.go`, `M/assessments`) | Assessment definitions with a revision of their own | create, replace | read by Review submission |
| Assessments, learners (`M/assessments`) | `assessment_attempt` rows | start, save, submit | reads published bindings |
| Assets (`M/assets`) | `asset` rows PENDING / AVAILABLE; binary objects on disk | ingest, roll back | read by publication; written by import |
| Plugin registry (`M/plugins/registry.go`) | releases, verification keys, approvals | install, register and switch keys, approve, enable, disable, revoke | asked by publication, dashboard and runtimes |
| Dashboard (`M/plugins/dashboard.go`) | placements with position and revision | create, update, delete, move | asks the registry |
| Widget runtimes (`M/plugins/runtime.go`) | tokens (signed, not stored); in memory, the contexts of instances | launch, refresh, read the context | asks registry, dashboard and Courses |
| Progress (`M/progress`) | course progress, completed lessons | create, mark a lesson complete | read by certificate issuance |
| Certificates (`M/credentials`) | `certificate` rows ACTIVE / REVOKED | issue, revoke | reads Progress and Courses |
| Open Badges (`M/credentials/openbadges`) | status lists, entries, signed snapshots, signed credentials | allocate an index, publish a snapshot, revoke | follows certificates by database triggers |
| Portability (`M/portability`) | import records; in memory, previews | export, preview, import | writes Courses, Assets and Translations in one transaction |
| Translations (`M/translations`) | workspaces and their publications | create, PATCH, publish | reads CourseVersions; written by import |
| Identity (`M/identity`, `internal/platform/login.go`) | users, role assignments, sessions with CSRF tokens | bootstrap, log in, log out, suspend, revoke | writes Audit |
| Login limits (`internal/platform/login_limit.go`) | in memory, buckets of remote peers and permits | allow, acquire, release | in front of login |
| Audit (`M/audit`) | append-only events | append | written by login, logout and bootstrap |
| Community (`M/community`) | threads, posts | open a thread, reply, hide, show | reads published attribution |
| HTTP platform (`internal/platform`) | none beyond the above | | calls the services |

### What is hard, and what correct means

* **Workspace.** Authorization is a read before the transaction of the write
  (`docs/authoring-domain.md:55-57` says so), and a metadata PATCH writes back a whole value that
  it read earlier. Correct: nobody writes with authority they have lost, nobody overwrites a field
  they did not name, the last maintainer stays.
* **Structure.** Each operation rewrites many rows in several statements. Correct: after any
  sequence, positions have no gaps, nothing dangles, each change shows in a revision, and the
  outline is one that a Review accepts.
* **Review and publication.** Two members decide or publish at once; a request dies between the
  Courses transaction and the Authoring one; it is retried after the Draft, the Assets or the
  plugins have changed; two Reviews claim one semantic version. Correct: decisions are final and
  independent, a version is exactly the approved frozen content, the two modules agree, retries
  converge.
* **Courses.** A version is put together from seven statements outside a transaction, and four
  places choose a version in their own way. Correct: nobody reads part of a version or its parts in
  another order, all places choose the same one, and a version withdrawn before it was loaded is
  not answered.
* **Packages.** A course passes five validators on its way to another academy, an import is
  recognised by a fingerprint, and it needs releases there that administrators enable and disable
  meanwhile. Correct: no station finds fault with content that the one before let pass, an import
  answers with the course that was sent, and none succeeds without its widgets.
* **Attempts.** Saves and submissions of one learner race. Correct: the stored result grades the
  stored responses, and SUBMITTED is terminal.
* **Open Badges.** A revocation races with the signing of a list, or fails after it committed.
  Correct: a snapshot older than the list never counts as current, indexes are never shared.
* **Assets and import.** Database and disk cannot commit together. Correct: an AVAILABLE Asset has
  its bytes, whichever step failed.
* **Progress and certificates.** A two-query read and concurrent issuance. Correct: one
  certificate per learner and version, never for incomplete progress.
* **Translations.** The published tree was read and judged complete earlier; imports bring
  translations of their own. Correct: what is published is what is there, origins do not mix,
  whatever is offered can be read.
* **Sessions.** The middleware is a chain of separate reads. Correct: nothing that was withdrawn
  before a request came is honoured, all tabs share one CSRF token.
* **Login limits.** A bounded table, and a clock that is read before the mutex is taken. Correct:
  no peer gets a new burst by being forgotten.
* **Plugins.** Trust is derived from three reads while administrators change all three. Correct: a
  release runs, and a revocation is answered, only if there was a moment that justifies it.
* **Dashboard, runtimes, community.** Moves shift every row out of the way; a token is exchanged for a
  newer one; a moderator looks at the first visible post. Correct: one total order, no grant
  without a check, a thread never loses its opening.

`PROJECT.json` lists each hazard at its line with the properties that address it.

## 2. Modules

| Module | Models | Proofs |
|---|---|---|
| `DraftWorkspace` | one Draft and its membership, with concurrent requests | `DraftWorkspaceProofs` |
| `WorkspaceContract` | the same workspace with atomic, currently authorized writes | (refined by `DraftWorkspace`) |
| `DraftStructure` | the outline of one Draft | `DraftStructureProofs` |
| `ReviewPublication` | Review, decision, publication, Courses store, recovery | `ReviewPublicationProofs` |
| `PublicationContract` | the stages a Review passes, atomically | (refined by `ReviewPublication`) |
| `StatusList` | Open Badges: allocation, signed status lists and badges, revocation | `StatusListProofs` |
| `StatusContract` | status lists that are true or out of service | (refined by `StatusList`) |
| `AssetStore` | uploads and imports: rows, files, and what clears up after them | `AssetStoreProofs` |
| `Services` | the accounts and request slots that the following share | |
| `LearnerAttempt` | one learner's Attempt, with concurrent requests | `AccountProofs` |
| `Translations` | workspaces and publications of translations | `AccountProofs` |
| `PluginRegistry` | keys, releases, approvals, trust as it is derived | `PluginProofs` |
| `DashboardWidgets` | placements and their order | `PluginProofs` |
| `WidgetRuntime` | launch and refresh of widget runtimes | `PluginProofs` |
| `Community` | threads, posts, moderation | `AccountProofs` |
| `Sessions` | accounts, sessions, middleware, audit | `AccountProofs` |
| `LoginLimiter` | token buckets and permits in front of login | `AccountProofs` |
| `CertificateIssuance` | progress, issuance, revocation | `AccountProofs` |
| `CourseStore` | the tables of Courses, their writers and readers | `PlatformServicesProofs` |
| `CoursePackages` | the validators from editor to import, export and import requests | `PlatformServicesProofs` |
| `PlatformServices` | the eleven modules from `LearnerAttempt` on, composed | `PlatformServicesProofs` |
| `MC...` | constants and symmetry sets for TLC | |

How they share the code: `DraftWorkspace` has the requests and the Draft row, and treats a
structural write only as one that quotes and advances a revision (`EditStructure`, `EditContent`);
`DraftStructure` has the rows those writes change, one atomic action each, because all of them hold
the Draft row for their whole transaction; `ReviewPublication` sees a committed Draft write only as
`EditDraft`, and the Courses store as one step, whose statements are in `CourseStore`; what the
validators of publication and store accept is in `CoursePackages`. `StatusList` begins where
`CertificateIssuance` ends. `AssetStore` ends where an Asset is AVAILABLE, which is where
`ReviewPublication` begins to consult it. An import is seen three times: its rows in `CourseStore`,
its files in `AssetStore`, its validation, tokens and answers in `CoursePackages`.

`PlatformServices` composes modules that share no table. A state of the whole is a state of each of
them and a step of the whole is a step of one, so that an invariant of one module cannot depend on
another module's step. The module uses this: the requests of one behaviour all go to one service,
chosen at the start (`served`), and the others stay as they begin. `AllServices` says what that leaves out,
requests to all services at once, and section 5 what is proved of it. What one service sees of another
is an input of it, free to change at any moment (`contributors` of `Translations`, `runnable` of
`WidgetRuntime`), not a copy that could be out of step.

### Requests

A handler that touches the database more than once is a slot of `Requests` that carries what the
goroutine has read: `step` is where it is between two statements or transactions, the other fields
its local variables. Everything a transaction does under its lock is one action, unless a module
says otherwise. A slot may be given up at any step (`EndWithoutWriting`, `EndRequest`, `EndCommand`
and the like): that one action is a refusal, a client that disconnects, a database error, and a
crash of the process, which all leave what was committed and lose what was not. A refusal that no
property tells from those is not a step of its own.

Where a request judges what others may change meanwhile, a field `missing` holds the conditions
that have held at no moment since the request began; every step takes from it what holds now. An
answer is justified if the conditions it needs are not missing. It is a history variable: no guard
reads it.

### DraftWorkspace

| Definition | Code |
|---|---|
| `status`, `revision`, `metadata` | row of `authoring.draft` |
| `role` | active rows of `authoring.workspace_member` |
| `lessonRevision` | the revision of one Lesson, the token of content edits |
| `Authorize` | `AuthorizationService.Authorize`, first call of every handler |
| `LoadMetadata`, `UpdateDraft` | `DraftMutationService.UpdateDraft` and the repository's compare-and-swap |
| `MutateMember` | `mutateMember`: status, member, maintainer count and revision under the Draft lock |
| `EditStructure`, `EditContent`, `AbandonDraft` | a write that compares the Draft's revision, one that compares the Lesson's, and the abandonment |
| `Commit` | `lockActiveDraft` and `BumpDraftRevision` |

`MaxAhead` says what clients quote: 0, a revision that they have seen; 1, also the one that a write
of theirs, still in flight, is about to produce. The code cannot tell the two apart.

### DraftStructure

One action per operation that a route reaches: `CreateModuleAtPosition`, `ReorderModules`,
`UpdateModuleMetadata`, `DeleteEmptyModule`, `CreateLessonAtPosition`, `UpdateLesson` (metadata and
content), `ReorderLessons`, `ReplaceLessonPrerequisites`, `DeleteLesson`. Each is put together from
operators that are SQL statements of `authoring.sql.go` (shift, compact, assign a position, bump a
revision, delete), in the order in which the repository executes them. `module`, `lesson` and
`prereq` are the three tables; titles and content are left out, revisions are kept because clients
compare them.

### ReviewPublication

| Definition | Code |
|---|---|
| `draft`, `assessment`, `assetAvailable`, `widgetAvailable` | the mutable state that submission freezes or publication consults |
| `review` | `review_cycle`, with the frozen target version and question list |
| `versions` | `courses.course_version` and its provenance |
| `publication` | `authoring.review_publication` |
| `SubmitReview` | `Repository.SubmitReview`, with the two unique constraints |
| `BeginDecide`, `CommitDecision` | `decide` up to the hand-over, then `decideReview` under the Review lock |
| `BeginPublish`, `CheckWidgets`, `FindStored`, `ResolveReferences`, `StoreVersion`, `Reconcile`, `RecordPublication` | the stages of `PublicationService.Publish` in its order |
| `Convert`, `SamePublicationSource` | conversion of the frozen Review, comparison of what is stored with it |
| `EndRequest` | answer, cancellation, failure, crash |

A Draft has a Course of its own, so one Draft is enough for the version constraints. The structural
validator (`publication_validation.go`) is a pure function of the frozen snapshot, checked at the
same two places as the question list; this module keeps one such condition, an empty question list,
and `CoursePackages` has the others. An Asset and a plugin release stand for all those the content
refers to: publication asks whether all are available.

### StatusList

| Definition | Code |
|---|---|
| `status` | `credentials.certificate.status`; every certificate is issued from the start |
| `list`, `entry`, `published`, `badge` | the four tables of `open_badges` that change |
| `BeginStatus`, `BeginCredential`, `BeginRevoke` | the entry points of `publication.Service` |
| `EnsureEntry` (`Allocatable`, `FreeIndexes`, `Reserve`) | `Repository.EnsureEntry`, one transaction under the advisory lock, with its trigger |
| `ReadCurrent`, `LockAndRead`, `PublishSnapshot` | `Service.Status`: `CurrentSnapshot`, then the two halves of `PublishCurrentSnapshot` |
| `ExecuteRevocation`, `CommitRevocation` | the certificate's `UPDATE` with its trigger, and the commit |
| `LoadBadge`, `SaveBadge` | the signed credential, looked up and inserted if absent |

`Holds` is the row lock of a list. A publication takes it with `SELECT ... FOR UPDATE`, a revocation
when its trigger advances the revision, and both keep it to their commit; so signing, which happens
between `LockAndRead` and `PublishSnapshot`, excludes the revocation. A publication reads under
REPEATABLE READ: if the row changes while it waits for the lock, PostgreSQL fails the transaction,
which is `EndRequest`; otherwise what it reads is what is there when it gets the lock. The random
probes of `EnsureEntry` can hit any free index, and so can the fallback, so the model takes any; a
list is chosen only among those with room. Signature, key and verification are abstracted to
success or failure. `known` is a history variable, what was revoked when the request began the
reading of the list it answers with. `Service.Revoke` has no HTTP route yet; its callers are tests.

A certificate is revoked only through `Service.Revoke`, which allocates its position first. The
invariant needs this (`RevokedHavePositions`): the trigger finds a list only through the entry.

### AssetStore

| Definition | Code |
|---|---|
| `asset` | the rows of `assets.asset` that uploads create; a deleted row is DISCARDED |
| `object` | the files of `localstorage.Storage`, under identifiers never used twice |
| `imported`, `bindings` | `portability.import_record`, and the objects that the imported version binds |
| `late` | statements of a given-up connection that the database may yet execute |
| `CreateAsset`, `Put`, `MarkAssetAvailable`, `ReadBack`, `DiscardPendingAsset`, `DiscardUncommitted` | `IngestionService.Ingest`, one action per statement or file operation |
| `BeginImport`, `LockAndCheck`, `ImportFile`, `CommitImport` | `PostgresImportRepository.Import`: the replay lookup, the advisory lock with the second lookup, one file after the other, COMMIT |
| `ImportFails`, `CompensateImportedAssets` | its `fail` closure |

Every statement of an upload can succeed, fail, succeed without an answer, or be executed later
(`ExecuteLate`), after the upload has read the row back and gone on. The rows that an import
writes are visible only from its commit on, so `CommitImport` writes them all. `LockAndCheck` needs
that no import is between its own check and the end of its transaction. The packages of the model
are of one portable course, hence of one lock; `SourceVersion` says which of them exclude each other.

`left` is a history variable: rows and files that stay because clearing up failed as well, because
an answer was lost (`CreateAsset`), or because the process stopped. Not all of it is reported: when
`Storage.Put` fails to remove a file whose directory it could not sync, it ignores the error, and
`Import` replaces the ingestion error by `ErrImportStorageFailed`. `ReadBack` has no case for a row
that is gone (`ingestion.go:101`): only the upload itself deletes its row. Temporary files are left out.

### LearnerAttempt

`attempt` is the row; `Start`, `BeginSave` / `CommitSave` and `BeginSubmit` / `CommitSubmit` are
the two halves of each service method: the read with its validation (for a submission, its grading),
and the `UPDATE ... WHERE id AND revision AND state = 'IN_PROGRESS'`. A response is worth `right` or
`wrong`, which is all that `GradePublishedAssessment` counts.

### Translations

`workspace` is the row of a stream (source version and language), `publications` the frozen trees.
`ComposePatch`, `CheckPatch` and `UpdateTree` are the read of a PATCH, the read of `Service.Update`
and its compare-and-swap; `ReviewTranslation`, `PreparePublication`, `LockPublicationStream` and
`CommitPublication` the two reads of a publication, the advisory lock with the look for an import,
and `SELECT ... FOR UPDATE` to COMMIT. A tree is one optional text for each field of the course's
title and blocks; modules, lessons and Assessments have fields of the same kind. `CountedNames` is what
completeness counts (`workspace_view.go`), `RequiredNames` what a learner's page needs.

### PluginRegistry, DashboardWidgets, WidgetRuntime

In `PluginRegistry`, `GetRelease`, `GetKey`, `FindActiveApproval` are the reads from which trust is
derived, for use (`RuntimeRelease`) or for enabling (`Enable`); `CheckAuthority`, `LookForApproval`,
`CreateApproval` give an approval; `FindToRevoke`, `RevokeApproval`, `ReadHistory` withdraw it. A
package is its digest and its signer: a signature verifies if the registered public key is the
signer's. One version of each plugin is modelled, since trust never compares two.

In `DashboardWidgets`, `LockPlacements` and `CommitOrder` are the two halves of the transaction of a
move: the rows it has read FOR UPDATE, then `position + 1000000` for all rows and numbers for
those it knows. `drawn` are the identifiers used, each a new UUID. Positions have a unique index, so
a statement that would break it fails.

In `WidgetRuntime`, a token lives five minutes (`ExpireToken`), outlives the server, and is exchanged
by `VerifyToken`, `ResolveRefresh`, `FindContext`, `Refresh`; the contexts are lost in a `Restart`. The
registry's and the dashboard's answers (`runnable`, `shown`) change at any moment.

### Community, Sessions, LoginLimiter

In `Community`, a thread and its opening post are one transaction; every other write is a statement
behind checks made by earlier ones (`BeginPost` / `InsertPost`, `BeginModeratePost` / `InspectPost` /
`SetPostState`). Posts are ordered by the time their statement began, so `InsertPost` may put one
before a reply that is already there, never before the opening.

In `Sessions`, `Arrive`, `GetSessionByDigest`, `ResolveUser`, `ValidateCSRF` and `AuthorizeCapability` are
the reads of the middleware chain, in the order that `newRouter` gives each kind of route
(`Middleware`). Login commits the session with its audit row, Logout the revocation with its; the
answer to a COMMIT may be lost. Administrators act outside of HTTP, by the command line and the
services: at any moment.

In `LoginLimiter`, `EnterAllow` reads the clock and `Allow` is what happens under the mutex; between
the two at most `MaxDelay` passes. Tokens are counted in ticks of refill. `allowance` is a history
variable: what a bucket that nobody ever forgets would still hold.

### CertificateIssuance

`ReadRevision` and `ReadCompletions` are the two queries of `progress.Repository.Get`; `BeginIssue`,
`Evaluate`, `InsertCertificate` and `ReadExisting` the stages of `CertificateIssuanceService.Issue`. One
published version is modelled: certificates of different versions share nothing.

### CourseStore

`rows` is the set of committed rows of all tables, each with the name of its table. A writer collects
its rows in `tx` (`InsertVersion`, then `InsertParts` for each table in the code's order) and
`CommitVersion` makes them visible. A reader finds a version (`BeginReadOf`) and then reads one table
with each `LoadNext`, in the order of `PlanOf`; READ COMMITTED, so each statement sees what is committed
then. `PreferredVersion` and `Discovered` choose a version in Go, `LatestPublishedVersion` and
`LatestOfCatalog` in SQL; the last joins the provenance that only a review writes. An import takes the
advisory lock of its portable course first (`ResolveCourse`).

`hidden` is a history variable of a reader: its version, if that was withdrawn when the last statement
ran that sees the status. That is the first one for a lesson, an outline or an Asset, and for the reads by
id the one that loads the version row, whose status `publicPublishedCourseVersion` looks at again
(`NotFound`). A withdrawal after that statement is not noticed, and no document says it should be.

`TransitionCourseVersionStatus` of the repository has no route yet; what it would do to readers is
modelled all the same. `CreateModule` and `CreateLesson` of the same repository are called by tests
alone, and are left out.

### CoursePackages

The validators, operator by operator: editor (`EditorAccepts`), submission (`SnapshotAccepted`),
publication (`Publishable`, with `ResolvedAssets` and `AssessmentsComplete`), store (`Storable`), exporter
(`Exportable`), reader (`Readable`), importer (`ImportableTranslations`). A course is a record with its
modules, lessons, blocks and questions; a text is sound or not. `PackageOf` is what `Exporter.Write`
writes: files, and checksums of every file but the manifest. The requests are publication, export,
preview and the execution of an import, the latter statement by statement up to the point where
`CourseStore` takes over (`BeginExecute`, `CheckWidget`, `LookUpImport`, `LockOrigin`, `InsertRecord`,
`StoreImport`, `AnswerExecute`). A package that is corrupt or made by hand is refused by the same
operators, but the model writes only packages that exporters make.

`available` is the set of releases that may be placed at the academy that imports; `ChangeRelease` is an
administrator who enables or disables one, or a key or approval that goes. `Importer.Import` looks up
the release of each widget, one `CheckWidget` each, before anything else; a lookup is one step here, and its
reads are in `PluginRegistry`. `left` are the widgets still to look up; `unseen` is a history variable, the
widgets that were available at no moment of the request.

Where a station finds fault with a course that the one before has passed, the request is `broken`. Not
every refusal is that:

* what tells the author what to correct (a missing Asset, an empty Assessment) is a guard;
* an export of a version that is no longer PUBLISHED changes nothing and is left out; the status is in
  `CourseStore`;
* a package beyond the limits of the reader (`WithinLimits`) gets no token. Assets and translations are
  counted; the rest (number and size of entries, their sum, compression ratio) depends on bytes the
  model does not have, so `Oversized` says which packages they refuse, and may say any;
* a widget whose release is not available ends the import as `pluginMissing`, and the token stays. So does
  a failure of the binary storage, or an Asset beyond its `AssetMaxBytes`, which is `EndRequest`.

So it is not promised that every course can be exported, or that every package that is exported can be
imported: what is promised is that only these reasons stand against it.

One outcome is none of these: the fingerprint of a package leaves out its manifest, so two courses of the same text without
translations share it, and the second import fails (`collided`) with an error that the API reports
as temporary although it is final: the slug of its course, made of the fingerprint, is taken, and
`CreateCourse` says so with `courses.ErrConflict`, which is not among the errors that
`mapImportWriteError` knows as a conflict of versions. Nothing wrong is stored or answered, which `ImportsAnswerTruly` shows.

## 3. Runs

| Run | Question and answer |
|---|---|
| `draft_workspace` | Two users, two racing requests. A maintainer remains; writes that quote the Draft revision carry current authority; the whole, PATCHes included, implements `WorkspaceContract`. |
| `draft_structure` | All sequences of eight writes over two Modules and three Lessons: no gaps, nothing dangles, changes are visible in revisions. |
| `draft_structure_deletion` | `PrerequisitesAreReviewable` is violated by one deletion (finding 1). |
| `review_publication` | Two Reviews, members, semantic versions and requests, with plugins that come and go, and requests that die at any step: versions are approved Reviews, the modules agree, recovery recognises its own work, decisions are final and independent, and the whole implements `PublicationContract`. |
| `review_publication_recovery` | Under fair retries a version left in Courses is recorded in Authoring. |
| `review_publication_plugins` | A recovery is refused because of a plugin withdrawn after the version was stored (finding 2). |
| `status_list` | Three certificates, two lists of two positions, two racing requests that die at any step: allocation is exact, a current snapshot is true, no verifier is shown a stale list, one badge is kept, and what is served implements `StatusContract`. |
| `status_list_convergence` | If verifiers keep asking for the list, a revocation whose publication failed is shown by a current list. |
| `asset_store` | Two requests, each an upload or an import, that fail, lose answers or stop at any step: what is referred to has its bytes, answers are true, the same package is replayed and never refused, and one failure alone leaves nothing behind. |
| `asset_store_commit` | An import whose COMMIT is answered with an error removes the files of the version it has published (finding 3). |
| `platform_services` | The eleven services of `PlatformServices`, each with two racing requests that stop at any step: every service keeps what section 1 calls correct, property by property below. |
| `course_catalog` | A course that came as a package is readable, but the catalog does not list it (finding 4). |

The properties of `platform_services`:

| Property | Module | What it says |
|---|---|---|
| `OriginsNeverMix` | `Translations` | a stream holds its import or what its workspace published, and no revision twice |
| `PublishesWhatIsThere` | `Translations` | what is published is what the workspace holds at that moment, complete |
| `LearnersCanRead` | `Translations` | what completeness counts suffices for a page |
| `OpeningPostIsShown` | `Community` | a thread never loses its opening |
| `TabsAgree` | `Sessions` | one CSRF token per session, for all tabs |
| `AuthorityIsFresh` | `Sessions` | no handler runs on a session, account or role withdrawn before the request came |
| `NothingIsForgiven` | `LoginLimiter` | nobody gains by being forgotten, or by an old clock |
| `RunsAreFresh`, `RevocationsTakeEffect` | `PluginRegistry` | a release runs, a revocation is answered, only if some moment of the request justifies it |
| `OrderIsTotal` | `DashboardWidgets` | no two placements share a position, and a move numbers what it saw |
| `GrantsAreFresh` | `WidgetRuntime` | no token is handed out without the release and the placement |
| `CertificatesAreEarned` | `CertificateIssuance` | certificates only for complete progress, one for all requests |
| `ResultGradesFrozenResponses` | `LearnerAttempt` | the result grades what is stored |
| `ReadsAreWhole`, `SelectionsAgree`, `WithdrawnStaysHidden` | `CourseStore` | readers get whole versions in order, all paths choose the same, none answers with one that was withdrawn when its row was loaded |
| `NothingBreaks`, `ImportsAnswerTruly` | `CoursePackages` | no station finds fault with content that the one before passed; an import is the course that was sent, arrives once, and goes on only if each of its widgets was available at some moment of the request (`WidgetsWereAvailable`) |

`CHECK_DEADLOCK FALSE` is set, except for the status lists and assets, because these histories do end: an
Attempt is submitted, a Draft is abandoned, or a bound on revisions is reached, and nothing need happen after that.

### Bounds, and why they are enough

* *Two requests*: every race the code must exclude is between one request's read and another's
  commit. Slots are reused, so histories contain many more requests than two.
* *Two users* in `draft_workspace`: the one who loses a role or may not decide, and the one who acts. *One
  user* in `platform_services`: where authority matters there, it is the account's own, which comes and goes.
* *MaxRevision 4* (workspace): three writes, enough to grant a role, to revoke one, and for a third
  request to have been authorized before both. *4* (Attempt): two saves and the submission.
* *Two Reviews, two targets, MaxRevision 2*: two Reviews of different revisions that claim the same
  version or different ones.
* *MaxAssessment 1*: an empty list, which cannot be published, and one that can.
* *Eight structural writes, two Modules, three Lessons*: enough to build an outline with a middle
  Lesson, connect it, move a Lesson to another Module, and delete.
* *Three certificates, two lists of capacity 2* (status lists): one list fills, the next is begun and
  has a free position. A request slot is reused, so that a revocation, its retry and any number of
  readers meet; all pairs of a revocation, an allocation and a publication overlap. Revisions need
  no bound, as only an allocation or a revocation advances them. Convergence needs one certificate
  and one list, with one request to fail and one to ask.
* *Two Assets, four files, two packages of one version with two files each, two requests* (assets): two
  uploads, or an upload and an import, or two imports of the same package or of rivals, side by side;
  an import that stops after one file, and enough files for a second attempt.
* *Recovery*: one Review, one member and two requests, so that one can die between the two modules
  while the other retries.
* *Translations*: one version, one language, a TABLE and an untitled CODE block (the two types at which
  completeness and the page differ), four revisions: two edits between a read and a commit.
* *Login limits*: two peers for a table of one bucket; a burst of two attempts, refilled in two ticks;
  buckets are idle after four ticks, which is the least that `LimiterAssumption` allows (the code's 15
  minutes are far above its 2 minutes of refill); eight ticks, so that a bucket is emptied, forgotten
  and made anew.
* *Plugins*: one release, two artifacts of it, one key that is offered with three contents, two
  approvals: one revoked, one given again. *Placements*: three, two revisions, so that one is created or
  deleted while a move of the others is under way. *Instances*: two, one older than a restart.
* *Community*: one thread, three posts, the third stored between the other two. *Sessions*: one session,
  whose two tabs are the two requests.
* *Certificates*: three lessons, two identifiers: the loser's and the winner's.
* *Courses*: two reviews of one course, 1.9.1 and 1.10.0, whose order as text is the wrong one, and a
  package; the second content has modules and requirements whose order is not that of their keys. At
  most one request reads at a time (`Reading`), for readers change nothing that another could see.
* *Packages*: seven snapshots, the smallest that exercise each validator: plain text; another with the
  same text; one with media, code, a download, a widget, matching and choice questions; and four that
  publication refuses for different reasons. Limits of 3 blocks, 4 Assets and one translation are
  reached, and of one course the translated package is more than the reader takes. One version
  per Draft, one token per package, two packages: the same course before and after a
  translation, or two courses.

Symmetry (request slots, Reviews, questions, Modules, Lessons, Assets, files) permutes identifiers that the code
compares only for equality; it is not used where liveness is checked.

### Fairness

In `ReviewPublication`, `WF(EndRequest)`: a request ends, since handlers
have no loop and the server has timeouts. `SF` of each publication step and of `Retry`: a
maintainer whose publication was not confirmed tries again, and no statement fails every time it
is tried. Strong fairness is needed since a crash disables a step that was enabled. The code has no
retry loop of its own, so what this shows is that *if* members retry, they succeed. The run keeps
the plugin release available, because finding 2 shows that recovery otherwise depends on it.

In `StatusList`, `WF(EndRequest)` again; `SF` of `ReadCurrent`, `LockAndRead` and `PublishSnapshot`: the
database and the signing key do not fail every time; and `SF(Poll)`: verifiers keep asking for each
list. Nothing is assumed of the revocation workflow itself, which may fail and never be retried.

The other services have no obligation that must eventually be met: each request ends with an answer
or without one, and nothing is left for a background task, of which the program has none.

## 4. Findings

1. **Deleting a Lesson can make a Draft unsubmittable** (code bug;
   `M/authoring/postgres/structure.go:755`). A Lesson that requires [A, B] keeps one prerequisite
   row, at position 1, once A is deleted. Review submission requires position = index
   (`M/authoring/review.go:136`) and fails until someone rewrites the list.
2. **Recovery of a publication depends on today's plugins** (`M/authoring/publication.go:117`
   against `docs/authoring-domain.md:356`). Plugin availability is checked before the version that
   Courses already holds is looked up.
3. **An import can delete the files of the version it published**
   (`M/portability/postgres_importer.go:157` against `M/assets/storage.go:38-40`). Every error of COMMIT
   is taken for a rollback, and the stored files are removed; uploads read the row back first, because
   "an UPDATE may commit before a connection failure reaches the client" (`M/assets/ingestion.go:79`).
   A repeated import then answers REPLAYED, so nothing brings the bytes back. It takes a connection
   that fails between PostgreSQL's commit and its answer.
4. **The catalog does not list imported courses** (`M/courses/db/sqlc/courses.sql.go:1173` against
   `docs/course-portability.md:103`). The query joins the provenance of a review, of which an import
   writes none; exact, preferred and asset reads find the same versions.

Two remarks without a run. The order of finding 2 is also that of imports (`M/portability/importer.go:91`):
`CheckWidget` precedes `LookUpImport`, so once a release is disabled, a caller whose answer was lost is told of a
missing plugin, and not `REPLAYED` with the ids of what is there (`docs/course-portability.md:85`).

And with clients that quote a revision before it exists (`MaxAhead = 1`), a submission can freeze a grade of other responses (`M/assessments/learner_attempt_service.go:81`) and a
PATCH can undo another (`M/authoring/mutation.go:44`), because the closing update compares the revision
that the client quoted and not the one that was read. No client of the repository does so, hence
`MaxAhead = 0` in the runs, and the theorems name that assumption.

## 5. Proofs

TLAPS proves, for every value of the constants that satisfies the modules' assumptions (finite sets
of users, Lessons and so on; a creator who is a user; `None` different from every row):

* `ReviewPublicationProofs`: `TypeCorrect`, `VersionsCorrect`, `ModulesAgree`, `RecoveryCorrect`,
  `DecisionsAreIndependent`, `DecisionsAreFinal`, and `Refinement` (the protocol implements
  `PublicationContract`).
* `DraftWorkspaceProofs`: `WorkspaceTypeCorrect`, `WorkspaceKeepsAMaintainer`, and, assuming
  `MaxAhead = 0`, `AuthorityIsCurrent`, `PatchesKeepOtherFields` and `WorkspaceRefinement`.
* `DraftStructureProofs`: `OutlineIsNumbered`, `OutlineIsClosed`, `RevisionsTellOfChanges`, for any finite
  sets of Modules and Lessons.
* `StatusListProofs`: `StatusTypeCorrect`, `AllocationCorrect`, `SnapshotsCorrect`,
  `StatusIsNeverStale`, `BadgesCorrect`, and `StatusRefinement` (what is served implements
  `StatusContract`), for finitely many certificates and any capacity, lists and requests.
* `AssetStoreProofs`: `AssetTypeCorrect`, `AnswersHold`, `ConflictsHold`, `ResidueIsKnown`, and, assuming
  `CommitsAreConfirmed`, `AvailableAssetsHaveBytes`; for any number of Assets, files, packages and requests.
* `PluginProofs`: `RegistryTypeCorrect`, `GrantsAreCurrent`, `RevocationsAreReal` for any keys, packages
  and approvals; `DashboardTypeCorrect`, `DashboardIsOrdered` for any placements, fewer than the offset
  that a move adds; `RuntimeTypeCorrect`, `TokensAreFresh` for any instances.
* `AccountProofs`: of the sessions `SessionsTypeCorrect`, `AuthorityIsChecked`, `TokensAgree`; of the login
  limits `LimiterTypeCorrect`, `LimitsHold`; of the translations `TranslationsTypeCorrect`,
  `OriginsStayApart`, `PublicationsAreWhatIsThere`, `OfferedLanguagesCanBeRead`; of the Attempts
  `AttemptTypeCorrect`, `SubmissionIsTerminal`, and, assuming `MaxAhead = 0`, `ResultsCorrect`; of the
  certificates `CertificateTypeCorrect`, `CertificatesCorrect`; of the community
  `CommunityTypeCorrect`, `OpeningPostsStay`.
* `PlatformServicesProofs`: of the course store `CourseStoreTypeCorrect`, `WithdrawnIsHidden`,
  `SelectionsAlwaysAgree`, `ReadsAnswerWhole`; of the packages `PackagesTypeCorrect`, `NothingEverBreaks`,
  `ImportsAlwaysAnswerTruly`, for any Reviews that could be frozen, any Assets,
  widgets and limits; of the whole,
  `PlatformTypeCorrect`, `ServicesRunTogether` and `PlatformKeepsItsPromises`.

What the modules assume of their constants is what the code guarantees: `CourseStoreAssumption`, that the
modules and lessons of a version to be stored have keys of their own, which
`ImmutableCourseVersion.ValidateForPersistence` checks before the first INSERT, and that an imported
course is under an identifier which no course here has, a new UUID; `LimiterAssumption`, that a bucket
rests longer than it takes to refill it, allowing for the delay of a request at the mutex; of
`CoursePackagesAssumption`, that a frozen Review has the types of `ReviewSnapshot`, and not that anything
in it is valid. In every module `None` differs from every row.

**The argument for publication.** None of the invariants is inductive alone: a request holds a copy
of a Review, and later of a version, and writes from those copies. `IInv` adds what makes the
copies good. `StoredInv` relates the tables: a decided cycle has revision 2 and a decider; a stored
version is the conversion of an APPROVED Review, and no two share a Review or a target; a record
is a stored version. `RequestsInv` relates each request to the tables: a publishing request's copy
*is* the current row, because an APPROVED cycle has no further transition; a deciding request's copy
is current as long as the row is IN_REVIEW, and passed the policy; a request about to record holds a
stored version. Then stored versions of one Review have the same source
(`StoredIsSameSource`), which is why reconciliation never meets a mismatch, and records inherit the
uniqueness of versions, which is why the second unique constraint never fires.

**The argument for revisions.** In the modules of workspaces and Attempts the invariant says: *while the quoted
revision is still the current one, what the request read is still true* (its actor's capability, the
metadata it loaded, the grade it computed). It is inductive because every write advances the
revision, so that afterwards no other request quotes the current one (`OthersGoStale`). That needs
that no request quotes a revision which does not exist yet, hence `MaxAhead = 0`.

**The argument for outlines.** That nothing dangles and no list has a gap is inductive as it stands,
but each step needs more than sets of positions: a deletion decrements the positions above the
deleted one, which closes the gap only if no other row had that position. That rows which fill n
positions without gaps share none is counting (`NumbersAreDistinct`: a surjection between finite
sets of the same size is an injection). `Inserted` and the lemmas after it say, once, what shifting,
compacting and renumbering do to a numbered list; every operation cites them for the lists it touches.
That revisions tell of every change is a property of a single step.

**The argument for status lists.** A publication writes what it read, so `IInv` says that what it
read still holds (`ReadInv`): its list is locked, and every action that could change the list's
revision or bits needs that lock (`LocksExclude`). Every change of a list's entries or bits advances
its revision, and no snapshot is of a revision still to come (`SnapshotsArePast`), so a snapshot that
a change makes untrue stops being current in the same step (`AdvanceHides`). That the trigger always
finds the list to advance is `RevokedHavePositions`. What was revoked when a verifier asked stays
revoked, so a list that was true later than that shows it (`CurrentShows`).

**The argument for assets.** A file is removed by the request that stored it, so the invariant says who
may still name it: of an upload's file, only its own row, a late statement about that row, and the
request (`UploadExclusive`); of an import's file, nobody before the commit (`ImportExclusive`); of a
file not yet written, nobody (`Written`). An upload gets to remove its file only after it has
discarded the row (`RowForm`), and then no late statement can bring the row back, since each
says `WHERE lifecycle = 'PENDING'`. Steps that add no reference share one lemma
(`ReferencesShrink`). The import's half needs `CommitsAreConfirmed`: without it, an import about to
compensate may already be bound, which is finding 3. That a commit never overwrites earlier
bindings is `ImportForm`: under the lock, the package is new.

**The argument for plugins.** A request misses a condition as long as no state since it began has held
it. The invariant `TaskForm` says that nothing which holds now is still missed (`Noticed`), and what each
read has found (`Checked`, `Found`). A condition of the artifact that was read is one of the release that is
installed, because a release is never replaced (`BoundRelease`). For revocations: of one artifact at most one
approval is active (`ActiveIsUnique`), so a revocation leaves none; and an approval that a request has
found is either still active or was revoked since, which that moment showed.

**The argument for translations.** `CommandForm` says that what a request has read of a workspace still
holds while the revision is the one it read, because every edit advances it (`StoresGrow`). A workspace
exists only of a stored version (`WorkspacesHaveSources`), and a version is stored once, so an import
cannot come to a stream that has a workspace: what the lock has found free of imports stays so. A
newest publication exists because revisions are bounded (`LatestIsThere`, by well-foundedness), it is
complete (`PublicationsAreComplete`), and completeness counts all that a page needs.

**The argument for sessions.** A request passes the middlewares in their order and misses a condition as
long as no state since it arrived has held it. `CallForm` says what each step has behind it: a
request that has found its session does not miss it, and so on. The tables move while it goes on, but only in
ways that `AccountsStay` and `SessionsStay` list: an account is never removed, a session keeps its user.

**The argument for login limits.** Beside each bucket the model runs one that is never forgotten, of a burst
and `MaxDelay` tokens. A bucket is `Covered` when, refilled to this moment, it holds no more than that one.
Requests keep this because refilling is monotone; the cleanup keeps it because what it drops has rested
long enough for the other to be full as well, even if its last request had read the clock `MaxDelay`
early. This is where `LimiterAssumption` is needed, and all that is needed of the numbers.

**The argument for certificates and the community.** What a claim has read of the progress is a subset of what
is there, for a lesson is never taken back (`LearnersAdvance`); a claim that found itself eligible
therefore still is when it inserts, or when it reads what another request has inserted.
A thread keeps its first post (`ThreadsStay`), so a moderation that has seen another post first
is never about the opening one.

**The argument for dashboards.** Positions differ at every moment, also between the two halves of an order.
`OrderForm` says of a move that its rows are the ones it has locked (`RowsStay`, `MovesExclude`); the first
statement lifts all rows above the offset, the second numbers the listed ones from zero, and a number below
the offset meets none above it. That there are fewer placements than the offset is counting.

**The argument for the course store.** A version is a row written once. `StoreForm` relates it to its source:
its identifier is a function of the source, so no two versions of one number exist, and the status
is the only thing that changes. What a reader has chosen was published at some moment since it asked, which
`ReaderForm` carries. For whole reads, `StoreWhole` says that all rows of a version are there from its commit on;
`WriterWhole`, which rows a transaction has collected so far; `FoundSoFar`, that a reader has found
exactly the rows of the tables it has been through, whatever was committed in between. What is left is a fact
about data: sorting these rows by position gives back the tree. No induction is needed, because `InOrder`
places a row by the number of rows before it, and the proof counts.

**The argument for packages.** `NothingEverBreaks` is a chain of implications between validators that the code
wrote five times: `PublishableIsStorable` (the editor's rules, those of submission and those of
publication imply those of Courses), `StoredIsExportable`, and `PackageIsReadable` (the reader takes what
the exporter wrote, and the same course comes out). It says nothing of limits, widgets and storage, by which a
course may still be refused, with an answer that names them. Their hardest parts are about data: that as many pairs
as items, none named twice, name all of them (`PairsNameAll`, by counting); that neighbours in ascending
order make all keys differ (`AscendingKeys`, by well-foundedness); that what one module finds referenced
in a block the others find too (`UsesAreReferences`, `ReferencesAgree`); that what the reader of a package
looks for in a translation is counted here (`RequiredIsCounted`). `PackagesInv` then says that every version
is the conversion of an accepted Review, every package that of a version, every import that of
a package; and, for no course to arrive twice, `LocksHold`: a request that holds the lock of a course is
alone with it and has found no import of it, which stays so since another import is stored under another lock.
For `WidgetsWereAvailable` it carries that `unseen` is part of `left` and that past the check nothing is left
(`JobHolds`): a widget leaves `left` only when it is available, and then it is not unseen.

**The argument for the platform.** A step of `PlatformServices` is, for each service, one of its steps or a
stutter (`StepsAreOfServices`), so each behaviour of it is one of every service: `ServicesRunTogether`.
`PlatformKeepsItsPromises` is about `AllServices`, requests to all services at once in any order, which TLC could
not explore; so exploring one service at a time loses nothing.

**Refinement.** `DraftWorkspace` maps to its contract by its visible variables; each write, under the
invariant, is one of the contract's atomic steps, and everything else stutters. `ReviewPublication`
maps each Review to a stage computed from three tables (`Stage`), so that the Courses store and the
Authoring record, which different requests may do, are two atomic steps in order. `StatusList` maps a
list to the bits of its snapshot if that is current, and to "out of service" otherwise; a request
that publishes the same snapshot again stutters.

`NoStaleAuthority` covers the operations that quote the Draft's revision. It does not hold of
content edits, which quote a Lesson's revision: a member who has just lost their role may complete
one (`docs/authoring-domain.md:55-57`), which is why the contract's `EditCourse` asks for no role.

**A convention.** An update of several fields of one record in a function is written
`[f EXCEPT ![p] = [@ EXCEPT !.a = .., !.b = ..]]`. tlapm 1.4.5 encodes two paths under the same index
(`![p].a = .., ![p].b = ..`) inconsistently, so that even FALSE follows from one; no module uses that form.
Nor is `@` used within an EXCEPT that is itself within another's `@`: tlapm expands the inner one to a path
too long.

## 6. Only model-checked

* `RecoveryConverges` and `RevocationConverges`: liveness under fairness is beyond the prover.
* The violated properties of section 4, whose counterexamples are TLC's.

## 7. Not modelled, and what could follow

* **HTTP platform**: routing, decoding, error mapping, timeouts. Each handler makes the one call at which
  the models begin; the few that decide something (portability, dashboard, login) are in the models.
* **Web client**: pages over the API. Only the revisions that it quotes matter, which are inputs.
* **Placeholder modules** (administration, learning, notifications, publishing, search) hold no code.
* **Partly modelled.** Draft workspace: creation is the initial state, listings are left out. Assessments,
  authoring: which question lists are accepted, not the compare-and-swap of a definition. Assets: media types,
  size limits, ownership. Open Badges: the registration of the verification method at start. Portability:
  packages that no exporter has made, and the archive format, of which the model has only the outcome of the
  limits. Generated queries: the statements of
  modules other than Authoring's structure and Courses are within the action that executes them.
* **Left out for good**: parsing and rendering of texts, pagination, signing and hashing (external
  libraries), and repository methods that no service calls (`ReorderLessons`, `DeleteModule`,
  `DeleteLesson`, `ReplacePrerequisites`, `MoveLesson` of `structure.go`).

What could follow, in order: `AuthoringSystem`, workspace, structure, Assessment authoring and Review in
one module, so that submission freezes a real outline and what is frozen is one committed state of
the Draft; issuance joined to `StatusList`.

## 8. Running

`tlc -config MCDraftWorkspace.cfg MCDraftWorkspace.tla` and likewise for the others; the longest run,
`MCPlatformServices`, takes about three minutes with two workers. `tlapm ReviewPublicationProofs.tla`
and likewise.
