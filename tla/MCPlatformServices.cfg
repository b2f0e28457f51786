SPECIFICATION Spec
CONSTANTS
    Users = {ada}
    Requests = {r1, r2}
    None = None
    Versions = {v1}
    Languages = {fr}
    Texts = {text}
    MaxTranslationRevision = 4
    Blocks <- MCBlocks
    Courses = {go, tla}
    Threads = {t1}
    Posts = {p1, p2, p3}
    Sessions = {s1}
    Peers = {a, b}
    Burst = 2
    RefillInterval = 1
    MaxSources = 1
    IdleTime = 4
    CleanupInterval = 2
    MaxPermits = 1
    MaxDelay = 1
    MaxTime = 8
    approver = approver
    widget = widget
    digest1 = digest1
    digest2 = digest2
    public1 = public1
    public2 = public2
    Releases = {widget}
    Digests = {digest1, digest2}
    PublicKeys = {public1, public2}
    KeyOffers <- MCKeyOffers
    Packages <- MCPackages
    ApprovalIds = {a1, a2}
    Placements = {w1, w2, w3}
    MaxPlacementRevision = 2
    Offset = 10
    MaxPosition = 2
    Instances = {i1, i2}
    Lessons = {l1, l2, l3}
    Certificates = {c1, c2}
    Questions = {q1, q2}
    MaxRevision = 4
    MaxAhead = 0
    Sources = {"review1", "review2", "package"}
    Imported = {"package"}
    HomeOf <- MCHomeOf
    NumberOf <- MCNumberOf
    Holds <- MCHolds
    Drafts <- MCDrafts
    Snapshot <- MCSnapshot
    License <- MCLicense
    Assets <- MCAssets
    TargetLanguages = {fr}
    Widgets <- MCWidgets
    MaxLessonBlocks = 3
    MaxAssets = 4
    MaxTranslations = 1
    Oversized <- MCOversized
    MaxPackages = 2
    MaxTokens = 2
SYMMETRY MCSymmetry
INVARIANTS
    TypeOK
    OriginsNeverMix
    LearnersCanRead
    OpeningPostIsShown
    TabsAgree
    AuthorityIsFresh
    NothingIsForgiven
    RunsAreFresh
    RevocationsTakeEffect
    OrderIsTotal
    GrantsAreFresh
    CertificatesAreEarned
    ResultGradesFrozenResponses
    ReadsAreWhole
    SelectionsAgree
    WithdrawnStaysHidden
    NothingBreaks
    ImportsAnswerTruly
PROPERTIES
    PublishesWhatIsThere
CHECK_DEADLOCK FALSE
