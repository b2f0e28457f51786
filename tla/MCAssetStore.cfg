\* Two uploads and two packages of one version, two requests, four files.
CONSTANTS
    None = None
    k1 = k1
    k2 = k2
    Assets = {a1, a2}
    Objects = {o1, o2, o3, o4}
    Packages <- TwoPackages
    SourceVersion <- OneVersion
    PackageFiles = 2
    Requests = {p1, p2}
    CommitsAreConfirmed = TRUE
SYMMETRY Interchangeable
SPECIFICATION Spec
INVARIANTS AvailableHasBytes AnswersAreTrue ConflictsAreReal NothingIsForgotten
