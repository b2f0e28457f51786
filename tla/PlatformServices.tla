----------------------------- MODULE PlatformServices -----------------------------
(***************************************************************************)
(* The services behind the HTTP API that share no table with each other.     *)
(*                                                                         *)
(* A state of the platform is a state of each of them, and a step of the      *)
(* platform is a step of one.  What holds of each in every behaviour is        *)
(* therefore explored one at a time: the requests of a behaviour all go to     *)
(* one service, chosen at the start, and the others stay as they begin.        *)
(***************************************************************************)
EXTENDS Translations, Community, Sessions, LoginLimiter, PluginRegistry, DashboardWidgets,
        WidgetRuntime, CertificateIssuance, LearnerAttempt, CourseStore, CoursePackages

VARIABLE served   \* the service that the requests go to

platformVars == <<served, translationVars, communityVars, identityVars, limiterVars,
                  registryVars, dashboardVars, runtimeVars, credentialVars,
                  attemptVars, courseVars, packageVars>>

ServiceNames == {"translations", "community", "identity", "login", "registry", "dashboard",
                 "runtime", "credentials", "attempts", "courses", "packages"}

\* A service that is not asked begins in one of its initial states.
Init ==
    /\ served \in ServiceNames
    /\ TranslationsInit /\ (served # "translations" => contributors = {})
    /\ CommunityInit
    /\ served # "community" => \A c \in Courses : mode[c] = "DISABLED" /\ moderators[c] = {}
    /\ SessionsInit /\ (served # "identity" => \A u \in Users : account[u] = None)
    /\ LimiterInit
    /\ RegistryInit
    /\ DashboardInit
    /\ RuntimeInit /\ (served # "runtime" => ~runnable /\ ~shown)
    /\ CertificateInit
    /\ AttemptsInit
    /\ CourseStoreInit
    /\ PackagesInit /\ (served # "packages" => available = {})

\* The services that are not asked.
OthersRest ==
    /\ IF served = "translations" THEN TRUE ELSE UNCHANGED translationVars
    /\ IF served = "community" THEN TRUE ELSE UNCHANGED communityVars
    /\ IF served = "identity" THEN TRUE ELSE UNCHANGED identityVars
    /\ IF served = "login" THEN TRUE ELSE UNCHANGED limiterVars
    /\ IF served = "registry" THEN TRUE ELSE UNCHANGED registryVars
    /\ IF served = "dashboard" THEN TRUE ELSE UNCHANGED dashboardVars
    /\ IF served = "runtime" THEN TRUE ELSE UNCHANGED runtimeVars
    /\ IF served = "credentials" THEN TRUE ELSE UNCHANGED credentialVars
    /\ IF served = "attempts" THEN TRUE ELSE UNCHANGED attemptVars
    /\ IF served = "courses" THEN TRUE ELSE UNCHANGED courseVars
    /\ IF served = "packages" THEN TRUE ELSE UNCHANGED packageVars
    /\ UNCHANGED served

Next ==
    \/ served = "translations" /\ TranslationsNext /\ OthersRest
    \/ served = "community" /\ CommunityNext /\ OthersRest
    \/ served = "identity" /\ SessionsNext /\ OthersRest
    \/ served = "login" /\ LimiterNext /\ OthersRest
    \/ served = "registry" /\ RegistryNext /\ OthersRest
    \/ served = "dashboard" /\ DashboardNext /\ OthersRest
    \/ served = "runtime" /\ RuntimeNext /\ OthersRest
    \/ served = "credentials" /\ CertificateNext /\ OthersRest
    \/ served = "attempts" /\ AttemptsNext /\ OthersRest
    \/ served = "courses" /\ CourseStoreNext /\ OthersRest
    \/ served = "packages" /\ PackagesNext /\ OthersRest

Spec == Init /\ [][Next]_platformVars

\* Requests to all services at once, however their steps interleave.
AllServices ==
    /\ TranslationsSpec /\ CommunitySpec /\ SessionsSpec /\ LimiterSpec
    /\ RegistrySpec /\ DashboardSpec /\ RuntimeSpec /\ CertificateSpec
    /\ AttemptsSpec /\ CourseStoreSpec /\ PackagesSpec

\* Every variable of every service has its type.
TypeOK ==
    /\ served \in ServiceNames
    /\ TranslationsTypeOK /\ CommunityTypeOK /\ SessionsTypeOK /\ LimiterTypeOK
    /\ RegistryTypeOK /\ DashboardTypeOK /\ RuntimeTypeOK /\ CertificateTypeOK
    /\ AttemptTypeOK /\ CourseStoreTypeOK /\ PackagesTypeOK

=============================================================================
