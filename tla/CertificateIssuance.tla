--------------------------- MODULE CertificateIssuance ---------------------------
(***************************************************************************)
(* Progress of learners in one published course version, and the certificate  *)
(* for completing it.                                                        *)
(*                                                                         *)
(* Progress is read by two queries, revision first.  Issuance looks for the    *)
(* certificate, evaluates the policy, and inserts; nothing spans these, so two *)
(* requests of one learner may both come to insert.  A revoked certificate     *)
(* stays, and is what later requests get.                                     *)
(***************************************************************************)
EXTENDS Naturals, FiniteSets, Services

CONSTANTS
    Lessons,       \* lesson keys of the version
    Certificates   \* identifiers of certificates

VARIABLES
    progress,     \* progress.course_progress and lesson_completion
    certificate,  \* credentials.certificate, by learner
    claim         \* the requests in flight

credentialVars == <<progress, certificate, claim>>

Progress == [revision : Nat, completed : SUBSET Lessons]

Certificate == [id : Certificates, status : {"ACTIVE", "REVOKED"}]

ASSUME CertificateAssumption ==
    /\ None \notin Lessons \cup Certificates \cup Progress \cup Certificate
    /\ IsFiniteSet(Lessons)

Claim == [step : {"idle", "marking", "reading", "half", "read", "eligible", "conflict",
                  "answered"},
          learner : Users \cup {None}, lesson : Lessons \cup {None}, issuing : BOOLEAN,
          revision : Nat, completed : SUBSET Lessons, id : Certificates \cup {None}]

NoClaim == [step |-> "idle", learner |-> None, lesson |-> None, issuing |-> FALSE,
            revision |-> 0, completed |-> {}, id |-> None]

CertificateInit ==
    /\ progress = [u \in Users |-> None]
    /\ certificate = [u \in Users |-> None]
    /\ claim = [p \in Requests |-> NoClaim]

-----------------------------------------------------------------------------
EndClaim(p) ==
    /\ claim[p].step # "idle"
    /\ claim' = [claim EXCEPT ![p] = NoClaim]
    /\ UNCHANGED <<progress, certificate>>

-----------------------------------------------------------------------------
(* Progress *)

\* INSERT ... ON CONFLICT DO NOTHING, then Get.
CreateProgress(p, u) ==
    /\ claim[p] = NoClaim
    /\ progress' = IF progress[u] = None
                   THEN [progress EXCEPT ![u] = [revision |-> 1, completed |-> {}]]
                   ELSE progress
    /\ claim' = [claim EXCEPT ![p] = [NoClaim EXCEPT !.step = "reading", !.learner = u]]
    /\ UNCHANGED certificate

\* The learner's client quotes the revision it knows.
BeginMark(p, u, lesson) ==
    /\ claim[p] = NoClaim
    /\ progress[u] # None
    /\ claim' = [claim EXCEPT ![p] = [NoClaim EXCEPT
          !.step = "marking", !.learner = u, !.lesson = lesson, !.revision = progress[u].revision]]
    /\ UNCHANGED <<progress, certificate>>

\* The completion is inserted ON CONFLICT DO NOTHING; only a new one counts.
Completed(row, lesson) ==
    IF lesson \in row.completed THEN row
    ELSE [revision |-> row.revision + 1, completed |-> row.completed \cup {lesson}]

\* SELECT ... FOR UPDATE, compare the revision, insert, count; then Get.
MarkLessonCompleted(p) ==
    LET u == claim[p].learner IN
    /\ claim[p].step = "marking"
    /\ progress[u].revision = claim[p].revision
    /\ progress' = [progress EXCEPT ![u] = Completed(@, claim[p].lesson)]
    /\ claim' = [claim EXCEPT ![p] = [NoClaim EXCEPT !.step = "reading", !.learner = u]]
    /\ UNCHANGED certificate

\* The first query of Get.
ReadRevision(p) ==
    LET u == claim[p].learner IN
    /\ claim[p].step = "reading"
    /\ progress[u] # None
    /\ claim' = [claim EXCEPT ![p] = [@ EXCEPT !.step = "half", !.revision = progress[u].revision]]
    /\ UNCHANGED <<progress, certificate>>

\* The second.
ReadCompletions(p) ==
    /\ claim[p].step = "half"
    /\ claim' = [claim EXCEPT ![p] = [@ EXCEPT
          !.step = "read", !.completed = progress[claim[p].learner].completed]]
    /\ UNCHANGED <<progress, certificate>>

-----------------------------------------------------------------------------
(* Issuance *)

\* A certificate that exists is the answer, active or revoked.
BeginIssue(p, u) ==
    /\ claim[p] = NoClaim
    /\ claim' = [claim EXCEPT ![p] =
          IF certificate[u] # None
          THEN [NoClaim EXCEPT !.step = "answered", !.learner = u, !.issuing = TRUE,
                               !.id = certificate[u].id]
          ELSE [NoClaim EXCEPT !.step = "reading", !.learner = u, !.issuing = TRUE]]
    /\ UNCHANGED <<progress, certificate>>

\* Mutant of IsCourseComplete: enough that no foreign lesson is completed.
IsSubset(completed) == Lessons # {} /\ completed \subseteq Lessons

\* A version without lessons is never completed.
IsCourseComplete(completed) == Lessons # {} /\ Lessons \subseteq completed

Evaluate(p) ==
    /\ claim[p].step = "read" /\ claim[p].issuing
    /\ IsCourseComplete(claim[p].completed)
    /\ claim' = [claim EXCEPT ![p] = [@ EXCEPT !.step = "eligible"]]
    /\ UNCHANGED <<progress, certificate>>

\* INSERT ... ON CONFLICT (learner_user_id, course_version_id) DO NOTHING RETURNING.
InsertCertificate(p, id) ==
    LET u == claim[p].learner IN
    /\ claim[p].step = "eligible"
    /\ \A v \in Users : certificate[v] # None => certificate[v].id # id
    /\ IF certificate[u] = None
       THEN /\ certificate' = [certificate EXCEPT ![u] = [id |-> id, status |-> "ACTIVE"]]
            /\ claim' = [claim EXCEPT ![p] = [@ EXCEPT !.step = "answered", !.id = id]]
       ELSE /\ claim' = [claim EXCEPT ![p] = [@ EXCEPT !.step = "conflict"]]
            /\ UNCHANGED certificate
    /\ UNCHANGED progress

\* No row was returned: the certificate of the other request is read.
ReadExisting(p) ==
    /\ claim[p].step = "conflict"
    /\ claim' = [claim EXCEPT ![p] =
          [@ EXCEPT !.step = "answered", !.id = certificate[claim[p].learner].id]]
    /\ UNCHANGED <<progress, certificate>>

\* UPDATE ... WHERE status = 'ACTIVE'; a revoked one is returned as it is.
RevokeCertificate(u) ==
    /\ certificate[u] # None
    /\ certificate' = [certificate EXCEPT ![u] = [@ EXCEPT !.status = "REVOKED"]]
    /\ UNCHANGED <<progress, claim>>

-----------------------------------------------------------------------------
CertificateNext ==
    \/ \E u \in Users : RevokeCertificate(u)
    \/ \E p \in Requests :
          \/ \E u \in Users :
                \/ CreateProgress(p, u)
                \/ \E lesson \in Lessons : BeginMark(p, u, lesson)
                \/ BeginIssue(p, u)
          \/ MarkLessonCompleted(p)
          \/ ReadRevision(p)
          \/ ReadCompletions(p)
          \/ Evaluate(p)
          \/ \E id \in Certificates : InsertCertificate(p, id)
          \/ ReadExisting(p)
          \/ EndClaim(p)

CertificateSpec == CertificateInit /\ [][CertificateNext]_credentialVars

-----------------------------------------------------------------------------
(* Properties *)

\* Every variable of progress and certificates has its type.
CertificateTypeOK ==
    /\ progress \in [Users -> Progress \cup {None}]
    /\ certificate \in [Users -> Certificate \cup {None}]
    /\ claim \in [Requests -> Claim]

\* Whoever has a certificate has completed every lesson, and every request that is
\* answered with a certificate names the one that is stored, the loser of two
\* insertions too.
CertificatesAreEarned ==
    /\ \A u \in Users :
          certificate[u] # None => Lessons # {} /\ progress[u] # None /\ progress[u].completed = Lessons
    /\ \A p \in Requests :
          claim[p].step = "answered" => certificate[claim[p].learner] # None
                                        /\ claim[p].id = certificate[claim[p].learner].id

=============================================================================
