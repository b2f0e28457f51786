---------------------------- MODULE LearnerAttempt ----------------------------
(***************************************************************************)
(* One learner's Attempt at a published Assessment: answers are saved while *)
(* it is IN_PROGRESS, and one submission freezes them with their grade.     *)
(*                                                                         *)
(* A submission grades the responses it reads, and then closes the Attempt  *)
(* in a separate statement that compares the revision the learner quoted.   *)
(* Other saves and submissions of the same learner (a second tab, a retry)  *)
(* may commit between the two.                                              *)
(***************************************************************************)
EXTENDS Naturals, FiniteSets, Services

CONSTANTS
    Questions,    \* the questions of the frozen Assessment binding
    MaxRevision,  \* bound: an Attempt is written at most MaxRevision - 1 times
    MaxAhead      \* how far past the revision it has seen a client may quote

VARIABLES
    sheet,  \* the row of assessments.assessment_attempt
    req       \* the requests in flight

attemptVars == <<sheet, req>>

-----------------------------------------------------------------------------
\* What a response to a question is worth, once its shape is valid
\* (responseCorrect; a partial matching map is a wrong answer).
Answers == {"right", "wrong"}

\* Question keys are unique, so a response list is a partial function.
Responses == UNION {[answered -> Answers] : answered \in SUBSET Questions}

Results == [correct : Nat, total : Nat]

AttemptRow == [state : {"IN_PROGRESS", "SUBMITTED"}, revision : 1..MaxRevision,
            responses : Responses, result : Results \cup {None}]

ASSUME AttemptAssumption ==
    /\ IsFiniteSet(Questions)
    /\ Questions # {}
    /\ MaxRevision \in Nat \ {0}
    /\ MaxAhead \in Nat
    /\ None \notin AttemptRow

NoResponses == [q \in {} |-> "wrong"]

\* ValidateResponsesForPublishedAssessment with complete set.
AnswersAll(responses) == DOMAIN responses = Questions

\* GradePublishedAssessment: equal weights, no partial credit.
Grade(responses) ==
    [correct |-> Cardinality({q \in DOMAIN responses : responses[q] = "right"}),
     total   |-> Cardinality(Questions)]

NewAttempt == [state |-> "IN_PROGRESS", revision |-> 1,
               responses |-> NoResponses, result |-> None]

\* payload: the responses to save, or the grade of the responses that were read.
Idle == [step |-> "idle", expected |-> 0, payload |-> None]

AttemptsInit ==
    /\ sheet = None
    /\ req = [p \in Requests |-> Idle]

-----------------------------------------------------------------------------
\* LearnerAttemptService.Start.
Start ==
    /\ sheet = None
    /\ sheet' = NewAttempt
    /\ UNCHANGED req

Begin(p, step, expected, payload) ==
    /\ sheet # None
    /\ expected <= sheet.revision + MaxAhead
    /\ req[p] = Idle
    /\ req' = [req EXCEPT ![p] =
                 [step |-> step, expected |-> expected, payload |-> payload]]
    /\ UNCHANGED sheet

\* Update reads the Attempt for its owner and its binding, and validates a
\* possibly partial list of responses.
BeginSave(p, responses, expected) == Begin(p, "update", expected, responses)

\* Submit grades the responses as it has read them, whatever the state of
\* the Attempt; an incomplete list is refused here.
BeginSubmit(p, expected) ==
    /\ sheet # None
    /\ AnswersAll(sheet.responses)
    /\ Begin(p, "submit", expected, Grade(sheet.responses))

\* Mutant of ExpectedRevision: the quoted revision is not compared.
AnyRevision(p) == sheet.state = "IN_PROGRESS"

\* WHERE id = $1 AND revision = $2 AND state = 'IN_PROGRESS'
ExpectedRevision(p) ==
    /\ sheet.revision = req[p].expected
    /\ sheet.state = "IN_PROGRESS"

CommitSave(p) ==
    /\ req[p].step = "update"
    /\ ExpectedRevision(p)
    /\ sheet.revision < MaxRevision
    /\ sheet' = [sheet EXCEPT !.responses = req[p].payload, !.revision = @ + 1]
    /\ req' = [req EXCEPT ![p] = Idle]

CommitSubmit(p) ==
    /\ req[p].step = "submit"
    /\ ExpectedRevision(p)
    /\ sheet.revision < MaxRevision
    /\ sheet' = [sheet EXCEPT !.state = "SUBMITTED", !.result = req[p].payload,
                                  !.revision = @ + 1]
    /\ req' = [req EXCEPT ![p] = Idle]

\* Refused by the compare-and-swap (ErrRevisionMismatch, ErrAttemptImmutable),
\* cancelled, failed, or lost in a restart.
EndWithoutWriting(p) ==
    /\ req[p] # Idle
    /\ req' = [req EXCEPT ![p] = Idle]
    /\ UNCHANGED sheet

-----------------------------------------------------------------------------
AttemptsNext ==
    \/ Start
    \/ \E p \in Requests, expected \in 1..(MaxRevision + MaxAhead) :
          \/ \E responses \in Responses : BeginSave(p, responses, expected)
          \/ BeginSubmit(p, expected)
    \/ \E p \in Requests : CommitSave(p) \/ CommitSubmit(p) \/ EndWithoutWriting(p)

AttemptsSpec == AttemptsInit /\ [][AttemptsNext]_attemptVars

-----------------------------------------------------------------------------
(* Properties *)

\* Every variable has its type.
AttemptTypeOK ==
    /\ sheet \in AttemptRow \cup {None}
    /\ req \in [Requests -> [step : {"idle", "update", "submit"},
                             expected : 0..(MaxRevision + MaxAhead),
                             payload : Responses \cup Results \cup {None}]]
    /\ \A p \in Requests :
          /\ req[p].step = "update" => req[p].payload \in Responses
          /\ req[p].step = "submit" => req[p].payload \in Results
          /\ req[p].step # "idle" => sheet # None

\* The result that a submitted Attempt shows is the grade of the responses
\* frozen in it, and every question has one, although they were graded by a
\* read that the closing compare-and-swap does not repeat.
ResultGradesFrozenResponses ==
    sheet # None /\ sheet.state = "SUBMITTED" =>
        /\ AnswersAll(sheet.responses)
        /\ sheet.result = Grade(sheet.responses)

\* SUBMITTED is terminal: a save or a second submission that was under way
\* when the Attempt closed changes nothing.
SubmittedIsTerminal ==
    [][sheet # None /\ sheet.state = "SUBMITTED" => sheet' = sheet]_attemptVars

=============================================================================
