---------------------------- MODULE CreateCommand ---------------------------
(***************************************************************************)
(* The generator as its user runs it: the commands create and journey over *)
(* the answers file, the session file and the destination.  A generation   *)
(* takes many steps, and other commands run meanwhile; every other command *)
(* is one step, and so is a read and write of the session file.            *)
(***************************************************************************)
EXTENDS Questionnaire, GuidedJourney, ProjectGenerator

VARIABLE
    area               \* bound: what a behaviour is about

Areas == {"questions", "journey", "evidence", "disk"}

createVars == <<questionVars, journeyVars, generatorVars, area>>

-----------------------------------------------------------------------------
(* create, for an agent *)

AgentQuestions ==
    /\ area = "questions"
    /\ QuestionnaireNext
    /\ UNCHANGED <<journeyVars, generatorVars, area>>

\* Bound: where the validation is not the subject, it is done in one go.
AgentJourney ==
    /\ area # "questions"
    /\ \/ NeedsProjectValidation
       \/ \E blocks \in SUBSET Blocks, skips, defers, responds, overrides \in BOOLEAN,
             choice \in Decisions \cup {"NONE"} :
             /\ area # "journey" => blocks = Blocks /\ ~skips /\ ~defers /\ ~responds
             /\ ResumeJourney(blocks, skips, defers, responds, choice, overrides)
       \/ RecordBriefReady
       \/ /\ area = "journey"
          /\ RequestExit \/ \E answer \in {"QUITTER", "CONTINUER"} : ConfirmExit(answer)
    /\ UNCHANGED <<questionVars, generatorVars, area>>

\* A file that cannot be read is reported as invalid, and not recorded.
AgentAnswers ==
    /\ area # "questions"
    /\ \E a \in Files : RecordTechnicalQuestionnaire(Verdict(a), MissingQuestions(a) = {})
    /\ UNCHANGED <<questionVars, generatorVars, area>>

-----------------------------------------------------------------------------
(* create, for a generation, and journey *)

CreateDryRun ==
    /\ area # "questions"
    /\ RecordDryRun
    /\ UNCHANGED <<questionVars, generatorVars, area>>

\* Bound: what may fail or happen at the destination is left to behaviours about it.
CreateBegins ==
    /\ area # "questions"
    /\ GenerationAllowed
    /\ \E f \in IF area = "disk" THEN BOOLEAN ELSE {TRUE} : Begin(f)
    /\ UNCHANGED <<questionVars, journeyVars, area>>

CreateGoesOn ==
    /\ Fill \/ Replace
    /\ UNCHANGED <<questionVars, journeyVars, area>>

CreateDies ==
    /\ area = "disk"
    /\ Crash
    /\ UNCHANGED <<questionVars, journeyVars, area>>

CreateFinishes ==
    /\ Finish
    /\ RecordGeneration
    /\ UNCHANGED <<questionVars, area>>

Journey ==
    /\ area = "evidence"
    /\ \E step \in Steps, result \in {"pass", "fail", "not_available"},
          file \in {"none", "plain", "with warnings"} :
          RecordJourneyEvidence(step, result, file, dest = "project")
    /\ UNCHANGED <<questionVars, generatorVars, area>>

UserActs ==
    /\ area = "disk"
    /\ UserWrites
    /\ UNCHANGED <<questionVars, journeyVars, area>>

-----------------------------------------------------------------------------
CreateInit ==
    /\ QuestionnaireInit /\ JourneyInit /\ GeneratorInit
    /\ area \in Areas
    /\ area # "questions" => asked
    /\ area # "disk" => dest = "absent"

CreateNext ==
    \/ AgentQuestions \/ AgentJourney \/ AgentAnswers
    \/ CreateDryRun \/ CreateBegins \/ CreateGoesOn \/ CreateDies \/ CreateFinishes
    \/ Journey \/ UserActs

CreateSpec == CreateInit /\ [][CreateNext]_createVars

-----------------------------------------------------------------------------
(* Properties *)

\* A session that says a project was generated, or is ready to be generated, went through the
\* whole validation and a decision, whatever was quit, resumed, decided again or answered
\* since; and the project it says was generated exists, complete, at the destination or in the
\* backup, though a later generation fails or dies at any point.  The decision need not be for
\* the project any more: see BlockedByDecision.
GenerationWasDecided ==
    /\ generated \/ status \in Generating => started /\ known = Blocks /\ decision # "NONE"
    /\ generated => "project" \in {dest, backup}
    /\ status \in {"PASS", "PASS_WITH_WARNINGS"} => generated

\* As docs/testing/guided-journey-regression.md:18 has it: NO_GO_TEMPORAIRE and PIVOT keep the
\* guided generation from being allowed, unless the student overrides them.  The code lets it:
\* technical_questionnaire_started outlives the decision that set it, and answers that leave
\* no question open are all recordTechnicalQuestionnaire asks for (student-journey.ts:404,418).
BlockedByDecision ==
    decision \in {"NO_GO_TEMPORAIRE", "PIVOT"} /\ ~override => status \notin Generating
=============================================================================
