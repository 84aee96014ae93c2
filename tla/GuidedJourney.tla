---------------------------- MODULE GuidedJourney ---------------------------
(***************************************************************************)
(* The guided journey of the generator: the session file that follows a    *)
(* student from the validation of the idea to the claim that the project   *)
(* is done.  Each command reads the file, changes it and writes it back; a *)
(* command that throws writes nothing, which is no step.                   *)
(*                                                                         *)
(* Fields that are only reported are left out: what was deferred, reasons, *)
(* warnings, scores, paths, fangabase_active and final_status.  So is      *)
(* completed_blocks, which follows from the answers and the skipped steps. *)
(***************************************************************************)
CONSTANTS
    Blocks,            \* blocks of questions of the validation
    Steps              \* steps of which the student's evidence is recorded

ASSUME JourneyAssumption ==
    /\ {"smoke", "report"} \subseteq Steps
    /\ Steps \subseteq {"setup", "doctor", "migrations", "tests", "build", "smoke", "report"}

VARIABLES
    status,            \* "NONE" while there is no session file
    known,             \* blocks that are complete: each question is answered or skipped
    decision,          \* project_decision
    override,          \* student_decision is USER_OVERRIDE_UNVALIDATED
    started,           \* technical_questionnaire_started
    leaving,           \* exit_confirmation_pending
    technical,         \* technical_answers leave no question open
    generated,         \* project_generated
    done,              \* steps whose evidence counts
    report             \* final_report: "none", or whether it warns of an override

choiceVars  == <<decision, override, started>>
outcomeVars == <<generated, done, report>>
journeyVars == <<status, known, choiceVars, leaving, technical, outcomeVars>>

Decisions == {"GO_CONDITIONNEL", "PIVOT", "NO_GO_TEMPORAIRE"}

Exists == status # "NONE"

\* The states of the session a project may be generated in; GENERATING is set nowhere.
Generating == {"READY_FOR_DRY_RUN", "NEEDS_GENERATION_CONFIRMATION"}

-----------------------------------------------------------------------------
(* Validation and decision *)

\* newJourneySession, over whatever was there.
NewJourneySession ==
    /\ known' = {}
    /\ decision' = "NONE"
    /\ override' = FALSE
    /\ started' = FALSE
    /\ leaving' = FALSE
    /\ technical' = FALSE
    /\ generated' = FALSE
    /\ done' = {}
    /\ report' = "none"

\* create without answers: the journey begins anew unless the technical questions did.
NeedsProjectValidation ==
    /\ ~started
    /\ status' = "NEEDS_PROJECT_VALIDATION"
    /\ NewJourneySession

RequestExit ==
    /\ status' = "EXIT_CONFIRMATION_REQUIRED"
    /\ leaving' = TRUE
    /\ UNCHANGED <<known, choiceVars, technical, outcomeVars>>

ConfirmExit(answer) ==
    /\ leaving
    /\ leaving' = FALSE
    /\ status' = CASE answer = "QUITTER" -> "ABANDONED"
                   [] answer = "CONTINUER" /\ override -> "NEEDS_TECHNICAL_ANSWERS"
                   [] answer = "CONTINUER" /\ ~override -> "PROJECT_VALIDATION_IN_PROGRESS"
    /\ UNCHANGED <<known, choiceVars, technical, outcomeVars>>

\* Mutant: the decision is taken before the validation is complete.
Decidable_Early(blocks) == TRUE

Decidable(blocks) == blocks = Blocks

After ==
    [GO_CONDITIONNEL |-> "NEEDS_TECHNICAL_ANSWERS",
     PIVOT |-> "PROJECT_VALIDATION_IN_PROGRESS",
     NO_GO_TEMPORAIRE |-> "NEEDS_PROJECT_DECISION"]

\* Where the validation stands if nothing is decided: skipping and deferring are states of
\* their own until the student responds.
Progress(skips, defers, responds) ==
    LET before == CASE defers -> "TERRAIN_VALIDATION_DEFERRED"
                    [] skips /\ ~defers -> "VALIDATION_STEP_SKIPPED"
                    [] ~skips /\ ~defers -> status
    IN  IF \/ before \in {"NONE", "NEEDS_PROJECT_VALIDATION"}
           \/ responds /\ before \in {"TERRAIN_VALIDATION_DEFERRED", "VALIDATION_STEP_SKIPPED"}
          THEN "PROJECT_VALIDATION_IN_PROGRESS"
          ELSE before

\* One invocation may skip, defer, answer, respond, decide and override at once.  blocks
\* are those its answers and skips complete.
ResumeJourney(blocks, skips, defers, responds, choice, overrides) ==
    /\ ~leaving
    /\ known' = known \cup blocks
    /\ choice # "NONE" => Decidable(known')
    /\ decision' = IF choice = "NONE" THEN decision ELSE choice
    /\ overrides => decision' \in {"PIVOT", "NO_GO_TEMPORAIRE"}
    /\ override' = (override \/ overrides)
    /\ started' = (started \/ overrides \/ choice = "GO_CONDITIONNEL")
    /\ status' = IF overrides THEN "NEEDS_TECHNICAL_ANSWERS"
                 ELSE IF choice # "NONE" THEN After[choice]
                 ELSE IF known' = Blocks THEN "NEEDS_PROJECT_DECISION"
                 ELSE Progress(skips, defers, responds)
    /\ UNCHANGED <<leaving, technical, outcomeVars>>

-----------------------------------------------------------------------------
(* Technical answers *)

\* The answers of a file, what the questionnaire says of them, and whether they leave no
\* question open.
RecordTechnicalQuestionnaire(verdict, complete) ==
    /\ started
    /\ technical' = complete
    /\ status' = verdict
    /\ UNCHANGED <<known, choiceVars, leaving, outcomeVars>>

\* A brief instead, with a configuration the schema accepts.
RecordBriefReady ==
    /\ Exists
    /\ decision = "GO_CONDITIONNEL" \/ override
    /\ override => technical
    /\ status' = "READY_FOR_DRY_RUN"
    /\ UNCHANGED <<known, choiceVars, leaving, technical, outcomeVars>>

-----------------------------------------------------------------------------
(* Generation and evidence *)

\* assertGenerationAllowed: whoever has no session needs no permission.
GenerationAllowed == Exists => status \in Generating

RecordDryRun ==
    /\ status \in Generating
    /\ status' = "NEEDS_GENERATION_CONFIRMATION"
    /\ UNCHANGED <<known, choiceVars, leaving, technical, outcomeVars>>

\* The session is read again: it may have moved on while the project was generated, and
\* then the project is there and the session does not know.
RecordGeneration ==
    IF status \in Generating
      THEN /\ generated' = TRUE
           /\ status' = "NEEDS_LOCAL_SETUP"
           /\ UNCHANGED <<known, choiceVars, leaving, technical, done, report>>
      ELSE UNCHANGED journeyVars

\* The evidence after a result is recorded.
Counts(step, result) == result = "pass" \/ (step = "smoke" /\ result = "not_available")

\* completionClaimAllowed: there says whether the generated project is at its destination.
CompletionClaimAllowed(there) ==
    /\ generated
    /\ there
    /\ done' = Steps
    /\ override => report' = "with warnings"

RecordJourneyEvidence(step, result, file, there) ==
    /\ Exists
    /\ step = "report" => result = "pass" /\ file # "none"
    /\ done' = IF Counts(step, result) THEN done \cup {step} ELSE done \ {step}
    /\ report' = IF step = "report" THEN file ELSE report
    /\ status' = IF CompletionClaimAllowed(there)
                   THEN IF override THEN "PASS_WITH_WARNINGS" ELSE "PASS"
                 ELSE IF result = "fail" THEN "FAIL" ELSE status
    /\ UNCHANGED <<known, choiceVars, leaving, technical, generated>>

-----------------------------------------------------------------------------
JourneyInit ==
    /\ status = "NONE"
    /\ known = {}
    /\ decision = "NONE"
    /\ override = FALSE
    /\ started = FALSE
    /\ leaving = FALSE
    /\ technical = FALSE
    /\ generated = FALSE
    /\ done = {}
    /\ report = "none"

Statuses ==
    {"NONE", "NEEDS_PROJECT_VALIDATION", "PROJECT_VALIDATION_IN_PROGRESS",
     "NEEDS_PROJECT_DECISION", "VALIDATION_STEP_SKIPPED", "TERRAIN_VALIDATION_DEFERRED",
     "NEEDS_TECHNICAL_ANSWERS", "INVALID_ANSWERS", "NEEDS_LOCAL_SETUP", "PASS",
     "PASS_WITH_WARNINGS", "EXIT_CONFIRMATION_REQUIRED", "ABANDONED", "FAIL"} \cup Generating

\* Every variable has its type.
JourneyTypeOK ==
    /\ status \in Statuses
    /\ known \subseteq Blocks
    /\ decision \in Decisions \cup {"NONE"}
    /\ override \in BOOLEAN
    /\ started \in BOOLEAN
    /\ leaving \in BOOLEAN
    /\ technical \in BOOLEAN
    /\ generated \in BOOLEAN
    /\ done \subseteq Steps
    /\ report \in {"none", "plain", "with warnings"}
=============================================================================
