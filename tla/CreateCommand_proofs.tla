------------------------ MODULE CreateCommand_proofs ------------------------
(***************************************************************************)
(* Proofs about CreateCommand, for any blocks and steps of a journey and   *)
(* any files of answers, however often generations fail or die: first the  *)
(* generator and the journey, then the questionnaire.                      *)
(***************************************************************************)
EXTENDS CreateCommand, FiniteSetTheorems, TLAPS

\* What is where while a project is put at the destination.
Placed ==
    /\ run \in {"ready", "clearing", "installing", "swapping"} => staging = "project"
    /\ run \in {"filling", "ready"} /\ ~existed => dest \in {"absent", "empty", "files"}
    /\ run \in {"clearing", "installing", "swapping"} => dest \in {"absent", "empty", "files"}
    /\ run \in {"cleaning", "installed"} => dest = "project"

Disk == GeneratorTypeOK /\ Placed /\ DestinationNeverLost

\* Nothing is decided before the validation is complete, and no technical question is asked
\* before a decision, for the project or overridden.
Decided ==
    /\ decision # "NONE" => known = Blocks
    /\ started => decision # "NONE"
    /\ override \/ decision = "GO_CONDITIONNEL" => started
    /\ generated \/ status \in Generating => started
    /\ status \in {"PASS", "PASS_WITH_WARNINGS"} => generated

-----------------------------------------------------------------------------
(* The generator. *)

LEMMA DiskInit == GeneratorInit => Disk
BY DEF GeneratorInit, Disk, GeneratorTypeOK, Placed, DestinationNeverLost

\* Each step of the generator, or of the user, keeps the types and loses nothing.
LEMMA DiskStep == Disk /\ [GeneratorNext]_generatorVars => Disk'
<1> SUFFICES ASSUME Disk, [GeneratorNext]_generatorVars PROVE Disk'
  OBVIOUS
<1> USE DEF Disk, GeneratorTypeOK, Placed, DestinationNeverLost, pastVars
<1>1. CASE \E f \in BOOLEAN : Begin(f)
  <2>1. existed' \in BOOLEAN /\ (~existed' => dest = "absent")
    BY <1>1 DEF Begin
  <2>2. force' \in BOOLEAN
    BY <1>1 DEF Begin
  <2> QED
    BY <1>1, <2>1, <2>2 DEF Begin
<1>2. CASE Fill
  BY <1>2 DEF Fill, Throw
<1>3. CASE SetAside
  BY <1>3 DEF SetAside, Occupied
<1>4. CASE Refuse
  BY <1>4 DEF Refuse, Throw
<1>5. CASE LookAgain \/ Clear
  <2>1. CASE LookAgain
    BY <2>1 DEF LookAgain, Occupied, diskVars
  <2>2. CASE Clear
    <3>1. overlooked' \in BOOLEAN /\ (~overlooked' => ~overlooked /\ ~Occupied)
      BY <2>2 DEF Clear
    <3> QED
      BY <2>2, <3>1 DEF Clear, Occupied
  <2> QED
    BY <1>5, <2>1, <2>2
<1>6. CASE Install
  BY <1>6 DEF Install, Occupied
<1>7. CASE InstallFails
  BY <1>7 DEF InstallFails, Interrupted, Throw, Occupied
<1>8. CASE Swap
  BY <1>8 DEF Swap, Occupied
<1>9. CASE SwapFails
  BY <1>9 DEF SwapFails, Throw
<1>10. CASE RemoveBackup
  BY <1>10 DEF RemoveBackup, Throw
<1>11. CASE Crash
  BY <1>11 DEF Crash, Interrupted, Throw, Occupied
<1>12. CASE Finish
  BY <1>12 DEF Finish, diskVars
<1>13. CASE UserWrites
  BY <1>13 DEF UserWrites, runVars, Occupied
<1>14. CASE UNCHANGED generatorVars
  BY <1>14 DEF generatorVars, diskVars, runVars
<1>15. QED
  BY <1>1, <1>2, <1>3, <1>4, <1>5, <1>6, <1>7, <1>8, <1>9, <1>10, <1>11, <1>12, <1>13, <1>14
  DEF GeneratorNext, Replace

LEMMA DiskInvariant == GeneratorSpec => []Disk
BY DiskInit, DiskStep, PTL DEF GeneratorSpec

\* generateProject: the directories it works on always have one of their known contents.
THEOREM GeneratorTyped == GeneratorSpec => []GeneratorTypeOK
BY DiskInvariant, PTL DEF Disk

\* The commands use the destination as the generator's specification says.
LEMMA CreateGenerates == [CreateNext]_createVars => [GeneratorNext]_generatorVars
BY DEF CreateNext, AgentQuestions, AgentJourney, AgentAnswers, CreateDryRun, CreateBegins,
   CreateGoesOn, CreateDies, CreateFinishes, Journey, UserActs, GeneratorNext, createVars

\* The command create implements the specification of the generator.
THEOREM GeneratorImplemented == CreateSpec => GeneratorSpec
<1>1. CreateInit => GeneratorInit
  BY DEF CreateInit
<1>2. QED
  BY <1>1, CreateGenerates, PTL DEF CreateSpec, GeneratorSpec

\* generateProject: whatever fails and wherever it dies, the destination never holds an
\* incomplete project, and the user's files are there or in the backup until a complete
\* project has replaced them; unless they were written between the second look and the removal.
THEOREM NothingLost == CreateSpec => []DestinationNeverLost
BY GeneratorImplemented, DiskInvariant, PTL DEF Disk

-----------------------------------------------------------------------------
(* The journey. *)

LEMMA AfterTyped ==
    \A choice \in Decisions :
        After[choice] \in {"NEEDS_TECHNICAL_ANSWERS", "PROJECT_VALIDATION_IN_PROGRESS",
                           "NEEDS_PROJECT_DECISION"}
BY DEF After, Decisions

LEMMA VerdictTyped ==
    ASSUME NEW a
    PROVE  Verdict(a) \in {"INVALID_ANSWERS", "NEEDS_TECHNICAL_ANSWERS", "READY_FOR_DRY_RUN"}
BY DEF Verdict

\* What is not decided is the state before, or one the validation goes through.
LEMMA ProgressTyped ==
    ASSUME NEW skips \in BOOLEAN, NEW defers \in BOOLEAN, NEW responds \in BOOLEAN
    PROVE  Progress(skips, defers, responds) \in
              {status, "TERRAIN_VALIDATION_DEFERRED", "VALIDATION_STEP_SKIPPED",
               "PROJECT_VALIDATION_IN_PROGRESS"}
BY DEF Progress

LEMMA JourneyTypedInit == JourneyInit => JourneyTypeOK /\ Decided
BY DEF JourneyInit, JourneyTypeOK, Decided, Statuses, Generating

\* An invocation that resumes the journey.
LEMMA ResumeTyped ==
    ASSUME JourneyTypeOK, Decided, NEW blocks \in SUBSET Blocks, NEW skips \in BOOLEAN,
           NEW defers \in BOOLEAN, NEW responds \in BOOLEAN,
           NEW choice \in Decisions \cup {"NONE"}, NEW overrides \in BOOLEAN,
           ResumeJourney(blocks, skips, defers, responds, choice, overrides)
    PROVE  JourneyTypeOK' /\ Decided'
<1> USE DEF JourneyTypeOK, Decided
<1>1. UNCHANGED <<leaving, technical, generated, done, report>>
  BY DEF ResumeJourney, outcomeVars
<1>2. /\ known' = known \cup blocks
      /\ choice # "NONE" => known' = Blocks
      /\ decision' = IF choice = "NONE" THEN decision ELSE choice
      /\ overrides => decision' \in {"PIVOT", "NO_GO_TEMPORAIRE"}
      /\ override' = (override \/ overrides)
      /\ started' = (started \/ overrides \/ choice = "GO_CONDITIONNEL")
  BY DEF ResumeJourney, Decidable
<1>3. status' \in {status, "TERRAIN_VALIDATION_DEFERRED", "VALIDATION_STEP_SKIPPED",
                   "PROJECT_VALIDATION_IN_PROGRESS", "NEEDS_TECHNICAL_ANSWERS",
                   "NEEDS_PROJECT_DECISION"}
  BY AfterTyped, ProgressTyped DEF ResumeJourney
<1>4. /\ known' \subseteq Blocks
      /\ known = Blocks => known' = Blocks
      /\ decision' \in Decisions \cup {"NONE"}
      /\ override' \in BOOLEAN
      /\ started' \in BOOLEAN
      /\ started => started'
  BY <1>2
<1>5. status' \in Statuses
  BY <1>3 DEF Statuses
<1>6. JourneyTypeOK'
  BY <1>1, <1>4, <1>5
<1>7. /\ decision' # "NONE" => known' = Blocks
      /\ started' => decision' # "NONE"
      /\ override' \/ decision' = "GO_CONDITIONNEL" => started'
  BY <1>2, <1>4 DEF Decisions
<1>8. /\ generated' \/ status' \in Generating => started'
      /\ status' \in {"PASS", "PASS_WITH_WARNINGS"} => generated'
  BY <1>1, <1>3, <1>4 DEF Generating
<1>9. QED
  BY <1>6, <1>7, <1>8

\* Evidence never makes a session generated, and only a generated one passes.
LEMMA EvidenceTyped ==
    ASSUME JourneyTypeOK, Decided, NEW step \in Steps, NEW there \in BOOLEAN,
           NEW result \in {"pass", "fail", "not_available"},
           NEW file \in {"none", "plain", "with warnings"},
           RecordJourneyEvidence(step, result, file, there)
    PROVE  JourneyTypeOK' /\ Decided'
<1> USE DEF JourneyTypeOK, Decided
<1>1. UNCHANGED <<known, decision, override, started, leaving, technical, generated>>
  BY DEF RecordJourneyEvidence, choiceVars
<1>2. done' \subseteq Steps /\ report' \in {"none", "plain", "with warnings"}
  BY DEF RecordJourneyEvidence
<1>3. /\ status' \in {status, "PASS", "PASS_WITH_WARNINGS", "FAIL"}
      /\ status' # status /\ status' \in {"PASS", "PASS_WITH_WARNINGS"} => generated
  BY DEF RecordJourneyEvidence, CompletionClaimAllowed
<1>4. QED
  BY <1>1, <1>2, <1>3 DEF Statuses, Generating

\* Each command keeps the types and the order of the journey.
LEMMA JourneyStep ==
    JourneyTypeOK /\ Decided /\ [CreateNext]_createVars => JourneyTypeOK' /\ Decided'
<1> SUFFICES ASSUME JourneyTypeOK, Decided, [CreateNext]_createVars
             PROVE  JourneyTypeOK' /\ Decided'
  OBVIOUS
<1>1. CASE AgentJourney
  <2>1. CASE NeedsProjectValidation
    BY <2>1 DEF NeedsProjectValidation, NewJourneySession, JourneyTypeOK, Decided, Statuses,
       Generating
  <2>2. CASE \E blocks \in SUBSET Blocks, skips, defers, responds, overrides \in BOOLEAN,
               choice \in Decisions \cup {"NONE"} :
               ResumeJourney(blocks, skips, defers, responds, choice, overrides)
    <3>1. PICK blocks \in SUBSET Blocks, skips \in BOOLEAN, defers \in BOOLEAN,
               responds \in BOOLEAN, overrides \in BOOLEAN, choice \in Decisions \cup {"NONE"} :
             ResumeJourney(blocks, skips, defers, responds, choice, overrides)
      BY <2>2
    <3>2. QED
      BY <3>1, ResumeTyped
  <2>3. CASE RecordBriefReady
    BY <2>3 DEF RecordBriefReady, JourneyTypeOK, Decided, Statuses, Generating, choiceVars,
       outcomeVars
  <2>4. CASE RequestExit
    BY <2>4 DEF RequestExit, JourneyTypeOK, Decided, Statuses, Generating, choiceVars,
       outcomeVars
  <2>5. CASE \E answer \in {"QUITTER", "CONTINUER"} : ConfirmExit(answer)
    <3>1. status' \in {"ABANDONED", "NEEDS_TECHNICAL_ANSWERS", "PROJECT_VALIDATION_IN_PROGRESS"}
      BY <2>5 DEF ConfirmExit
    <3>2. /\ leaving' = FALSE
          /\ UNCHANGED <<known, decision, override, started, technical, generated, done, report>>
      BY <2>5 DEF ConfirmExit, choiceVars, outcomeVars
    <3>3. QED
      BY <3>1, <3>2 DEF JourneyTypeOK, Decided, Statuses, Generating
  <2>6. QED
    BY <1>1, <2>1, <2>2, <2>3, <2>4, <2>5 DEF AgentJourney
<1>2. CASE AgentAnswers
  <2>1. PICK a \in Files : RecordTechnicalQuestionnaire(Verdict(a), MissingQuestions(a) = {})
    BY <1>2 DEF AgentAnswers
  <2>2. /\ status' \in {"INVALID_ANSWERS", "NEEDS_TECHNICAL_ANSWERS", "READY_FOR_DRY_RUN"}
        /\ technical' \in BOOLEAN
        /\ started
        /\ UNCHANGED <<known, decision, override, started, leaving, generated, done, report>>
    BY <2>1, VerdictTyped DEF RecordTechnicalQuestionnaire, choiceVars, outcomeVars
  <2>3. QED
    BY <2>2 DEF JourneyTypeOK, Decided, Statuses, Generating
<1>3. CASE CreateDryRun
  BY <1>3 DEF CreateDryRun, RecordDryRun, JourneyTypeOK, Decided, Statuses, Generating, choiceVars,
     outcomeVars
<1>4. CASE CreateFinishes
  BY <1>4 DEF CreateFinishes, RecordGeneration, JourneyTypeOK, Decided, Statuses, Generating,
     choiceVars, outcomeVars, journeyVars
<1>5. CASE Journey
  BY <1>5, EvidenceTyped DEF Journey
<1>6. CASE UNCHANGED journeyVars
  BY <1>6 DEF journeyVars, choiceVars, outcomeVars, JourneyTypeOK, Decided
<1>7. QED
  BY <1>1, <1>2, <1>3, <1>4, <1>5, <1>6 DEF CreateNext, AgentQuestions, CreateBegins, CreateGoesOn,
     CreateDies, UserActs, createVars

\* student-journey.ts: the session file always has its types.
THEOREM JourneyTyped == CreateSpec => []JourneyTypeOK
<1>1. CreateInit => JourneyInit
  BY DEF CreateInit
<1>2. QED
  BY <1>1, JourneyTypedInit, JourneyStep, PTL DEF CreateSpec

-----------------------------------------------------------------------------
(* The session and the project. *)

\* A session that says so has its project.
ProjectKept == generated => "project" \in {dest, backup}

LEMMA ProjectStep == Disk /\ ProjectKept /\ [CreateNext]_createVars => ProjectKept'
<1> SUFFICES ASSUME Disk, ProjectKept, [CreateNext]_createVars PROVE ProjectKept'
  OBVIOUS
<1>1. "project" \in {dest, backup} => "project" \in {dest', backup'}
  <2> USE DEF Disk, GeneratorTypeOK, Placed
  <2>1. [GeneratorNext]_generatorVars
    BY CreateGenerates
  <2>2. CASE SetAside \/ Clear
    BY <2>2 DEF SetAside, Clear, Occupied
  <2>3. CASE Install \/ Swap
    BY <2>3 DEF Install, Swap
  <2>4. CASE SwapFails \/ RemoveBackup
    BY <2>4 DEF SwapFails, RemoveBackup
  <2>5. CASE Crash \/ InstallFails
    BY <2>5 DEF Crash, InstallFails, Interrupted, Occupied
  <2>6. CASE UserWrites
    BY <2>6 DEF UserWrites, Occupied
  <2>7. CASE UNCHANGED <<dest, backup>>
    BY <2>7
  <2>8. QED
    BY <2>1, <2>2, <2>3, <2>4, <2>5, <2>6, <2>7 DEF GeneratorNext, Replace, Begin, Fill, Refuse,
       LookAgain, Finish, generatorVars, diskVars
<1>2. generated' => generated \/ CreateFinishes
  BY DEF CreateNext, AgentQuestions, AgentJourney, AgentAnswers, CreateDryRun, CreateBegins,
     CreateGoesOn, CreateDies, Journey, UserActs, createVars, journeyVars, outcomeVars,
     NeedsProjectValidation, NewJourneySession, ResumeJourney, RecordBriefReady, RequestExit,
     ConfirmExit, RecordTechnicalQuestionnaire, RecordDryRun, RecordJourneyEvidence
<1>3. CASE CreateFinishes
  BY <1>3 DEF CreateFinishes, Finish, Disk, Placed, diskVars, ProjectKept
<1>4. QED
  BY <1>1, <1>2, <1>3 DEF ProjectKept

\* create and journey: a session says that a project was generated, or may be, only after a
\* complete validation and a decision or an override; the project it speaks of is at the
\* destination or in the backup whatever later generations do; and only then it passes.
THEOREM GenerationDecided == CreateSpec => []GenerationWasDecided
<1>1. CreateInit => JourneyInit /\ ProjectKept
  BY DEF CreateInit, JourneyInit, ProjectKept
<1>2. CreateSpec => []Disk
  BY GeneratorImplemented, DiskInvariant, PTL
<1>3. Decided /\ ProjectKept => GenerationWasDecided
  BY DEF Decided, ProjectKept, GenerationWasDecided
<1>4. QED
  BY <1>1, <1>2, <1>3, JourneyTypedInit, JourneyStep, ProjectStep, PTL DEF CreateSpec

-----------------------------------------------------------------------------
(* The questionnaire: what a complete file of answers stands for *)

LEMMA QuestionsAre ==
    Questions = {Name, Family, Vps, Shared, Hybrid, Base, Payment, Billing, Design}
<1>1. DOMAIN Registry = 1..9
  BY DEF Registry
<1>2. /\ Registry[1] = Name /\ Registry[2] = Family /\ Registry[3] = Vps /\ Registry[4] = Shared
      /\ Registry[5] = Hybrid /\ Registry[6] = Base /\ Registry[7] = Payment
      /\ Registry[8] = Billing /\ Registry[9] = Design
  BY DEF Registry
<1>3. Questions = {Registry[i] : i \in 1..9}
  BY <1>1 DEF Questions
<1>4. 1..9 = {1, 2, 3, 4, 5, 6, 7, 8, 9}
  OBVIOUS
<1> QED
  BY <1>2, <1>3, <1>4

\* The choices and the conditions of the questions that decide on the architecture.
LEMMA ChoicesAre ==
    /\ Choices[Family] = {"cloud", "vps", "shared", "hybrid"}
    /\ Choices[Vps] = {"next", "laravel", "laravel_inertia_react", "laravel_api_next",
                       "laravel_api_react"}
    /\ Choices[Shared] = {"laravel", "laravel_inertia_react"}
    /\ Choices[Hybrid] = {"next", "react"}
    /\ Choices[Base] = {"neon", "supabase", "postgres", "mysql"}
    /\ Choices[Payment] = {"none", "stripe", "fedapay", "orange_money_ml", "moneroo"}
    /\ Choices[Design] = {"headless", "stitch"} /\ Choices[Billing] = {"none", "credits"}
    /\ Choices[Name] = {"a name"}
    /\ DOMAIN Condition = {Vps, Shared, Hybrid}
    /\ Condition[Vps] = "vps" /\ Condition[Shared] = "shared" /\ Condition[Hybrid] = "hybrid"
BY QuestionsAre DEF Choices, Condition, Family, Vps, Shared, Hybrid, Base, Payment, Design, Billing, Name

\* A file without errors that leaves no question open answers the questions of its family, and
\* of no other.
LEMMA CompleteAnswers ==
    ASSUME NEW a, ValidateAnswers(a), ValidateCompatibility(a), MissingQuestions(a) = {}
    PROVE  /\ a[Family] \in {"cloud", "vps", "shared", "hybrid"}
           /\ a[Vps] \in IF a[Family] = "vps"
                           THEN {"next", "laravel", "laravel_inertia_react", "laravel_api_next",
                                 "laravel_api_react"}
                           ELSE {"undefined"}
           /\ a[Shared] \in IF a[Family] = "shared"
                              THEN {"laravel", "laravel_inertia_react"} ELSE {"undefined"}
           /\ a[Hybrid] \in IF a[Family] = "hybrid" THEN {"next", "react"} ELSE {"undefined"}
           /\ a[Base] \in {"neon", "supabase", "postgres", "mysql"} \cap Accepted(a)
           /\ a[Payment] \in {"none", "stripe", "fedapay", "orange_money_ml", "moneroo"}
<1>1. \A q \in Questions : IsQuestionVisible(a, q) => Given(a, q) /\ a[q] \in Choices[q]
  BY DEF MissingQuestions, ValidateAnswers
<1>2. /\ Family \in Questions /\ Vps \in Questions /\ Shared \in Questions /\ Hybrid \in Questions
      /\ Base \in Questions /\ Payment \in Questions
  BY QuestionsAre
<1>3. IsQuestionVisible(a, Family) /\ IsQuestionVisible(a, Base) /\ IsQuestionVisible(a, Payment)
  BY ChoicesAre DEF IsQuestionVisible, Family, Vps, Shared, Hybrid, Base, Payment
<1>4. /\ a[Family] \in Choices[Family] /\ a[Base] \in Choices[Base] /\ a[Payment] \in Choices[Payment]
      /\ Given(a, Family) /\ Given(a, Base)
  BY <1>1, <1>2, <1>3
<1>5. a[Base] \in Accepted(a)
  BY <1>4 DEF ValidateCompatibility
<1>6. \A q \in {Vps, Shared, Hybrid} :
          IF a[Family] = Condition[q] THEN a[q] \in Choices[q] ELSE a[q] = "undefined"
  BY <1>1, <1>2, <1>4, ChoicesAre DEF ValidateCompatibility, IsQuestionVisible, Given
<1> QED
  BY <1>4, <1>5, <1>6, ChoicesAre

\* What the properties of a configuration depend on.
LEMMA ConfigFields ==
    ASSUME NEW a
    PROVE  LET c == ConfigFromAnswers(a)
           IN  /\ c.target = Target(a) /\ c.backend = Backend(a) /\ c.frontend = Frontend(a)
               /\ c.ui = (IF Inertia(a) THEN "inertia_react" ELSE Frontend(a))
               /\ c.integration = (IF Inertia(a) THEN "inertia"
                                   ELSE IF Backend(a) = "next" THEN "standalone"
                                   ELSE IF Frontend(a) = "blade" THEN "blade" ELSE "api")
               /\ c.family = a[Family]
               /\ c.variant = (IF a[Family] = "vps" THEN a[Vps] ELSE "null")
               /\ c.engine = (IF Provider(a) = "mysql" THEN "mysql" ELSE "postgres")
               /\ c.providers = {a[Payment]} \ {"none"}
               /\ c.default = (IF a[Payment] = "none" THEN "null" ELSE a[Payment])
BY DEF ConfigFromAnswers

\* Every complete file, family by family: the schema accepts its configuration, and the
\* generated project has one backend and the frontend it needs.
Makes(a) ==
    LET c == ConfigFromAnswers(a)
    IN  /\ SchemaAccepts(c)
        /\ Cardinality(ResolveComponents(c) \cap Backends) = 1
        /\ Cardinality(ResolveComponents(c) \cap Frontends) = IF c.backend = "next" THEN 0 ELSE 1

\* One backend, and one frontend if the backend has none of its own.
LEMMA Components ==
    ASSUME NEW c, c.backend \in {"next", "laravel"}
    PROVE  /\ Cardinality(ResolveComponents(c) \cap Backends) = 1
           /\ Cardinality(ResolveComponents(c) \cap Frontends) = IF c.backend = "next" THEN 0 ELSE 1
<1>1. CASE c.backend = "next"
  <2>1. ResolveComponents(c) = {"next_backend"}
    BY <1>1 DEF ResolveComponents
  <2>2. ResolveComponents(c) \cap Backends = {"next_backend"} /\ ResolveComponents(c) \cap Frontends = {}
    BY <2>1 DEF Backends, Frontends
  <2> QED
    BY <1>1, <2>2, FS_Singleton, FS_EmptySet
<1>2. CASE c.backend = "laravel"
  <2>1. PICK f \in Frontends : ResolveComponents(c) = {"laravel_backend", f}
    <3>1. CASE c.integration = "inertia"
      BY <1>2, <3>1 DEF ResolveComponents, Frontends
    <3>2. CASE c.integration # "inertia" /\ c.frontend = "next"
      BY <1>2, <3>2 DEF ResolveComponents, Frontends
    <3>3. CASE c.integration # "inertia" /\ c.frontend = "react"
      BY <1>2, <3>3 DEF ResolveComponents, Frontends
    <3>4. CASE c.integration # "inertia" /\ c.frontend \notin {"next", "react"}
      BY <1>2, <3>4 DEF ResolveComponents, Frontends
    <3> QED
      BY <3>1, <3>2, <3>3, <3>4
  <2>2. ResolveComponents(c) \cap Backends = {"laravel_backend"} /\ ResolveComponents(c) \cap Frontends = {f}
    BY <2>1 DEF Backends, Frontends
  <2> QED
    BY <1>2, <2>2, FS_Singleton
<1> QED
  BY <1>1, <1>2

LEMMA CompleteMakesConfig ==
    ASSUME NEW a, ValidateAnswers(a), ValidateCompatibility(a), MissingQuestions(a) = {}
    PROVE  Makes(a)
<1>1. PICK c : c = ConfigFromAnswers(a)
  OBVIOUS
<1>2. /\ c.target = Target(a) /\ c.backend = Backend(a) /\ c.frontend = Frontend(a)
      /\ c.ui = (IF Inertia(a) THEN "inertia_react" ELSE Frontend(a))
      /\ c.integration = (IF Inertia(a) THEN "inertia"
                          ELSE IF Backend(a) = "next" THEN "standalone"
                          ELSE IF Frontend(a) = "blade" THEN "blade" ELSE "api")
      /\ c.family = a[Family]
      /\ c.variant = (IF a[Family] = "vps" THEN a[Vps] ELSE "null")
      /\ c.engine = (IF Provider(a) = "mysql" THEN "mysql" ELSE "postgres")
      /\ c.providers = {a[Payment]} \ {"none"}
      /\ c.default = (IF a[Payment] = "none" THEN "null" ELSE a[Payment])
  BY <1>1, ConfigFields
<1>3. PICK family, vps, shared, hybrid, base :
        /\ family = a[Family] /\ vps = a[Vps] /\ shared = a[Shared] /\ hybrid = a[Hybrid]
        /\ base = a[Base]
  OBVIOUS
<1>4. /\ family \in {"cloud", "vps", "shared", "hybrid"}
      /\ vps \in IF family = "vps"
                   THEN {"next", "laravel", "laravel_inertia_react", "laravel_api_next",
                         "laravel_api_react"}
                   ELSE {"undefined"}
      /\ shared \in IF family = "shared" THEN {"laravel", "laravel_inertia_react"} ELSE {"undefined"}
      /\ hybrid \in IF family = "hybrid" THEN {"next", "react"} ELSE {"undefined"}
      /\ base \in {"neon", "supabase", "postgres", "mysql"} \cap Accepted(a)
  BY <1>3, CompleteAnswers
<1>5. c.default # "null" => c.default \in c.providers
  BY <1>2
<1>6. Inertia(a) <=> vps = "laravel_inertia_react" \/ (family = "shared" /\ shared = "laravel_inertia_react")
  BY <1>3 DEF Inertia
<1>7. CASE family = "cloud"
  <2>1. Target(a) = "cloud_vercel" /\ Backend(a) = "next" /\ Frontend(a) = "next" /\ ~Inertia(a)
    BY <1>3, <1>4, <1>6, <1>7 DEF Target, Backend, Frontend
  <2>2. Provider(a) # "mysql"
    BY <1>3, <1>4, <1>7 DEF Provider, Accepted
  <2>3. SchemaAccepts(c)
    BY <1>2, <1>3, <1>5, <1>7, <2>1, <2>2, ChoicesAre DEF SchemaAccepts, FieldsOK, Coherent
  <2> QED
    BY <1>1, <1>2, <2>1, <2>3, Components DEF Makes
<1>8. CASE family = "shared"
  <2>1. /\ Target(a) = "shared_laravel" /\ Backend(a) = "laravel"
        /\ Frontend(a) = IF Inertia(a) THEN "react" ELSE "blade"
    BY <1>3, <1>4, <1>6, <1>8 DEF Target, Backend, Frontend
  <2>2. SchemaAccepts(c)
    BY <1>2, <1>3, <1>5, <1>8, <2>1, ChoicesAre DEF SchemaAccepts, FieldsOK, Coherent
  <2> QED
    BY <1>1, <1>2, <2>1, <2>2, Components DEF Makes
<1>9. CASE family = "hybrid"
  <2>1. /\ Target(a) = "hybrid" /\ Backend(a) = "laravel" /\ ~Inertia(a)
        /\ Frontend(a) = hybrid /\ hybrid \in {"next", "react"}
    BY <1>3, <1>4, <1>6, <1>9 DEF Target, Backend, Frontend
  <2>2. SchemaAccepts(c)
    <3>1. /\ c.target = "hybrid" /\ c.family = "hybrid" /\ c.backend = "laravel"
          /\ c.frontend \in {"next", "react"} /\ c.ui \in {"next", "react"}
          /\ c.integration = "api" /\ c.variant = "null"
      BY <1>2, <1>3, <1>9, <2>1
    <3> QED
      BY <1>5, <3>1, ChoicesAre DEF SchemaAccepts, FieldsOK, Coherent
  <2> QED
    BY <1>1, <1>2, <2>1, <2>2, Components DEF Makes
<1>10. CASE family = "vps" /\ vps = "next"
  <2>1. Target(a) = "vps_next" /\ Backend(a) = "next" /\ Frontend(a) = "next" /\ ~Inertia(a)
    BY <1>3, <1>4, <1>6, <1>10 DEF Target, Backend, Frontend
  <2>2. Provider(a) = "postgres"
    BY <1>3, <1>10, <2>1 DEF Provider
  <2>3. SchemaAccepts(c)
    BY <1>2, <1>3, <1>5, <1>10, <2>1, <2>2, ChoicesAre DEF SchemaAccepts, FieldsOK, Coherent
  <2> QED
    BY <1>1, <1>2, <2>1, <2>3, Components DEF Makes
<1>11. CASE family = "vps" /\ vps # "next"
  <2>1. /\ Target(a) = "vps_laravel" /\ Backend(a) = "laravel"
        /\ Frontend(a) = CASE vps = "laravel" -> "blade"
                           [] vps \in {"laravel_inertia_react", "laravel_api_react"} -> "react"
                           [] vps = "laravel_api_next" -> "next"
    <3>1. Target(a) = "vps_laravel" /\ Backend(a) = "laravel"
      BY <1>3, <1>11 DEF Target, Backend
    <3>2. CASE vps = "laravel"
      BY <1>3, <1>6, <1>11, <3>1, <3>2 DEF Frontend
    <3>3. CASE vps \in {"laravel_inertia_react", "laravel_api_react"}
      BY <1>3, <1>6, <1>11, <3>1, <3>3 DEF Frontend
    <3>4. CASE vps = "laravel_api_next"
      BY <1>3, <1>6, <1>11, <3>1, <3>4 DEF Frontend
    <3> QED
      BY <1>4, <1>11, <3>1, <3>2, <3>3, <3>4
  <2>2. SchemaAccepts(c)
    BY <1>2, <1>3, <1>4, <1>5, <1>6, <1>11, <2>1, ChoicesAre DEF SchemaAccepts, FieldsOK, Coherent
  <2> QED
    BY <1>1, <1>2, <2>1, <2>2, Components DEF Makes
<1> QED
  BY <1>4, <1>7, <1>8, <1>9, <1>10, <1>11

-----------------------------------------------------------------------------
(* The questionnaire: who answers what is asked *)

\* What is known of answers given one question after the other.
InOrder(a) ==
    /\ a = [q \in Questions |-> a[q]]
    /\ ValidateAnswers(a)
    /\ \A q \in DOMAIN Condition : Given(a, q) => a[Family] = Condition[q]
    /\ Given(a, Base) => /\ a[Base] \in Accepted(a)
                         /\ Given(a, Family)
                         /\ a[Family] = "vps" => Given(a, Vps)

AskedInOrder == asked => InOrder(answers)

\* A question is asked when those before it in the registry are answered.
LEMMA AsksInOrder ==
    ASSUME NEW a, NEW q, Asks(a, q)
    PROVE  /\ q \in MissingQuestions(a)
           /\ q \in {Vps, Shared, Hybrid, Base} => Family \notin MissingQuestions(a)
           /\ q = Base => Vps \notin MissingQuestions(a)
<1>1. /\ DOMAIN Registry = 1..9
      /\ Registry[1] = Name /\ Registry[2] = Family /\ Registry[3] = Vps /\ Registry[4] = Shared
      /\ Registry[5] = Hybrid /\ Registry[6] = Base /\ Registry[7] = Payment
      /\ Registry[8] = Billing /\ Registry[9] = Design
  BY DEF Registry
<1>2. PICK i \in 1..9 : /\ Registry[i] = q
                        /\ q \in MissingQuestions(a)
                        /\ \A j \in 1..(i - 1) : Registry[j] \notin MissingQuestions(a)
  BY <1>1 DEF Asks
<1>3. i \in {1, 2, 3, 4, 5, 6, 7, 8, 9}
  BY <1>2
<1>4. q \in {Vps, Shared, Hybrid, Base} => i \in {3, 4, 5, 6}
  BY <1>1, <1>2, <1>3 DEF Family, Vps, Shared, Hybrid, Base, Payment, Design, Billing, Name
<1>5. q = Base => i = 6
  BY <1>1, <1>2, <1>3 DEF Family, Vps, Shared, Hybrid, Base, Payment, Design, Billing, Name
<1> QED
  BY <1>1, <1>2, <1>4, <1>5

\* One more answer, to what was asked, with a choice that was offered.
LEMMA AnswerStep ==
    ASSUME InOrder(answers), NEW q \in Questions, NEW v \in Choices[q], AnswerAsked(q, v)
    PROVE  InOrder(answers')
<1>1. PICK a, b : a = answers /\ b = answers'
  OBVIOUS
<1>2. /\ InOrder(a) /\ Asks(a, q) /\ v \in Offered(a, q)
      /\ b = [a EXCEPT ![q] = v]
  BY <1>1 DEF AnswerAsked
<1>3. /\ b = [r \in Questions |-> b[r]]
      /\ b[q] = v /\ \A r \in Questions \ {q} : b[r] = a[r]
  BY <1>2 DEF InOrder
<1>4. /\ q \in MissingQuestions(a)
      /\ q \in {Vps, Shared, Hybrid, Base} => Family \notin MissingQuestions(a)
      /\ q = Base => Vps \notin MissingQuestions(a)
  BY <1>2, AsksInOrder
<1>5. IsQuestionVisible(a, q) /\ a[q] = "undefined"
  BY <1>4 DEF MissingQuestions, Given
<1>6. ValidateAnswers(b)
  BY <1>2, <1>3 DEF InOrder, ValidateAnswers, Given
<1>7. /\ Family \in Questions /\ Vps \in Questions /\ Shared \in Questions /\ Hybrid \in Questions
      /\ Base \in Questions /\ Family # Vps /\ Family # Base /\ Vps # Base
      /\ Family \notin {Vps, Shared, Hybrid} /\ Base \notin {Vps, Shared, Hybrid}
  BY QuestionsAre DEF Family, Vps, Shared, Hybrid, Base
<1>8. /\ \A r \in {Vps, Shared, Hybrid} : Given(a, r) => a[Family] = Condition[r]
      /\ Given(a, Base) => /\ a[Base] \in Accepted(a)
                           /\ Given(a, Family)
                           /\ a[Family] = "vps" => Given(a, Vps)
  BY <1>2, ChoicesAre DEF InOrder
<1> DEFINE Fits == /\ \A r \in {Vps, Shared, Hybrid} : Given(b, r) => b[Family] = Condition[r]
                   /\ Given(b, Base) => /\ b[Base] \in Accepted(b)
                                        /\ Given(b, Family)
                                        /\ b[Family] = "vps" => Given(b, Vps)
<1>9. SUFFICES Fits
  BY <1>1, <1>3, <1>6, ChoicesAre DEF InOrder
<1>10. CASE q = Family
  <2>1. \A r \in {Vps, Shared, Hybrid} : a[r] = "undefined"
    BY <1>5, <1>8, <1>10, ChoicesAre DEF Given
  <2>2. a[Base] = "undefined"
    BY <1>5, <1>8, <1>10 DEF Given
  <2> QED
    BY <1>3, <1>7, <1>10, <2>1, <2>2 DEF Given
<1>11. CASE q \in {Vps, Shared, Hybrid}
  <2>1. a[Family] = Condition[q]
    BY <1>5, <1>11, ChoicesAre DEF IsQuestionVisible
  <2>2. q = Vps => ~Given(a, Base)
    BY <1>5, <1>8, <2>1, ChoicesAre DEF Given
  <2>3. q # Vps => Accepted(b) = Accepted(a)
    BY <1>3, <1>7, <1>11 DEF Accepted
  <2> QED
    BY <1>3, <1>7, <1>8, <1>11, <2>1, <2>2, <2>3 DEF Given
<1>12. CASE q = Base
  <2>1. v \in Accepted(a)
    BY <1>2, <1>12 DEF Offered
  <2>2. Accepted(b) = Accepted(a)
    BY <1>3, <1>7, <1>12 DEF Accepted
  <2>3. Given(a, Family) /\ (a[Family] = "vps" => Given(a, Vps))
    BY <1>4, <1>7, <1>12, ChoicesAre DEF MissingQuestions, IsQuestionVisible
  <2> QED
    BY <1>3, <1>7, <1>8, <1>12, <2>1, <2>2, <2>3 DEF Given
<1>13. CASE q \notin {Family, Vps, Shared, Hybrid, Base}
  <2>1. Accepted(b) = Accepted(a)
    BY <1>3, <1>7, <1>13 DEF Accepted
  <2> QED
    BY <1>3, <1>7, <1>8, <1>13, <2>1 DEF Given
<1> QED
  BY <1>10, <1>11, <1>12, <1>13

LEMMA AskedStep == AskedInOrder /\ [CreateNext]_createVars => AskedInOrder'
<1> SUFFICES ASSUME AskedInOrder, [CreateNext]_createVars PROVE AskedInOrder'
  OBVIOUS
<1>1. CASE UNCHANGED questionVars
  BY <1>1 DEF questionVars, AskedInOrder
<1>2. CASE QuestionnaireNext
  <2>1. ASSUME NEW q \in Questions, NEW v \in Choices[q], AnswerAsked(q, v)
        PROVE  AskedInOrder'
    BY <2>1, AnswerStep DEF AskedInOrder, AnswerAsked
  <2>2. ASSUME NEW q, NEW v, Rewrite(q, v)
        PROVE  AskedInOrder'
    BY <2>2 DEF AskedInOrder, Rewrite
  <2> QED
    BY <1>2, <2>1, <2>2 DEF QuestionnaireNext
<1>3. CreateNext => QuestionnaireNext \/ UNCHANGED questionVars
  BY DEF CreateNext, AgentQuestions, AgentJourney, AgentAnswers, CreateDryRun, CreateBegins,
         CreateGoesOn, CreateDies, CreateFinishes, Journey, UserActs
<1> QED
  BY <1>1, <1>2, <1>3 DEF createVars

LEMMA AskedInit == CreateInit => AskedInOrder
<1> SUFFICES ASSUME answers = Unanswered PROVE InOrder(answers)
  <2>1. CreateInit /\ asked => answers = Unanswered
    BY DEF CreateInit, QuestionnaireInit
  <2> QED
    BY <2>1 DEF AskedInOrder
<1>1. answers = [q \in Questions |-> answers[q]] /\ \A q \in Questions : ~Given(answers, q)
  BY DEF Unanswered, Given
<1>2. DOMAIN Condition \subseteq Questions /\ Base \in Questions
  BY QuestionsAre, ChoicesAre
<1> QED
  BY <1>1, <1>2 DEF InOrder, ValidateAnswers

\* questions.ts, agent-questionnaire.ts, config.ts: whatever the checks of a file of answers let
\* through becomes a configuration the schema accepts, and who answers what is asked is
\* never told to correct an answer.
THEOREM AnswersSuffice == CreateSpec => []AnswersMakeConfig
<1>1. AskedInOrder => AnswersMakeConfig
  <2> SUFFICES ASSUME AskedInOrder PROVE AnswersMakeConfig
    OBVIOUS
  <2>1. ValidateAnswers(answers) /\ ValidateCompatibility(answers) /\ MissingQuestions(answers) = {}
        => Makes(answers)
    BY CompleteMakesConfig
  <2>2. ASSUME asked PROVE Verdict(answers) # "INVALID_ANSWERS"
    <3>1. ValidateAnswers(answers) /\ ValidateCompatibility(answers)
      BY <2>2 DEF AskedInOrder, InOrder, ValidateCompatibility
    <3>2. MissingQuestions(answers) = {} => SchemaAccepts(ConfigFromAnswers(answers))
      BY <2>1, <3>1 DEF Makes
    <3> QED
      BY <3>1, <3>2 DEF Verdict
  <2> QED
    BY <2>1, <2>2 DEF AnswersMakeConfig, Makes
<1> QED
  BY <1>1, AskedInit, AskedStep, PTL DEF CreateSpec
=============================================================================
