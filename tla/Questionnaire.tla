---------------------------- MODULE Questionnaire ---------------------------
(***************************************************************************)
(* The technical questionnaire of the generator: the file of answers an    *)
(* agent fills in for its user, what the command says of it, and the       *)
(* configuration a complete file stands for.  Questions whose answer is    *)
(* only copied into the configuration keep two of their choices.           *)
(***************************************************************************)
EXTENDS Naturals, FiniteSets, Sequences

CONSTANTS
    Files,             \* bound: files an agent writes by itself
    Rewritten          \* bound: questions whose answers it then changes

VARIABLES
    answers,           \* the file: answers[q], or "undefined"
    asked              \* bound: the file only ever got answers to what was asked

questionVars == <<answers, asked>>

-----------------------------------------------------------------------------
(* The registry *)

Family  == "deployment.family"
Vps     == "architecture.vps_variant"
Shared  == "architecture.shared_variant"
Hybrid  == "architecture.hybrid_frontend"
Base    == "database.provider"
Payment == "payments.provider"
Design  == "design.source"
Billing == "billing.mode"
Name    == "product.name"

\* In the order they are asked.
Registry ==
    <<Name, Family, Vps, Shared, Hybrid, Base, Payment, Billing, Design>>

Questions == {Registry[i] : i \in DOMAIN Registry}

Choices ==
    [q \in Questions |->
        CASE q = Family  -> {"cloud", "vps", "shared", "hybrid"}
          [] q = Vps     -> {"next", "laravel", "laravel_inertia_react", "laravel_api_next",
                             "laravel_api_react"}
          [] q = Shared  -> {"laravel", "laravel_inertia_react"}
          [] q = Hybrid  -> {"next", "react"}
          [] q = Base    -> {"neon", "supabase", "postgres", "mysql"}
          [] q = Payment -> {"none", "stripe", "fedapay", "orange_money_ml", "moneroo"}
          [] q = Design  -> {"headless", "stitch"}
          [] q = Billing -> {"none", "credits"}
          [] q = Name    -> {"a name"}]

\* The family a question is about.
Condition ==
    [q \in {Vps, Shared, Hybrid} |->
        CASE q = Vps -> "vps" [] q = Shared -> "shared" [] q = Hybrid -> "hybrid"]

Given(a, q) == a[q] # "undefined"

IsQuestionVisible(a, q) == q \in DOMAIN Condition => a[Family] = Condition[q]

MissingQuestions(a) == {q \in Questions : IsQuestionVisible(a, q) /\ ~Given(a, q)}

\* The one question the command asks: the first in the registry.
Asks(a, q) ==
    \E i \in DOMAIN Registry :
        /\ Registry[i] = q
        /\ q \in MissingQuestions(a)
        /\ \A j \in 1..(i - 1) : Registry[j] \notin MissingQuestions(a)

\* validateAnswers: a blank name is refused like a value that is no choice.
ValidateAnswers(a) == \A q \in Questions : Given(a, q) => a[q] \in Choices[q]

\* The bases a family accepts, in the words of the command.
Accepted(a) ==
    CASE a[Family] = "cloud" -> {"neon", "supabase", "postgres"}
      [] a[Family] = "shared" -> {"mysql"}
      [] a[Family] = "vps" /\ a[Vps] = "next" -> {"postgres"}
      [] OTHER -> Choices[Base]

ValidateCompatibility(a) ==
    /\ Given(a, Base) => a[Base] \in Accepted(a)
    /\ \A q \in DOMAIN Condition :
          Given(a, Family) /\ Given(a, q) => a[Family] = Condition[q]

\* Mutant: every base is offered.
Offered_AllBases(a, q) == Choices[q]

\* publicQuestion: the choices an agent is shown.
Offered(a, q) ==
    IF q # Base THEN Choices[q]
    ELSE IF a[Family] \in {"vps", "hybrid"} THEN Accepted(a) \cap {"postgres", "mysql"}
    ELSE Accepted(a)

-----------------------------------------------------------------------------
(* The configuration *)

Target(a) ==
    CASE a[Family] = "cloud" -> "cloud_vercel"
      [] a[Family] = "shared" -> "shared_laravel"
      [] a[Family] = "hybrid" -> "hybrid"
      [] OTHER -> IF a[Vps] = "next" THEN "vps_next" ELSE "vps_laravel"

Backend(a) == IF Target(a) \in {"cloud_vercel", "vps_next"} THEN "next" ELSE "laravel"

Inertia(a) ==
    \/ a[Vps] = "laravel_inertia_react"
    \/ a[Family] = "shared" /\ a[Shared] = "laravel_inertia_react"

Frontend(a) ==
    CASE (a[Family] = "shared" /\ ~Inertia(a)) \/ a[Vps] = "laravel" -> "blade"
      [] Inertia(a) \/ a[Vps] = "laravel_api_react" -> "react"
      [] a[Family] = "hybrid" -> a[Hybrid]
      [] OTHER -> "next"

\* A Laravel profile takes PostgreSQL for any provider but MySQL.
Provider(a) ==
    CASE a[Family] = "cloud" -> a[Base]
      [] a[Family] = "shared" -> "mysql"
      [] Target(a) = "vps_next" -> "postgres"
      [] OTHER -> IF a[Base] = "mysql" THEN "mysql" ELSE "postgres"

ConfigFromAnswers(a) ==
    [target |-> Target(a), backend |-> Backend(a), frontend |-> Frontend(a),
     ui |-> IF Inertia(a) THEN "inertia_react" ELSE Frontend(a),
     integration |-> CASE Inertia(a) -> "inertia"
                       [] ~Inertia(a) /\ Backend(a) = "next" -> "standalone"
                       [] ~Inertia(a) /\ Backend(a) # "next" ->
                             IF Frontend(a) = "blade" THEN "blade" ELSE "api",
     family |-> a[Family],
     variant |-> IF a[Family] = "vps" THEN a[Vps] ELSE "null",
     engine |-> IF Provider(a) = "mysql" THEN "mysql" ELSE "postgres",
     providers |-> {a[Payment]} \ {"none"},
     default |-> IF a[Payment] = "none" THEN "null" ELSE a[Payment]]

\* configSchema: the values of the fields.
FieldsOK(c) ==
    /\ c.frontend \in {"next", "react", "blade"}
    /\ c.ui \in {"next", "react", "blade", "inertia_react"}
    /\ c.family \in Choices[Family]
    /\ c.variant \in Choices[Vps] \cup {"null"}

\* configSchema: what its fields owe each other.
Coherent(c) ==
    /\ c.family = CASE c.target = "cloud_vercel" -> "cloud"
                    [] c.target = "shared_laravel" -> "shared"
                    [] c.target = "hybrid" -> "hybrid"
                    [] OTHER -> "vps"
    /\ c.family = "vps" => c.variant # "null"
    /\ c.target \in {"cloud_vercel", "vps_next"} =>
          c.frontend = "next" /\ c.backend = "next" /\ c.engine = "postgres"
    /\ c.target \in {"vps_laravel", "shared_laravel", "hybrid"} => c.backend = "laravel"
    /\ c.target = "shared_laravel" => c.frontend \in {"blade", "react"}
    /\ c.target = "hybrid" => c.frontend \in {"next", "react"}
    /\ c.integration = "inertia" =>
          /\ c.backend = "laravel" /\ c.frontend = "react" /\ c.ui = "inertia_react"
          /\ c.target \in {"vps_laravel", "shared_laravel"}
    /\ c.ui = "inertia_react" => c.integration = "inertia"
    /\ c.default # "null" => c.default \in c.providers

SchemaAccepts(c) == FieldsOK(c) /\ Coherent(c)

\* resolveComponents, without the contracts, the deployment and the payments.
ResolveComponents(c) ==
    IF c.backend = "next" THEN {"next_backend"}
    ELSE {"laravel_backend"} \cup
         CASE c.integration = "inertia" -> {"inertia_react_frontend"}
           [] c.integration # "inertia" /\ c.frontend = "next" -> {"next_frontend"}
           [] c.integration # "inertia" /\ c.frontend = "react" -> {"react_frontend"}
           [] OTHER -> {"blade_frontend"}

-----------------------------------------------------------------------------
(* The command *)

\* runAgentQuestionnaire, in the words of the guided journey.
Verdict(a) ==
    IF ~ValidateAnswers(a) \/ ~ValidateCompatibility(a) THEN "INVALID_ANSWERS"
    ELSE IF MissingQuestions(a) # {} THEN "NEEDS_TECHNICAL_ANSWERS"
    ELSE IF SchemaAccepts(ConfigFromAnswers(a)) THEN "READY_FOR_DRY_RUN" ELSE "INVALID_ANSWERS"

\* The agent adds the answer to the one question the command asks.
AnswerAsked(q, v) ==
    /\ asked
    /\ Verdict(answers) = "NEEDS_TECHNICAL_ANSWERS"
    /\ Asks(answers, q)
    /\ v \in Offered(answers, q)
    /\ answers' = [answers EXCEPT ![q] = v]
    /\ UNCHANGED asked

\* Or it writes, corrects and deletes answers as it likes.
Rewrite(q, v) ==
    /\ ~asked
    /\ q \in Rewritten
    /\ answers' = [answers EXCEPT ![q] = v]
    /\ UNCHANGED asked

Unanswered == [q \in Questions |-> "undefined"]

QuestionnaireInit ==
    \/ asked = TRUE /\ answers = Unanswered
    \/ asked = FALSE /\ answers \in Files

QuestionnaireNext ==
    \E q \in Questions :
        \/ \E v \in Choices[q] : AnswerAsked(q, v)
        \/ \E v \in Choices[q] \cup {"undefined", "nonsense"} : Rewrite(q, v)

-----------------------------------------------------------------------------
(* Properties *)

Backends  == {"next_backend", "laravel_backend"}
Frontends == {"inertia_react_frontend", "next_frontend", "react_frontend", "blade_frontend"}

\* The questionnaire, the compatibility rules, the conversion and the schema agree: whatever
\* the first two let through becomes a configuration the schema accepts, with one backend
\* and with the one frontend it does not contain; and who answers what is asked, with a
\* choice that is offered, is never told to correct an answer.
AnswersMakeConfig ==
    /\ ValidateAnswers(answers) /\ ValidateCompatibility(answers) /\ MissingQuestions(answers) = {} =>
          LET c == ConfigFromAnswers(answers)
          IN  /\ SchemaAccepts(c)
              /\ Cardinality(ResolveComponents(c) \cap Backends) = 1
              /\ Cardinality(ResolveComponents(c) \cap Frontends) = IF c.backend = "next" THEN 0 ELSE 1
    /\ asked => Verdict(answers) # "INVALID_ANSWERS"
=============================================================================
