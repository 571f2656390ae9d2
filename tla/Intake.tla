------------------------------- MODULE Intake -------------------------------
(***************************************************************************)
(* What is asked of the customer and what becomes of the answers: the      *)
(* questionnaire of a dispute, the form an analyst records the answers in, *)
(* the external model that proposes some of them from the customer's       *)
(* prose, and the risk score the answers feed.                             *)
(*                                                                         *)
(* An analyst's browser keeps a copy of the dispute it last loaded, and    *)
(* the panel on it a form that outlives a change of the copy.              *)
(*                                                                         *)
(* The model's probabilities are in quarters, so that the confidence gate  *)
(* of 0.75 is 3; -1 stands for a question it did not answer.  It answers   *)
(* in the type it was asked in (external).  Values of an answer are named  *)
(* by the types they are well formed for.                                  *)
(***************************************************************************)
EXTENDS Integers, FiniteSets

CONSTANTS
  Sets,         \* build -> the question set it carries for the dispute's reason
  Levels,       \* probabilities of yes the model may give
  Replies,      \* customer replies the analyst may paste, one after the other
  MaxAppeals,   \* of the dispute's regime
  Facts         \* the values each fact of a risk profile may have

VARIABLES
  questionnaire,  \* the row: <<>> or <<[questions, answers, received]>>
  stage,          \* the dispute's state, as far as the questionnaire goes
  appeals,        \* the appeals used
  page,           \* the browser's copy: <<>> or <<[questions, received, open]>>
  form,           \* the panel's form: <<>> or <<[values, proposed, touched, sets]>>
  asking,         \* reply -> where its suggestion call is and what it brought
  profile         \* the risk signals' inputs

intakeVars == <<questionnaire, stage, appeals, page, form, asking, profile>>
rowVars == <<questionnaire, stage, appeals>>

-----------------------------------------------------------------------------
(* Questions and answers *)

WellFormed ==
  [type \in {"YES_NO", "DATE", "AMOUNT", "TEXT"} |->
    CASE type = "YES_NO" -> {"yes", "no"}
      [] type = "DATE"   -> {"a date"}
      [] type = "AMOUNT" -> {"an amount"}
      [] OTHER           -> {"yes", "no", "a date", "an amount", "a text"}]

\* An answer, or a field of the form, that was left empty.
NoAnswer == ""

Answered(answers, id) == id \in DOMAIN answers /\ answers[id] # NoAnswer

ValidateAnswers(questions, answers) ==
  /\ \A id \in DOMAIN questions :
       IF Answered(answers, id) THEN answers[id] \in WellFormed[questions[id].type]
                                ELSE ~questions[id].required
  /\ DOMAIN answers \subseteq DOMAIN questions

checkQuestionSet(questions) ==
  /\ \A id \in DOMAIN questions : questions[id].type \in DOMAIN WellFormed
  /\ \E id \in DOMAIN questions : questions[id].required

\* Every shipped set passes the check the program makes when it starts.
ASSUME SetsAssumption == \A b \in DOMAIN Sets : checkQuestionSet(Sets[b])

\* The two contradictions an unauthorised payment's answers may hold, and the one each
\* of the reasons NOT_RECEIVED and DUPLICATE may.
Is(answers, id, v) == id \in DOMAIN answers /\ answers[id] = v

Inconsistencies(reason, answers) ==
  CASE reason = "UNAUTHORISED" ->
         (IF /\ Is(answers, "recognise_merchant", "yes")
             /\ Is(answers, "card_in_possession", "yes")
             /\ Is(answers, "shared_credentials", "no") THEN 1 ELSE 0)
         + (IF /\ Is(answers, "police_report", "yes")
               /\ Is(answers, "card_in_possession", "yes") THEN 1 ELSE 0)
    [] reason = "NOT_RECEIVED" ->
         IF Is(answers, "contacted_merchant", "no") /\ Answered(answers, "merchant_response")
         THEN 1 ELSE 0
    [] reason = "DUPLICATE" -> IF Is(answers, "same_merchant", "no") THEN 1 ELSE 0
    [] OTHER -> 0

-----------------------------------------------------------------------------
(* Proposals *)

Gate == "__is_about_this_dispute"

\* A yes or no arrives as the probability of yes.
Decide(noul) == [value |-> IF noul >= 2 THEN "yes" ELSE "no",
                 probability |-> IF noul >= 2 THEN noul ELSE 4 - noul]

Confident(answer) == answer.probability >= 3

ProposeAll(noul) ==
  [id \in {q \in DOMAIN noul : noul[q] # -1 /\ Confident(Decide(noul[q]))} |->
    Decide(noul[id]).value]

YesNo(questions) == {id \in DOMAIN questions : questions[id].type = "YES_NO"}

\* Fault: the questions the build would ask today, not the ones that were sent.
Asked_Fault(b) == Sets[b]

\* The questions that were sent, or before that the ones the reason selects.
Asked(b) == IF questionnaire # <<>> /\ DOMAIN questionnaire[1].questions # {}
            THEN questionnaire[1].questions ELSE Sets[b]

\* Nothing is proposed unless the reply is found to be about this dispute.
Shown(noul) ==
  LET answers == ProposeAll(noul)
  IN IF Is(answers, Gate, "yes") THEN [id \in DOMAIN answers \ {Gate} |-> answers[id]] ELSE <<>>

NotAsked == [stage |-> "none", shown |-> <<>>]

\* The panel takes answers: it is open on a copy that awaits them.
PanelAsks == form # <<>> /\ page[1].open /\ ~page[1].received

\* The reply's box loses the focus: the browser sends it to be read, and goes on.
ReadReply(n) ==
  /\ PanelAsks
  /\ asking[n].stage = "none"
  /\ asking' = [asking EXCEPT ![n].stage = "asked"]
  /\ UNCHANGED <<rowVars, page, form, profile>>

\* A model that is absent or does not answer proposes nothing.
SuggestQuestionnaireAnswers(n, b) ==
  /\ asking[n].stage = "asked"
  /\ \E shown \in {Shown(noul) : noul \in [YesNo(Asked(b)) \cup {Gate} -> Levels]} :
       asking' = [asking EXCEPT ![n] = [stage |-> "answered", shown |-> shown]]
  /\ UNCHANGED <<rowVars, page, form, profile>>

Over(f, g) == [id \in DOMAIN f \cup DOMAIN g |-> IF id \in DOMAIN g THEN g[id] ELSE f[id]]

\* The answer comes back to the browser and fills the fields, whatever they hold and
\* whatever the panel shows by now.
Proposed(n) ==
  LET shown == asking[n].shown
  IN /\ asking[n].stage = "answered"
     /\ form' = [form EXCEPT ![1].values = Over(@, shown), ![1].proposed = DOMAIN shown,
                             ![1].touched = @ \/ DOMAIN shown # {}]
     /\ asking' = [asking EXCEPT ![n] = NotAsked]
     /\ UNCHANGED <<rowVars, page, profile>>

-----------------------------------------------------------------------------
(* The row *)

\* The set replaces the row and clears its answers, answered or not.  The form's sets are
\* a history: the questions that were asked while it was open.
SendQuestionnaire(b) ==
  /\ stage = "investigating" /\ stage' = "sent"
  /\ questionnaire' = <<[questions |-> Sets[b], answers |-> <<>>, received |-> FALSE]>>
  /\ form' = [i \in DOMAIN form |-> [form[i] EXCEPT !.sets = @ \cup {Sets[b]}]]
  /\ UNCHANGED <<appeals, page, asking, profile>>

CloseDispute ==
  /\ stage # "closed" /\ stage' = "closed"
  /\ UNCHANGED <<questionnaire, appeals, page, form, asking, profile>>

Appeal ==
  /\ stage = "closed" /\ appeals < MaxAppeals
  /\ stage' = "investigating" /\ appeals' = appeals + 1
  /\ UNCHANGED <<questionnaire, page, form, asking, profile>>

-----------------------------------------------------------------------------
(* The page, its panel and the form *)

Blank(questions) == [id \in DOMAIN questions |-> NoAnswer]

\* The form library (external): new default values replace the values of a form nobody
\* has touched, and leave any other form as it is.
update(f, questions) == IF f.touched THEN f ELSE [f EXCEPT !.values = Blank(questions)]

\* The dispute is loaded again.  The panel and its form stay.
refreshDispute ==
  /\ questionnaire # <<>>
  /\ page' = <<[questions |-> questionnaire[1].questions, received |-> questionnaire[1].received,
                open |-> stage = "sent"]>>
  /\ form' = [i \in DOMAIN form |-> update(form[i], questionnaire[1].questions)]
  /\ UNCHANGED <<rowVars, asking, profile>>

\* The analyst comes to the dispute's page, whose copy may be an old one.
OpenPanel ==
  /\ page # <<>> /\ form = <<>>
  /\ form' = <<[values |-> Blank(page[1].questions), proposed |-> {}, touched |-> FALSE,
                sets |-> {page[1].questions, questionnaire[1].questions}]>>
  /\ UNCHANGED <<rowVars, page, asking, profile>>

\* The analyst leaves it; what is still being read fills nothing.
LeavePanel ==
  /\ form # <<>> /\ form' = <<>>
  /\ asking' = [n \in Replies |-> NotAsked]
  /\ UNCHANGED <<rowVars, page, profile>>

\* The analyst leaves a value in a field; one for a yes or no is then no proposal any more.
Choose(id, v) ==
  LET question == page[1].questions[id]
  IN /\ PanelAsks
     /\ v \in WellFormed[question.type] /\ (question.type = "TEXT" => v = "a text")
     /\ form' = [form EXCEPT ![1].values = Over(@, [x \in {id} |-> v]),
                             ![1].proposed = IF question.type = "YES_NO" THEN @ \ {id} ELSE @,
                             ![1].touched = TRUE]
     /\ UNCHANGED <<rowVars, page, asking, profile>>

Filled(f) == [id \in {x \in DOMAIN f : f[x] # NoAnswer} |-> f[id]]

\* RECEIVE_QUESTIONNAIRE with what the form holds; a refusal leaves all as it was.  The
\* form keeps its values.
ReceiveQuestionnaire ==
  LET answers == Filled(form[1].values)
  IN /\ PanelAsks
     /\ stage = "sent" /\ stage' = "received"
     /\ ValidateAnswers(questionnaire[1].questions, answers)
     /\ questionnaire' = [questionnaire EXCEPT ![1].answers = answers, ![1].received = TRUE]
     /\ UNCHANGED <<appeals, page, form, asking, profile>>

-----------------------------------------------------------------------------
(* The score.  A profile holds, of each signal, what its points depend on. *)

frequency(n) == IF n >= 3 THEN 25 ELSE IF n = 2 THEN 18 ELSE IF n = 1 THEN 10 ELSE 0
consistency(known, n) == IF ~known THEN 0 ELSE IF n >= 2 THEN 25 ELSE IF n = 1 THEN 15 ELSE 0
chargebacks(n) == IF n >= 2 THEN 25 ELSE IF n = 1 THEN 15 ELSE 0

\* Fault: the two ages of a transaction are swapped.
transactionAge_Fault(days) == IF days > 60 THEN 5 ELSE IF days > 30 THEN 10 ELSE 0

transactionAge(days) == IF days > 60 THEN 10 ELSE IF days > 30 THEN 5 ELSE 0
merchant(high) == IF high THEN 10 ELSE 0
amount(a) == IF a >= 1000 THEN 10 ELSE IF a >= 500 THEN 5 ELSE 0
accountAge(days) == IF days < 90 THEN 5 ELSE IF days < 365 THEN 2 ELSE 0

\* The account's other disputes and the ones lost, the ages in days, and the claim: the
\* dispute's reason with the answers, once they are known.
Profiles == [disputes : Facts.disputes, lost : Facts.lost, age : Facts.age,
             highRisk : Facts.highRisk, amount : Facts.amount, account : Facts.account,
             known : Facts.known, claim : Facts.claim]

\* Counts, ages in days and an amount are numbers; every fact of a profile has its values.
ASSUME FactsAssumption ==
  /\ DOMAIN Facts = {"disputes", "lost", "age", "highRisk", "amount", "account", "known", "claim"}
  /\ \A fact \in {"disputes", "lost", "age", "amount", "account"} : Facts[fact] \subseteq Int
  /\ Facts.highRisk \subseteq BOOLEAN /\ Facts.known \subseteq BOOLEAN

Contradictions(p) == Inconsistencies(p.claim.reason, p.claim.answers)

Score(p) ==
  frequency(p.disputes) + consistency(p.known, Contradictions(p))
    + chargebacks(p.lost) + transactionAge(p.age) + merchant(p.highRisk)
    + amount(p.amount) + accountAge(p.account)

Tier(p) == IF Score(p) >= 45 THEN "HIGH" ELSE IF Score(p) >= 20 THEN "MEDIUM" ELSE "LOW"

\* One fact of the profile changes: another dispute, the answers arrive, another claim.
Assess(fact, v) ==
  /\ profile' = [profile EXCEPT ![fact] = v]
  /\ UNCHANGED <<rowVars, page, form, asking>>

-----------------------------------------------------------------------------
(* Properties *)

\* A proposal never stands in the way: what the model puts into the form is never what
\* makes the server refuse the answers, however late it comes, also when the release that
\* reads the reply has other questions than the one that sent them, and when the same
\* questions are sent again after an appeal.  (Not so once other questions were sent while
\* the panel was open: it keeps what it holds.)
ProposalsNeverBlock ==
  (stage = "sent" /\ form # <<>> /\ form[1].sets = {questionnaire[1].questions}) =>
    \A id \in DOMAIN Filled(form[1].values) :
      /\ id \in DOMAIN questionnaire[1].questions
      /\ form[1].values[id] \in WellFormed[questionnaire[1].questions[id].type]

\* A worse fact never lowers the score, and so never lifts a hold: of two profiles that
\* differ in one signal the one with more of it scores at least as high.
Worse(p, q) ==
  /\ q.disputes >= p.disputes /\ q.lost >= p.lost /\ q.age >= p.age
  /\ p.highRisk => q.highRisk
  /\ q.amount >= p.amount /\ q.account <= p.account
  /\ p.known => q.known
  /\ p.known => Contradictions(q) >= Contradictions(p)

Severity == [LOW |-> 0, MEDIUM |-> 1, HIGH |-> 2]

WorseNeverScoresLower ==
  [][Worse(profile, profile') =>
       /\ Score(profile') >= Score(profile)
       /\ Severity[Tier(profile')] >= Severity[Tier(profile)]]_profile
=============================================================================
